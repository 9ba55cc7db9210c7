------------------------------ MODULE Ratchet ------------------------------
(***************************************************************************)
(* The Double Ratchet of core/src/ratchet.rs: two parties encrypt to each  *)
(* other over a network that loses, duplicates and reorders envelopes, and *)
(* each decrypts what reaches it.                                          *)
(*                                                                         *)
(* Keys are symbolic.  A DH keypair is a number, the output of a DH the    *)
(* set of the two keypairs, and a root key the sequence of DH outputs it   *)
(* was derived from; kdf_rk derives a root and a chain key together, so    *)
(* the same sequence names the chain.  The message key of a chain's n-th   *)
(* message is <<chain, n>>, and an envelope opens only with the key it was *)
(* sealed with.  An envelope that does not open changes nothing: decrypt   *)
(* commits only once the tag has verified.                                 *)
(***************************************************************************)
EXTENDS Integers, FiniteSets, Sequences

CONSTANTS
  MaxSkip,          \* max_skip
  CacheMultiplier,  \* SKIPPED_CACHE_LIFETIME_MULTIPLIER
  MaxMessages,      \* bound: envelopes a party sends
  MaxKeys           \* bound: DH keypairs generated

ASSUME BoundsType == /\ MaxSkip \in Nat /\ CacheMultiplier \in Nat
                     /\ MaxMessages \in Nat /\ MaxKeys \in Nat

VARIABLES
  ratchet,   \* ratchet[p]: p's RatchetState
  sent,      \* sent[p]: the envelopes p has sent; any of them may still arrive
  opened,    \* opened[p]: those sent to p that it has decrypted
  evicted,   \* evicted[p]: cached keys p has given up
  next_key   \* the next DH keypair a party generates

vars == <<ratchet, sent, opened, evicted, next_key>>

-----------------------------------------------------------------------------
(* Values. *)

Parties == {"initiator", "responder"}
Peer(p) == IF p = "initiator" THEN "responder" ELSE "initiator"

DhKeys == Nat \ {0}
NoKey == 0
Chains == Seq(SUBSET Nat)
NoChain == << >>
Indices == Nat \union {-1}     \* -1 is content_delivered_contiguous = None

Envelope == [dh_pub : DhKeys, pn : Nat, n : Nat, chain : Chains]
SkippedKey == [dh_pub : DhKeys, n : Nat, chain : Chains]

RatchetState ==
  [root_key : Chains, dh_self : DhKeys, dh_remote : Nat,
   sending_chain : Chains, receiving_chain : Chains,
   send_n : Nat, recv_n : Nat, prev_chain_len : Nat,
   skipped : SUBSET SkippedKey, skipped_order : Seq(DhKeys \X Nat),
   contiguous : Indices, out_of_order : SUBSET Nat]

TypeOK ==
  /\ ratchet \in [Parties -> RatchetState]
  /\ sent \in [Parties -> SUBSET Envelope]
  /\ opened \in [Parties -> SUBSET Envelope]
  /\ evicted \in [Parties -> SUBSET SkippedKey]
  /\ next_key \in DhKeys

(* The responder's signed prekey is keypair 1, the initiator's first       *)
(* ratchet keypair is 2.                                                   *)
Fresh(dh_self) ==
  [root_key |-> << >>, dh_self |-> dh_self, dh_remote |-> NoKey,
   sending_chain |-> NoChain, receiving_chain |-> NoChain,
   send_n |-> 0, recv_n |-> 0, prev_chain_len |-> 0,
   skipped |-> {}, skipped_order |-> << >>, contiguous |-> -1, out_of_order |-> {}]

init_as_responder == Fresh(1)
init_as_initiator ==
  [Fresh(2) EXCEPT !.root_key = <<{1, 2}>>, !.dh_remote = 1,
                   !.sending_chain = <<{1, 2}>>]

Init ==
  /\ ratchet = [p \in Parties |-> IF p = "initiator" THEN init_as_initiator
                                                     ELSE init_as_responder]
  /\ sent = [p \in Parties |-> {}] /\ opened = [p \in Parties |-> {}]
  /\ evicted = [p \in Parties |-> {}]
  /\ next_key = 3

-----------------------------------------------------------------------------
(* encrypt. *)

Encrypt(p) ==
  LET r == ratchet[p] IN
  /\ r.sending_chain # NoChain
  /\ Cardinality(sent[p]) < MaxMessages
  /\ sent' = [sent EXCEPT ![p] = sent[p] \union
        {[dh_pub |-> r.dh_self, pn |-> r.prev_chain_len, n |-> r.send_n,
          chain |-> r.sending_chain]}]
  /\ ratchet' = [ratchet EXCEPT ![p] = [r EXCEPT !.send_n = r.send_n + 1]]
  /\ UNCHANGED <<opened, evicted, next_key>>

-----------------------------------------------------------------------------
(* decrypt_raw. *)

(* skip_and_derive's limit, and the keys it derives on the way.            *)
SkipAllowed(from, until) == until <= from + MaxSkip
SkippedKeys(dh, chain, from, until) ==
  {[dh_pub |-> dh, n |-> i, chain |-> chain] : i \in from..(until - 1)}
SkippedIds(dh, from, until) ==
  [i \in 1..(IF from < until THEN until - from ELSE 0) |-> <<dh, from + i - 1>>]

(* A cached key is tried first, and alone, where there is one.             *)
Cached(r, m) == {k \in r.skipped : k.dh_pub = m.dh_pub /\ k.n = m.n}
OpensCached(r, m) == \E k \in Cached(r, m) : k.chain = m.chain

(* Without one, on the current receiving chain: an index before recv_n     *)
(* derives the key of recv_n, which does not open it.                      *)
OpensOnChain(r, m) ==
  /\ Cached(r, m) = {} /\ m.dh_pub = r.dh_remote
  /\ r.receiving_chain # NoChain
  /\ SkipAllowed(r.recv_n, m.n)
  /\ m.chain = r.receiving_chain /\ m.n >= r.recv_n

(* Or, for a key other than the peer's last, after a DH ratchet step.      *)
SteppedRoot(r, dh) == Append(r.root_key, {r.dh_self, dh})
OpensAfterStep(r, m) ==
  /\ Cached(r, m) = {} /\ m.dh_pub # r.dh_remote
  /\ r.receiving_chain # NoChain => SkipAllowed(r.recv_n, m.pn)
  /\ SkipAllowed(0, m.n)
  /\ m.chain = SteppedRoot(r, m.dh_pub)

(* record_content_delivered: the frontier moves over n and what it joins.  *)
Absorbed(r, n) ==
  n + Cardinality({i \in r.out_of_order : i > n /\ (n + 1)..i \subseteq r.out_of_order})
MutRecordedAsSkipped(r, n) == [r EXCEPT !.contiguous = r.recv_n - 1]
Recorded(r, n) ==
  IF n = r.contiguous + 1
  THEN [r EXCEPT !.contiguous = Absorbed(r, n),
                 !.out_of_order = r.out_of_order \ ((n + 1)..Absorbed(r, n))]
  ELSE IF n > r.contiguous
  THEN [r EXCEPT !.out_of_order = r.out_of_order \union {n}]
  ELSE r

(* evict_oldest_skipped_beyond_lifetime_bound: while more keys are cached  *)
(* than the cap, the oldest id is popped; one whose key was used meanwhile *)
(* is popped to no effect.                                                 *)
Cap == MaxSkip * CacheMultiplier
LeftAfter(r, pops) ==
  LET gone == {r.skipped_order[i] : i \in 1..pops} IN
  {k \in r.skipped : <<k.dh_pub, k.n>> \notin gone}
MutPopsLate(r) ==
  Cardinality({i \in 0..(Len(r.skipped_order) - 1) :
                 Cardinality(LeftAfter(r, i)) > Cap + 1})
Pops(r) ==
  Cardinality({i \in 0..(Len(r.skipped_order) - 1) :
                 Cardinality(LeftAfter(r, i)) > Cap})
Evicted(r) ==
  [r EXCEPT !.skipped = LeftAfter(r, Pops(r)),
            !.skipped_order = SubSeq(r.skipped_order, Pops(r) + 1, Len(r.skipped_order))]

(* The commit of a decryption that derived its key: new keys are cached,   *)
(* the oldest beyond the cap dropped, and the message recorded.            *)
Commit(p, m, stepped, keys, ids) ==
  LET full == [stepped EXCEPT !.recv_n = m.n + 1,
                              !.skipped = stepped.skipped \union keys,
                              !.skipped_order = stepped.skipped_order \o ids]
  IN
  /\ ratchet' = [ratchet EXCEPT ![p] = Recorded(Evicted(full), m.n)]
  /\ evicted' = [evicted EXCEPT ![p] =
                   evicted[p] \union (full.skipped \ Evicted(full).skipped)]
  /\ opened' = [opened EXCEPT ![p] = opened[p] \union {m}]

(* The key of a message skipped earlier; it counts as progress only on the *)
(* peer's current chain.                                                   *)
MutKeyKept(r, m) == r
KeyUsed(r, m) == [r EXCEPT !.skipped = r.skipped \ Cached(r, m)]
OpenCached(p, m) ==
  LET r == ratchet[p] IN
  /\ OpensCached(r, m)
  /\ ratchet' = [ratchet EXCEPT ![p] = IF m.dh_pub = r.dh_remote
                                       THEN Recorded(KeyUsed(r, m), m.n)
                                       ELSE KeyUsed(r, m)]
  /\ opened' = [opened EXCEPT ![p] = opened[p] \union {m}]
  /\ UNCHANGED <<sent, evicted, next_key>>

OpenOnChain(p, m) ==
  LET r == ratchet[p] IN
  /\ OpensOnChain(r, m)
  /\ Commit(p, m, r, SkippedKeys(m.dh_pub, r.receiving_chain, r.recv_n, m.n),
            SkippedIds(m.dh_pub, r.recv_n, m.n))
  /\ UNCHANGED <<sent, next_key>>

(* A DH step derives both chains anew, and this party's next messages      *)
(* carry a new keypair.                                                    *)
ChainEnd(r) == r.send_n
MutSharedChain(r, dh, new) == SteppedRoot(r, dh)
NewSendingChain(r, dh, new) == Append(SteppedRoot(r, dh), {new, dh})
Stepped(r, dh, new) ==
  [r EXCEPT !.root_key = Append(SteppedRoot(r, dh), {new, dh}),
            !.dh_self = new, !.dh_remote = dh,
            !.sending_chain = NewSendingChain(r, dh, new),
            !.receiving_chain = SteppedRoot(r, dh),
            !.prev_chain_len = ChainEnd(r), !.send_n = 0,
            !.contiguous = -1, !.out_of_order = {}]

(* The keys left on the old receiving chain are cached with the new ones.  *)
MutOldChainDropped(r, m) == r.recv_n
OldChainEnd(r, m) == IF r.receiving_chain = NoChain THEN r.recv_n ELSE m.pn
OpenAfterStep(p, m) ==
  LET r == ratchet[p]
      until == OldChainEnd(r, m)
  IN
  /\ OpensAfterStep(r, m) /\ next_key <= MaxKeys
  /\ Commit(p, m, Stepped(r, m.dh_pub, next_key),
            SkippedKeys(r.dh_remote, r.receiving_chain, r.recv_n, until)
              \union SkippedKeys(m.dh_pub, SteppedRoot(r, m.dh_pub), 0, m.n),
            SkippedIds(r.dh_remote, r.recv_n, until) \o SkippedIds(m.dh_pub, 0, m.n))
  /\ next_key' = next_key + 1
  /\ UNCHANGED sent

-----------------------------------------------------------------------------
Open(p, m) == OpenCached(p, m) \/ OpenOnChain(p, m) \/ OpenAfterStep(p, m)

Next ==
  \E p \in Parties :
    \/ Encrypt(p)
    \/ \E m \in sent[Peer(p)] : Open(p, m)

Spec == Init /\ [][Next]_vars

-----------------------------------------------------------------------------
(* Properties. *)

Opens(r, m) == OpensCached(r, m) \/ OpensOnChain(r, m) \/ OpensAfterStep(r, m)

(* A message is decrypted at most once: whatever has happened since, no    *)
(* copy of it opens again (decrypt_raw; test                               *)
(* each_message_key_is_single_use_replay_is_rejected).                     *)
OpenedOnce == \A p \in Parties : \A m \in opened[p] : ~Opens(ratchet[p], m)

(* No message key, and so no nonce, seals two messages: the key of the     *)
(* next message a party will send is one neither party has used (encrypt,  *)
(* the DH ratchet step).                                                   *)
NextKeyIsFresh ==
  \A p, q \in Parties :
    ratchet[p].sending_chain # NoChain =>
      \A m \in sent[q] :
        <<m.chain, m.n>> # <<ratchet[p].sending_chain, ratchet[p].send_n>>

(* receiving_progress is exact: it covers an index just when that message  *)
(* and every earlier one of the peer's current chain has been decrypted,   *)
(* so the cumulative ack built on it never claims a message that was only  *)
(* skipped (receiving_progress, record_content_delivered).                 *)
OpenedOnCurrent(p) == {m.n : m \in {m \in opened[p] : m.dh_pub = ratchet[p].dh_remote}}
ProgressIsExact ==
  \A p \in Parties :
    LET c == ratchet[p].contiguous IN
    /\ \A i \in 0..c : i \in OpenedOnCurrent(p)
    /\ c + 1 \notin OpenedOnCurrent(p)

(* Neither loss, nor reordering, nor a DH step costs a message that still  *)
(* arrives: it opens, unless its own key was evicted from the cache, or    *)
(* more than max_skip messages before it are missing (decrypt_raw,         *)
(* skip_and_derive; tests queue_depth,                                     *)
(* a_maxskipexceeded_rejection_does_not_wedge_the_conversation_...).       *)
Missing(p, m) ==
  {k \in sent[Peer(p)] \ opened[p] :
     \/ k.chain = m.chain /\ k.n < m.n
     \/ k.chain = ratchet[p].receiving_chain /\ k.chain # m.chain}
ArrivalsOpen ==
  \A p \in Parties : \A m \in sent[Peer(p)] \ opened[p] :
    \/ Opens(ratchet[p], m)
    \/ [dh_pub |-> m.dh_pub, n |-> m.n, chain |-> m.chain] \in evicted[p]
    \/ Cardinality(Missing(p, m)) > MaxSkip

(* The cache never outgrows its cap, however many DH steps leave messages  *)
(* undelivered, and what it gives up is older than all it keeps            *)
(* (evict_oldest_skipped_beyond_lifetime_bound).                           *)
OldestEvicted ==
  \A p \in Parties :
    /\ Cardinality(ratchet[p].skipped) <= Cap
    /\ \A e \in evicted[p], k \in ratchet[p].skipped :
         \/ Len(e.chain) < Len(k.chain)
         \/ e.chain = k.chain /\ e.n < k.n

=============================================================================
