-------------------------- MODULE ConnectionsProofs --------------------------
(***************************************************************************)
(* Proofs about Connections, for any number of accounts, connections,      *)
(* addresses and scenarios, and any caps, bursts and queue lengths.        *)
(*                                                                         *)
(* Beyond the types: which connections hold a slot and a place in the      *)
(* count (AddressInv, CountInv), how close to the cap the count may be     *)
(* while an upgrade is pending (CapInv), what a bucket holds against what  *)
(* it gave (BucketInv), and where the one answer a client waits for is     *)
(* (ExchangeInv).                                                          *)
(***************************************************************************)
EXTENDS Connections, DataFacts, FiniteSetTheorems, TLAPS

-----------------------------------------------------------------------------
LinkStates == [phase : {"unused", "upgrading", "open", "closing", "ended"},
               from : Clients \union {None},
               key : Clients \union Proxies \union {None},
               as : Accounts \union {None}]
ClientStates == [waiting : BOOLEAN, lost : BOOLEAN, left : BOOLEAN, plain : BOOLEAN,
                 sent : Nat]
Shown == {None, "Online", "Away", "Offline"}
RequestFrames == [n : Nat, kind : Kinds, target : Accounts \union {"Online", "Away", None}]
AnswerFrames == [kind : {"answer"}, of : Nat]
PushFrames == [kind : {"update"}, who : Accounts, state : Shown]
                \union [kind : {"rendezvous"}, who : Accounts]
Jobs == [does : {"notify", "tell", "relay"}, who : Accounts, state : Shown,
         to : SUBSET Accounts, answer : Nat \union {None}]
RelayStates == [directory : SUBSET Accounts, connections : [Accounts -> Links \union {None}],
                presence : [Accounts -> Shown], subscriptions : [Accounts -> SUBSET Accounts],
                evidence : [Accounts -> SUBSET Accounts]]
Buckets == [tokens : Nat, idle : 0 .. StaleAfter]
Budgets == [links : Nat, requests : Nat, periods : Nat, kinds : SUBSET Kinds]

Typed ==
    /\ link \in [Links -> LinkStates]
    /\ client \in [Links -> ClientStates]
    /\ request \in [Links -> RequestFrames \union {None}]
    /\ \A l \in Links : request[l] # None => <<request[l].kind, request[l].target>> \in Requests
    /\ out \in [Links -> Seq(AnswerFrames \union PushFrames)]
    /\ \A l \in Links : Len(out[l]) <= MaxFrames
    /\ job \in [Links -> Jobs \union {NoJob}]
    /\ relay \in RelayStates
    /\ active \in Nat /\ slots \in [Clients \union Proxies -> 0 .. MaxConcurrent]
    /\ bucket \in [Keys -> Buckets] /\ granted \in [Keys -> Nat]
    /\ clock \in Nat /\ budget \in Budgets
    /\ overtaken \subseteq Accounts /\ burst \in BOOLEAN

(* A slot and a place in the count belong to a connection of that address. *)
Live == Pending \union Counted
AddressInv == \A l \in Live : link[l].from \in Clients /\ link[l].key = link[l].from
CountInv ==
    /\ IsFiniteSet(Live)
    /\ \A c \in Clients : slots[c] = Cardinality(HoldsSlot(c))
    /\ active = Cardinality(Counted)
(* Without a burst, at most one upgrade is past the cap check.             *)
CapInv ==
    ~burst => \/ Pending = {} /\ active <= ConnectionCap
              \/ active < ConnectionCap /\ \E l \in Pending : Pending = {l}

(* What a bucket holds and has given; one that is swept fills while idle.  *)
BucketInv ==
    \A key \in Keys :
        /\ bucket[key].tokens <= Capacity[key[1]]
        /\ granted[key] + bucket[key].tokens <= Capacity[key[1]] + clock
        /\ key[1] \in Swept => \/ bucket[key].tokens = Capacity[key[1]]
                               \/ bucket[key].idle <= bucket[key].tokens

(* Only an open connection, or one that was, has an account.               *)
SignedInInv == \A l \in Links : link[l].as # None => link[l].phase \in {"open", "closing"}

(* One request at a time: it is on its way, or its handler is at work, or  *)
(* its answer is on its way back.                                          *)
AnswersIn(queue) == {i \in DOMAIN queue : ~IsPush(queue[i])}
Exchange(l) ==
    /\ ~client[l].waiting =>
         request[l] = None /\ job[l].answer = None /\ AnswersIn(out[l]) = {}
    /\ request[l] # None =>
         /\ request[l].n = client[l].sent /\ request[l].kind \notin Unanswered
         /\ job[l].answer = None /\ AnswersIn(out[l]) = {}
    /\ job[l].answer # None => job[l].answer = client[l].sent /\ AnswersIn(out[l]) = {}
    /\ \A i, j \in AnswersIn(out[l]) : i = j /\ out[l][i].of = client[l].sent
    /\ link[l].phase \in {"unused", "upgrading"} => ~client[l].waiting /\ client[l].sent = 0
ExchangeInv ==
    \A l \in Links : /\ client[l].left => client[l].lost
                     /\ client[l].plain /\ ~client[l].lost => Exchange(l)

ConnInv ==
    /\ Typed /\ AddressInv /\ CountInv /\ CapInv /\ BucketInv
    /\ SignedInInv /\ PresenceIsTrue /\ ExchangeInv

-----------------------------------------------------------------------------
(* The steps, by what they belong to.                                      *)
Admission(l) == Arrive(l) \/ UpgradeFails(l) \/ Open(l)
AtClient(l) ==
    (\E r \in Requests : Send(l, r[1], r[2])) \/ Receive(l) \/ TimesOut(l) \/ Leave(l)
Handling(l) ==
    \/ Authenticate(l) \/ Publish(l) \/ Fetch(l) \/ Announce(l) \/ Subscribe(l)
    \/ Rendezvous(l) \/ Oversized(l) \/ \E kind \in MailboxKinds : Mailbox(l, kind)
Ending(l) == Close(l) \/ Ended(l)

LEMMA StepKinds ==
    Next => \/ \E l \in Links : Admission(l) \/ AtClient(l) \/ Handling(l) \/ Finish(l) \/ Ending(l)
            \/ Sweep \/ Tick
BY DEF Next, Admission, AtClient, Handling, Ending

LEMMA Sizes ==
    /\ ConnectionCap \in Nat /\ MaxConcurrent \in Nat /\ MaxFrames \in Nat /\ StaleAfter \in Nat
    /\ ConnectionCap > 0 /\ MaxConcurrent > 0 /\ MaxFrames > 0
BY SizesAssumption

LEMMA KeyKinds ==
    ASSUME NEW key \in Keys
    PROVE  key[1] \in Limiters /\ Capacity[key[1]] \in Nat /\ Capacity[key[1]] > 0
BY CapacityAssumption DEF Keys, Limiters, MailboxKinds

LEMMA KeysMade ==
    /\ \A c \in Clients \union Proxies : <<"Address", c>> \in Keys
    /\ \A l \in Links, a \in Accounts : <<"FetchBundle", <<l, a>>>> \in Keys
    /\ \A kind \in MailboxKinds \union {"Rendezvous"}, a \in Accounts : <<kind, a>> \in Keys
BY DEF Keys

LEMMA Prepended ==
    ASSUME NEW S, NEW x \in S, NEW b \in Seq(S)
    PROVE  /\ <<x>> \o b \in Seq(S) /\ Len(<<x>> \o b) = 1 + Len(b)
           /\ (<<x>> \o b)[1] = x
           /\ \A i \in 1 .. Len(b) : (<<x>> \o b)[i + 1] = b[i]
<1>1. <<x>> \in Seq(S) /\ Len(<<x>>) = 1 /\ <<x>>[1] = x
  OBVIOUS
<1> DEFINE t == <<x>>
<1> HIDE DEF t
<1>2. t \in Seq(S) /\ Len(t) = 1 /\ t[1] = x /\ Len(b) \in Nat
  BY <1>1, LenProperties DEF t
<1>3. /\ t \o b \in Seq(S) /\ Len(t \o b) = Len(t) + Len(b)
      /\ \A i \in 1 .. (Len(t) + Len(b)) :
            (t \o b)[i] = IF i <= Len(t) THEN t[i] ELSE b[i - Len(t)]
  BY <1>2, ConcatProperties
<1>4. Len(t \o b) = 1 + Len(b) /\ (t \o b)[1] = x
  BY <1>2, <1>3
<1>5. ASSUME NEW i \in 1 .. Len(b) PROVE (t \o b)[i + 1] = b[i]
  <2>1. i + 1 \in 1 .. (Len(t) + Len(b)) /\ ~(i + 1 <= Len(t)) /\ (i + 1) - Len(t) = i
    BY <1>2
  <2> QED
    BY <1>3, <2>1
<1> QED
  BY <1>3, <1>4, <1>5 DEF t

(* The hop that follows a sequence of others.                              *)
LEMMA Followed ==
    ASSUME NEW S, NEW a \in Seq(S), NEW x \in S, NEW b \in Seq(S)
    PROVE  LET t == a \o (<<x>> \o b)
               n == Len(a) + 1
           IN  /\ DOMAIN t \subseteq Nat /\ n \in DOMAIN t /\ t[n] = x
               /\ \A i \in DOMAIN t : i > n => i - n \in 1 .. Len(b) /\ t[i] = b[i - n]
<1> DEFINE rest == <<x>> \o b
           t == a \o rest
           n == Len(a) + 1
<1>1. rest \in Seq(S) /\ Len(rest) = 1 + Len(b) /\ rest[1] = x
      /\ \A i \in 1 .. Len(b) : rest[i + 1] = b[i]
  BY Prepended
<1>2. Len(a) \in Nat /\ Len(b) \in Nat
  BY LenProperties
<1> HIDE DEF rest
<1>3. /\ t \in Seq(S) /\ Len(t) = Len(a) + Len(rest)
      /\ \A i \in 1 .. (Len(a) + Len(rest)) : t[i] = IF i <= Len(a) THEN a[i] ELSE rest[i - Len(a)]
  <2>1. rest \in Seq(S)
    BY <1>1
  <2> QED
    BY <2>1, ConcatProperties
<1>4. DOMAIN t = 1 .. (Len(a) + 1 + Len(b))
  BY <1>1, <1>2, <1>3, LenProperties
<1> HIDE DEF t
<1>5. n \in DOMAIN t /\ t[n] = x
  <2>1. n \in 1 .. (Len(a) + Len(rest)) /\ ~(n <= Len(a)) /\ n - Len(a) = 1
    BY <1>1, <1>2
  <2> QED
    BY <1>1, <1>2, <1>3, <1>4, <2>1
<1>6. ASSUME NEW i \in DOMAIN t, i > n PROVE i - n \in 1 .. Len(b) /\ t[i] = b[i - n]
  <2>1. i - n \in 1 .. Len(b) /\ i \in 1 .. (Len(a) + Len(rest)) /\ ~(i <= Len(a))
        /\ i - Len(a) = (i - n) + 1
    BY <1>1, <1>2, <1>4, <1>6
  <2>2. t[i] = rest[i - Len(a)]
    BY <1>3, <2>1
  <2> QED
    BY <1>1, <2>1, <2>2
<1>7. DOMAIN t \subseteq Nat
  BY <1>2, <1>4
<1> QED
  BY <1>5, <1>6, <1>7 DEF t, rest

(* The address a connection is counted under is the client's own, whatever *)
(* it wrote into the header and whatever proxies it came through.          *)
LEMMA AddressIsReal ==
    ASSUME NEW from \in Clients, NEW forged \in Forged, NEW proxies \in Routes
    PROVE  LET seen == Seen(from, forged, proxies)
           IN ClientAddress(seen.peer, seen.hops) = from
<1> DEFINE all == Clients \union Proxies \union {Garbled}
           seen == Seen(from, forged, proxies)
<1>0. from \notin Proxies /\ from # Garbled /\ from \in all /\ Proxies \subseteq all
  BY NamesAssumption
<1>a. forged \in Seq(all)
  <2>1. CASE forged = <<>>
    BY <2>1
  <2>2. CASE forged # <<>>
    <3>1. PICK hop \in all : forged = <<hop>>
      BY <2>2 DEF Forged
    <3> QED
      BY <3>1
  <2> QED
    BY <2>1, <2>2
<1>1. CASE proxies = <<>>
  <2>1. <<from>> \o proxies = <<from>>
    BY <1>1, <1>0
  <2>2. seen.peer = from
    BY <2>1 DEF Seen
  <2> QED
    BY <1>0, <2>2 DEF ClientAddress
<1>2. ASSUME NEW back \in Seq(Proxies), seen.hops = forged \o (<<from>> \o back), seen.peer \in Proxies
      PROVE  ClientAddress(seen.peer, seen.hops) = from
  <2> DEFINE hops == seen.hops
             strangers == {i \in DOMAIN hops : hops[i] \notin Proxies}
             last == CHOOSE i \in strangers : \A j \in strangers : j <= i
             n == Len(forged) + 1
  <2>a. back \in Seq(all)
    <3> HIDE DEF all
    <3> QED BY <1>0, SeqMonotonic
  <2>0. /\ DOMAIN hops \subseteq Nat /\ n \in DOMAIN hops /\ hops[n] = from
        /\ \A i \in DOMAIN hops : i > n => hops[i] \in Proxies
    <3> HIDE DEF all, seen
    <3>1. LET t == forged \o (<<from>> \o back)
          IN  /\ DOMAIN t \subseteq Nat /\ n \in DOMAIN t /\ t[n] = from
              /\ \A i \in DOMAIN t : i > n => i - n \in 1 .. Len(back) /\ t[i] = back[i - n]
      BY <1>0, <1>a, <2>a, Followed
    <3>2. \A i \in 1 .. Len(back) : back[i] \in Proxies
      BY ElementOfSeq
    <3> QED
      BY <1>2, <3>1, <3>2
  <2> HIDE DEF hops, seen
  <2>1. n \in strangers /\ \A j \in strangers : j <= n
    BY <1>0, <2>0
  <2>2. last \in strangers /\ \A j \in strangers : j <= last
    <3> HIDE DEF strangers
    <3> QED BY <2>1
  <2>3. last = n
    <3>1. last \in Nat /\ n \in Nat
      BY <2>0, <2>2
    <3> HIDE DEF last, n, strangers
    <3> QED BY <2>1, <2>2, <3>1
  <2>4. hops[last] = from
    BY <2>0, <2>3
  <2>5. strangers # {}
    BY <2>1
  <2>6. ClientAddress(seen.peer, hops) =
          IF seen.peer \notin Proxies \/ strangers = {} \/ hops[last] = Garbled
          THEN seen.peer ELSE hops[last]
    BY DEF ClientAddress
  <2>7. seen.peer \in Proxies
    BY <1>2
  <2>8. ClientAddress(seen.peer, hops) = from
    <3> HIDE DEF strangers, last
    <3> QED BY <1>0, <2>4, <2>5, <2>6, <2>7
  <2> QED
    BY <2>8 DEF hops
<1>3. ASSUME NEW p \in Proxies, proxies = <<p>> PROVE ClientAddress(seen.peer, seen.hops) = from
  <2> DEFINE hops == <<from>> \o <<p>>
  <2>1. <<p>> \in Seq(all) /\ Len(<<p>>) = 1 /\ <<p>>[1] = p
    BY <1>0
  <2>2. hops[1] = from /\ hops[2] = p /\ Len(hops) = 2
    <3> DEFINE b == <<p>>
    <3> HIDE DEF b, all
    <3>1. b \in Seq(all) /\ Len(b) = 1 /\ b[1] = p
      BY <2>1 DEF b
    <3>2. /\ Len(<<from>> \o b) = 1 + Len(b) /\ (<<from>> \o b)[1] = from
          /\ \A i \in 1 .. Len(b) : (<<from>> \o b)[i + 1] = b[i]
      BY <1>0, <3>1, Prepended
    <3>3. (<<from>> \o b)[1 + 1] = b[1]
      BY <3>1, <3>2
    <3> QED BY <3>1, <3>2, <3>3 DEF b
  <2> HIDE DEF hops
  <2>3. SubSeq(hops, 1, 1) \in Seq(all) /\ Len(SubSeq(hops, 1, 1)) = 1 /\ SubSeq(hops, 1, 1)[1] = from
    BY <1>0, <2>2, SubSeqProperties
  <2>4. SubSeq(hops, 1, 1) = <<from>> \o <<>>
    <3>1. <<from>> \in Seq(all) /\ Len(<<from>>) = 1 /\ <<from>>[1] = from
      BY <1>0
    <3>2. SubSeq(hops, 1, 1) = <<from>>
      <4> DEFINE u == <<from>>
                 v == SubSeq(hops, 1, 1)
      <4> HIDE DEF u, v, all
      <4>1. u \in Seq(all) /\ Len(u) = 1 /\ v \in Seq(all) /\ Len(v) = 1
            /\ \A i \in 1 .. Len(v) : v[i] = u[i]
        BY <2>3, <3>1 DEF u, v
      <4>2. v = u
        BY <4>1, SeqEqual
      <4> QED
        BY <4>2 DEF u, v
    <3> QED
      BY <3>1, <3>2, ConcatEmptySeq
  <2>5. seen = [peer |-> hops[Len(hops)], hops |-> forged \o SubSeq(hops, 1, Len(hops) - 1)]
    BY <1>3 DEF Seen, hops
  <2>6. seen.peer = p /\ seen.hops = forged \o (<<from>> \o <<>>) /\ <<>> \in Seq(Proxies)
    <3> HIDE DEF seen
    <3> QED BY <2>2, <2>4, <2>5
  <2> HIDE DEF seen
  <2> QED
    BY <1>2, <2>6
<1>4. ASSUME NEW p \in Proxies, NEW q \in Proxies, proxies = <<p, q>>
      PROVE  ClientAddress(seen.peer, seen.hops) = from
  <2> DEFINE hops == <<from>> \o <<p, q>>
  <2>1. <<p, q>> \in Seq(all) /\ Len(<<p, q>>) = 2 /\ <<p, q>>[1] = p /\ <<p, q>>[2] = q
    BY <1>0
  <2>2. hops[1] = from /\ hops[2] = p /\ hops[3] = q /\ Len(hops) = 3
    <3> DEFINE b == <<p, q>>
    <3> HIDE DEF b, all
    <3>1. b \in Seq(all) /\ Len(b) = 2 /\ b[1] = p /\ b[2] = q
      BY <2>1 DEF b
    <3>2. /\ Len(<<from>> \o b) = 1 + Len(b) /\ (<<from>> \o b)[1] = from
          /\ \A i \in 1 .. Len(b) : (<<from>> \o b)[i + 1] = b[i]
      <4>1. b \in Seq(all) /\ from \in all
        BY <1>0, <3>1
      <4> QED
        BY <4>1, Prepended
    <3>3. (<<from>> \o b)[1 + 1] = b[1] /\ (<<from>> \o b)[2 + 1] = b[2]
      BY <3>1, <3>2
    <3> QED BY <3>1, <3>2, <3>3 DEF b
  <2> HIDE DEF hops
  <2>3. /\ SubSeq(hops, 1, 2) \in Seq(all) /\ Len(SubSeq(hops, 1, 2)) = 2
        /\ SubSeq(hops, 1, 2)[1] = from /\ SubSeq(hops, 1, 2)[2] = p
    BY <1>0, <2>2, SubSeqProperties
  <2>4. SubSeq(hops, 1, 2) = <<from>> \o <<p>>
    <3>1. <<p>> \in Seq(all) /\ Len(<<p>>) = 1 /\ <<p>>[1] = p
      BY <1>0
    <3> DEFINE b == <<p>>
               u == <<from>> \o b
               v == SubSeq(hops, 1, 2)
    <3> HIDE DEF b, all, v
    <3>2. b \in Seq(all) /\ Len(b) = 1 /\ b[1] = p
      BY <3>1 DEF b
    <3>3. u \in Seq(all) /\ Len(u) = 1 + Len(b) /\ u[1] = from /\ \A i \in 1 .. Len(b) : u[i + 1] = b[i]
      BY <1>0, <3>2, Prepended
    <3>4. u[1 + 1] = b[1]
      BY <3>2, <3>3
    <3> HIDE DEF u
    <3>5. u \in Seq(all) /\ Len(u) = 2 /\ u[1] = from /\ u[2] = p
      BY <3>2, <3>3, <3>4
    <3>6. v \in Seq(all) /\ Len(v) = 2 /\ v[1] = from /\ v[2] = p
      BY <2>3 DEF v
    <3>7. \A i \in 1 .. Len(v) : v[i] = u[i]
      BY <3>5, <3>6
    <3>8. v = u
      BY <3>5, <3>6, <3>7, SeqEqual
    <3> QED
      BY <3>8 DEF u, v, b
  <2>5. seen = [peer |-> hops[Len(hops)], hops |-> forged \o SubSeq(hops, 1, Len(hops) - 1)]
    BY <1>4 DEF Seen, hops
  <2>6. seen.peer = q /\ seen.hops = forged \o (<<from>> \o <<p>>) /\ <<p>> \in Seq(Proxies)
    <3> HIDE DEF seen
    <3> QED BY <2>2, <2>4, <2>5
  <2> HIDE DEF seen
  <2> QED
    BY <1>2, <2>6
<1> QED
  BY <1>1, <1>3, <1>4 DEF Routes

-----------------------------------------------------------------------------
(* The queues: what a push makes of one, and that they stay queues.        *)
Frames == AnswerFrames \union PushFrames
Queues(q) == q \in [Links -> Seq(Frames)] /\ \A l \in Links : Len(q[l]) <= MaxFrames

LEMMA OutIsQueues == Typed => Queues(out)
BY DEF Typed, Queues, Frames

LEMMA Appended ==
    ASSUME NEW s \in Seq(Frames), NEW f \in Frames
    PROVE  /\ Append(s, f) \in Seq(Frames) /\ Len(Append(s, f)) = Len(s) + 1
           /\ Len(s) \in Nat
BY AppendProperties, LenProperties

LEMMA PushedQueues ==
    ASSUME NEW q, Queues(q), NEW l \in Links, NEW frame \in Frames
    PROVE  /\ Queues(Pushed(q, l, frame))
           /\ \A k \in Links : Pushed(q, l, frame)[k] \in {q[k], Append(q[k], frame)}
           /\ \A k \in Links \ {l} : Pushed(q, l, frame)[k] = q[k]
<1>1. CASE ~Reaches(q, l)
  BY <1>1 DEF Pushed
<1>2. CASE Reaches(q, l)
  <2>1. Pushed(q, l, frame) = [q EXCEPT ![l] = Append(q[l], frame)]
    BY <1>2 DEF Pushed
  <2>2. Append(q[l], frame) \in Seq(Frames) /\ Len(Append(q[l], frame)) = Len(q[l]) + 1
        /\ Len(q[l]) \in Nat
    BY Appended DEF Queues
  <2>3. Len(q[l]) < MaxFrames
    BY <1>2 DEF Reaches
  <2>4. Len(q[l]) + 1 <= MaxFrames
    BY <2>2, <2>3, Sizes
  <2> QED
    BY <2>1, <2>2, <2>4 DEF Queues
<1> QED
  BY <1>1, <1>2

LEMMA DeliveredQueues ==
    ASSUME NEW q, Queues(q), NEW to, NEW frame \in Frames
    PROVE  /\ Queues(Delivered(q, to, frame))
           /\ \A k \in Links : Delivered(q, to, frame)[k] \in {q[k], Append(q[k], frame)}
<1> DEFINE d == Delivered(q, to, frame)
<1>1. ASSUME NEW k \in Links
      PROVE  /\ d[k] \in {q[k], Append(q[k], frame)} /\ d[k] \in Seq(Frames)
             /\ Len(d[k]) <= MaxFrames
  <2>1. d[k] = IF k \in {relay.connections[a] : a \in to} /\ Reaches(q, k)
               THEN Append(q[k], frame) ELSE q[k]
    BY DEF Delivered
  <2>2. Append(q[k], frame) \in Seq(Frames) /\ Len(Append(q[k], frame)) = Len(q[k]) + 1
        /\ Len(q[k]) \in Nat
    BY Appended DEF Queues
  <2>3. Reaches(q, k) => Len(q[k]) + 1 <= MaxFrames
    BY <2>2, Sizes DEF Reaches
  <2> HIDE DEF d
  <2> QED
    BY <2>1, <2>2, <2>3 DEF Queues
<1>2. d = [k \in Links |-> d[k]]
  BY DEF Delivered
<1> HIDE DEF d
<1> QED
  BY <1>1, <1>2 DEF Queues, d

LEMMA FrameKinds ==
    /\ \A n \in Nat : Answer(n) \in Frames /\ ~IsPush(Answer(n))
    /\ \A a \in Accounts, state \in Shown : Update(a, state) \in Frames /\ IsPush(Update(a, state))
    /\ \A a \in Accounts : Offer(a) \in Frames /\ IsPush(Offer(a))
BY DEF Answer, Update, Offer, IsPush, Frames, AnswerFrames, PushFrames

-----------------------------------------------------------------------------
(* A bucket is charged.                                                    *)
LEMMA Charges ==
    ASSUME Typed, BucketInv, NEW key \in Keys, Charge(key)
    PROVE  bucket' \in [Keys -> Buckets] /\ granted' \in [Keys -> Nat] /\ (clock' = clock => BucketInv')
<1> DEFINE t == bucket[key].tokens
           charged == Charged(key)
<1>1. t \in Nat /\ granted[key] \in Nat /\ clock \in Nat
      /\ Capacity[key[1]] \in Nat
  BY KeyKinds DEF Typed, Buckets
<1>2. /\ charged.tokens \in Nat /\ charged.idle = 0
      /\ charged.tokens = IF t > 0 THEN t - 1 ELSE 0
      /\ charged = [tokens |-> charged.tokens, idle |-> 0]
  BY <1>1 DEF Charged, Allows
<1>3. /\ bucket' = [bucket EXCEPT ![key] = charged]
      /\ granted' = [granted EXCEPT ![key] = IF t > 0 THEN granted[key] + 1 ELSE granted[key]]
  BY DEF Charge, Allows
<1> HIDE DEF charged
<1>4. bucket' \in [Keys -> Buckets]
  BY <1>2, <1>3, Sizes DEF Typed, Buckets
<1>5. granted' \in [Keys -> Nat]
  BY <1>1, <1>3 DEF Typed
<1>6. ASSUME clock' = clock, NEW k \in Keys
      PROVE  /\ bucket'[k].tokens <= Capacity[k[1]]
             /\ granted'[k] + bucket'[k].tokens <= Capacity[k[1]] + clock'
             /\ k[1] \in Swept => \/ bucket'[k].tokens = Capacity[k[1]]
                                  \/ bucket'[k].idle <= bucket'[k].tokens
  <2>1. CASE k # key
    <3>1. bucket'[k] = bucket[k] /\ granted'[k] = granted[k]
      BY <1>3, <2>1 DEF Typed
    <3> QED
      BY <1>6, <3>1 DEF BucketInv
  <2>2. CASE k = key
    <3>1. bucket'[key] = charged /\ granted'[key] = IF t > 0 THEN granted[key] + 1 ELSE granted[key]
      BY <1>3 DEF Typed
    <3>2. t <= Capacity[key[1]] /\ granted[key] + t <= Capacity[key[1]] + clock
      BY DEF BucketInv
    <3> HIDE DEF t
    <3> QED
      BY <1>1, <1>2, <1>6, <2>2, <3>1, <3>2
  <2> QED
    BY <2>1, <2>2
<1> QED
  BY <1>4, <1>5, <1>6 DEF BucketInv

(* A refill period passes.                                                 *)
LEMMA Refills ==
    ASSUME Typed, BucketInv, Tick
    PROVE  bucket' \in [Keys -> Buckets] /\ BucketInv'
<1>1. ASSUME NEW key \in Keys
      PROVE  /\ Refilled(key) \in Buckets
             /\ Refilled(key).tokens <= Capacity[key[1]]
             /\ granted[key] + Refilled(key).tokens <= Capacity[key[1]] + (clock + 1)
             /\ key[1] \in Swept => \/ Refilled(key).tokens = Capacity[key[1]]
                                    \/ Refilled(key).idle <= Refilled(key).tokens
  <2> DEFINE t == bucket[key].tokens
             i == bucket[key].idle
             c == Capacity[key[1]]
             swept == key[1] \in Swept
             r == Refilled(key)
  <2>1. t \in Nat /\ i \in 0 .. StaleAfter /\ granted[key] \in Nat /\ clock \in Nat
        /\ c \in Nat /\ StaleAfter \in Nat
    BY KeyKinds, Sizes DEF Typed, Buckets
  <2>2. t <= c /\ granted[key] + t <= c + clock /\ (swept => t = c \/ i <= t)
    BY DEF BucketInv
  <2>3. /\ r = [tokens |-> r.tokens, idle |-> r.idle]
        /\ r.tokens = IF t < c THEN t + 1 ELSE t
        /\ r.idle = IF swept /\ i < StaleAfter THEN i + 1 ELSE i
    BY DEF Refilled
  <2> HIDE DEF t, i, c, swept, r
  <2>4. r.tokens \in Nat /\ r.idle \in 0 .. StaleAfter
    BY <2>1, <2>3
  <2>5. r.tokens <= c /\ granted[key] + r.tokens <= c + (clock + 1)
    BY <2>1, <2>2, <2>3
  <2>6. swept => r.tokens = c \/ r.idle <= r.tokens
    BY <2>1, <2>2, <2>3
  <2> QED
    BY <2>3, <2>4, <2>5, <2>6 DEF Buckets, r, c, swept
<1>2. clock' = clock + 1 /\ granted' = granted /\ bucket' = [key \in Keys |-> Refilled(key)]
  BY DEF Tick
<1>3. \A key \in Keys : bucket'[key] = Refilled(key)
  BY <1>2
<1> QED
  BY <1>1, <1>2, <1>3 DEF BucketInv

(* The sweep forgets only buckets that are full.                           *)
LEMMA SweptIsFull ==
    ASSUME Typed, BucketInv, NEW key \in Keys, Stale(key)
    PROVE  bucket[key].tokens = Capacity[key[1]]
<1>1. key[1] \in Swept /\ bucket[key].idle >= StaleAfter
  BY DEF Stale
<1>2. Capacity[key[1]] <= StaleAfter
  BY <1>1, CapacityAssumption DEF Swept
<1>3. bucket[key].tokens \in Nat /\ bucket[key].idle \in Nat /\ Capacity[key[1]] \in Nat
      /\ StaleAfter \in Nat
  BY KeyKinds, Sizes DEF Typed, Buckets
<1> QED
  BY <1>1, <1>2, <1>3 DEF BucketInv

-----------------------------------------------------------------------------
(* An arrival is counted under its own address.                            *)
LEMMA Arrives ==
    ASSUME NEW l \in Links, Arrive(l)
    PROVE  \E from \in Clients :
             /\ \/ /\ Room(from)
                   /\ link' = [link EXCEPT ![l] = [phase |-> "upgrading", from |-> from,
                                                   key |-> from, as |-> None]]
                   /\ slots' = [slots EXCEPT ![from] = slots[from] + 1]
                   /\ burst' = (burst \/ Pending # {})
                \/ link' = [link EXCEPT ![l] = Over] /\ UNCHANGED <<slots, burst>>
             /\ \/ Charge(<<"Address", from>>)
                \/ bucket' = [bucket EXCEPT ![<<"Address", from>>].idle = 0] /\ UNCHANGED granted
<1>1. PICK from \in Clients, forged \in Forged, proxies \in Routes :
         LET seen == Seen(from, forged, proxies)
             address == ClientAddress(seen.peer, seen.hops)
             key == <<"Address", address>>
             room == Room(address)
         IN /\ IF room /\ Allows(key)
               THEN /\ link' = [link EXCEPT ![l] = [phase |-> "upgrading", from |-> from,
                                                    key |-> address, as |-> None]]
                    /\ slots' = [slots EXCEPT ![address] = slots[address] + 1]
                    /\ burst' = (burst \/ Pending # {})
               ELSE /\ link' = [link EXCEPT ![l] = Over]
                    /\ UNCHANGED <<slots, burst>>
            /\ IF room
               THEN Charge(key)
               ELSE /\ bucket' = [bucket EXCEPT ![key].idle = 0]
                    /\ UNCHANGED granted
  BY DEF Arrive
<1> DEFINE address == ClientAddress(Seen(from, forged, proxies).peer, Seen(from, forged, proxies).hops)
<1>2. address = from
  BY AddressIsReal
<1> HIDE DEF address
<1>3. /\ \/ /\ Room(address)
            /\ link' = [link EXCEPT ![l] = [phase |-> "upgrading", from |-> from,
                                            key |-> address, as |-> None]]
            /\ slots' = [slots EXCEPT ![address] = slots[address] + 1]
            /\ burst' = (burst \/ Pending # {})
         \/ link' = [link EXCEPT ![l] = Over] /\ UNCHANGED <<slots, burst>>
      /\ \/ Charge(<<"Address", address>>)
         \/ bucket' = [bucket EXCEPT ![<<"Address", address>>].idle = 0] /\ UNCHANGED granted
  BY <1>1 DEF address
<1> QED
  BY <1>2, <1>3

-----------------------------------------------------------------------------
(* The limits, over every step.                                            *)
LEMMA LimitSteps ==
    ASSUME Typed, BucketInv, Next
    PROVE  bucket' \in [Keys -> Buckets] /\ granted' \in [Keys -> Nat] /\ BucketInv'
<1> DEFINE Goal == bucket' \in [Keys -> Buckets] /\ granted' \in [Keys -> Nat] /\ BucketInv'
<1>1. ASSUME UNCHANGED <<limitVars, clock>> PROVE Goal
  BY <1>1 DEF limitVars, BucketInv, Typed
<1>2. ASSUME NEW key \in Keys, Charge(key), clock' = clock PROVE Goal
  BY <1>2, Charges
<1>3. ASSUME NEW l \in Links, Arrive(l) PROVE Goal
  <2>0. clock' = clock
    BY <1>3 DEF Arrive
  <2>1. PICK key \in Keys :
            \/ Charge(key)
            \/ bucket' = [bucket EXCEPT ![key].idle = 0] /\ UNCHANGED granted
    BY <1>3, Arrives, KeysMade
  <2>2. CASE bucket' = [bucket EXCEPT ![key].idle = 0] /\ UNCHANGED granted
    <3>1. \A k \in Keys : bucket'[k].tokens = bucket[k].tokens
                          /\ (bucket'[k].idle = bucket[k].idle \/ bucket'[k].idle = 0)
      BY <2>2 DEF Typed, Buckets
    <3>2. bucket' \in [Keys -> Buckets]
      <4>1. bucket \in [Keys -> Buckets] /\ bucket[key] \in Buckets /\ 0 \in 0 .. StaleAfter
        BY Sizes DEF Typed
      <4>2. [bucket[key] EXCEPT !.idle = 0] \in Buckets
        BY <4>1 DEF Buckets
      <4>3. bucket' = [bucket EXCEPT ![key] = [bucket[key] EXCEPT !.idle = 0]]
        BY <2>2
      <4> QED
        BY <4>1, <4>2, <4>3
    <3>3. \A k \in Keys : bucket[k].tokens \in Nat
      BY DEF Typed, Buckets
    <3> QED
      BY <2>0, <2>2, <3>1, <3>2, <3>3 DEF BucketInv, Typed
  <2> QED
    BY <1>2, <2>0, <2>1, <2>2
<1>4. ASSUME NEW l \in Links, Fetch(l) \/ Rendezvous(l) \/ \E kind \in MailboxKinds : Mailbox(l, kind)
      PROVE  Goal
  <2>0. clock' = clock /\ relay.directory \subseteq Accounts /\ Me(l) \in Accounts \union {None}
    BY <1>4 DEF Fetch, Rendezvous, Mailbox, unserved, Typed, RelayStates, LinkStates, Me
  <2>1. CASE UNCHANGED limitVars
    BY <1>1, <2>0, <2>1
  <2>2. CASE Fetch(l)
    BY <1>2, <2>0, <2>1, <2>2, KeysMade DEF Fetch
  <2>3. CASE Rendezvous(l)
    BY <1>2, <2>0, <2>1, <2>3, KeysMade DEF Rendezvous, HasEvidence
  <2>4. ASSUME NEW kind \in MailboxKinds, Mailbox(l, kind) PROVE Goal
    BY <1>2, <2>0, <2>1, <2>4, KeysMade DEF Mailbox
  <2> QED
    BY <1>4, <2>2, <2>3, <2>4
<1>5. CASE Tick
  <2>1. granted' = granted
    BY <1>5 DEF Tick
  <2> QED
    BY <1>5, <2>1, Refills DEF Typed
<1>6. CASE Sweep
  <2>1. granted' = granted /\ clock' = clock
        /\ bucket' = [key \in Keys |-> IF Forgotten(key) THEN Full(key) ELSE bucket[key]]
    BY <1>6 DEF Sweep
  <2>2. ASSUME NEW key \in Keys
        PROVE  bucket'[key] \in Buckets /\ bucket'[key].tokens = bucket[key].tokens
               /\ (bucket'[key].idle = bucket[key].idle \/ bucket'[key].tokens = Capacity[key[1]])
    <3>1. CASE Forgotten(key)
      <4>1. bucket'[key] = Full(key) /\ bucket[key].tokens = Capacity[key[1]]
        BY <2>1, <3>1, SweptIsFull DEF Forgotten
      <4> QED
        BY <4>1, KeyKinds, Sizes DEF Full, Buckets
    <3>2. CASE ~Forgotten(key)
      BY <2>1, <3>2 DEF Typed
    <3> QED
      BY <3>1, <3>2
  <2>3. bucket' \in [Keys -> Buckets]
    BY <2>1, <2>2
  <2> QED
    BY <2>1, <2>2, <2>3 DEF BucketInv, Typed
<1>7. ASSUME NEW l \in Links, UpgradeFails(l) \/ Open(l) \/ AtClient(l) \/ Finish(l) \/ Ending(l)
      PROVE  Goal
  <2>1. UNCHANGED <<limitVars, clock>>
    BY <1>7 DEF UpgradeFails, Open, AtClient, Send, Receive, TimesOut, Leave, Finish, Ending, Close,
                Ended
  <2> QED
    BY <1>1, <2>1
<1>8. ASSUME NEW l \in Links,
             Authenticate(l) \/ Publish(l) \/ Announce(l) \/ Subscribe(l) \/ Oversized(l)
      PROVE  Goal
  <2>1. UNCHANGED <<limitVars, clock>>
    BY <1>8 DEF Authenticate, Publish, Announce, Subscribe, Oversized, unserved
  <2> QED
    BY <1>1, <2>1
<1> QED
  BY <1>3, <1>4, <1>5, <1>6, <1>7, <1>8, StepKinds DEF Admission, Handling

-----------------------------------------------------------------------------
(* The types, part by part.                                                *)
LEMMA TypedLinks ==
    ASSUME Typed, Next
    PROVE  link' \in [Links -> LinkStates] /\ client' \in [Links -> ClientStates]
<1> DEFINE Goal == link' \in [Links -> LinkStates] /\ client' \in [Links -> ClientStates]
<1>0. link \in [Links -> LinkStates] /\ client \in [Links -> ClientStates]
  BY DEF Typed
<1>o. Over \in LinkStates
  BY DEF Over, LinkStates
<1>1. ASSUME NEW l \in Links, Arrive(l) PROVE Goal
  <2>1. \E from \in Clients :
          \/ link' = [link EXCEPT ![l] = [phase |-> "upgrading", from |-> from, key |-> from, as |-> None]]
          \/ link' = [link EXCEPT ![l] = Over]
    BY <1>1, Arrives
  <2>2. \A from \in Clients :
          [phase |-> "upgrading", from |-> from, key |-> from, as |-> None] \in LinkStates
    BY DEF LinkStates
  <2>3. client' = client
    BY <1>1 DEF Arrive
  <2> QED
    BY <1>0, <1>o, <2>1, <2>2, <2>3
<1>2. ASSUME NEW l \in Links, UpgradeFails(l) \/ Ended(l) PROVE Goal
  BY <1>0, <1>o, <1>2 DEF UpgradeFails, Ended
<1>3. ASSUME NEW l \in Links, Open(l) PROVE Goal
  <2>1. client' = [client EXCEPT ![l] = [client[l] EXCEPT !.waiting = TRUE]]
        /\ link' = [link EXCEPT ![l] = [link[l] EXCEPT !.phase = "open"]]
    BY <1>3 DEF Open, Challenged
  <2>2. [client[l] EXCEPT !.waiting = TRUE] \in ClientStates
    BY <1>0 DEF ClientStates
  <2>3. [link[l] EXCEPT !.phase = "open"] \in LinkStates
    BY <1>0 DEF LinkStates
  <2> QED
    BY <1>0, <2>1, <2>2, <2>3
<1>4. ASSUME NEW l \in Links, AtClient(l) PROVE Goal
  <2>1. link' = link
    BY <1>4 DEF AtClient, Send, Receive, TimesOut, Leave
  <2>2. \E state \in ClientStates : client' = [client EXCEPT ![l] = state]
    <3>1. ASSUME NEW r \in Requests, Send(l, r[1], r[2])
          PROVE  \E state \in ClientStates : client' = [client EXCEPT ![l] = state]
      <4> DEFINE answered == r[1] \notin Unanswered
                 plain == client[l].plain /\ answered
                 state == [client[l] EXCEPT !.sent = client[l].sent + 1,
                                            !.waiting = answered, !.plain = plain]
      <4>1. client' = [client EXCEPT ![l] = state]
        BY <1>0, <3>1 DEF Send
      <4>2. state \in ClientStates
        <5>1. answered \in BOOLEAN /\ plain \in BOOLEAN /\ client[l] \in ClientStates
          BY <1>0 DEF ClientStates
        <5> DEFINE n == client[l].sent + 1
        <5>2. n \in Nat
          BY <5>1 DEF ClientStates
        <5> HIDE DEF answered, plain, n
        <5>3. \A w \in BOOLEAN, p \in BOOLEAN :
                [client[l] EXCEPT !.sent = n, !.waiting = w, !.plain = p] \in ClientStates
          BY <5>1, <5>2 DEF ClientStates
        <5> QED
          BY <5>1, <5>3 DEF n
      <4> QED
        BY <4>1, <4>2
    <3>2. CASE Receive(l)
      <4> DEFINE state == [client[l] EXCEPT !.waiting = IsPush(Head(out[l]))]
      <4>1. client' = [client EXCEPT ![l] = state]
        BY <1>0, <3>2 DEF Receive
      <4>2. state \in ClientStates
        BY <1>0 DEF ClientStates, IsPush
      <4> QED
        BY <4>1, <4>2
    <3>3. CASE TimesOut(l)
      BY <1>0, <3>3 DEF TimesOut, GaveUp, ClientStates
    <3>4. CASE Leave(l)
      <4>1. [waiting |-> FALSE, lost |-> TRUE, left |-> TRUE, plain |-> TRUE, sent |-> 0] \in ClientStates
        BY DEF ClientStates
      <4> QED
        BY <3>4, <4>1 DEF Leave
    <3> QED
      BY <1>4, <3>1, <3>2, <3>3, <3>4 DEF AtClient
  <2> QED
    BY <1>0, <2>1, <2>2
<1>5. ASSUME NEW l \in Links, Authenticate(l) PROVE Goal
  <2>1. client' = client /\ (link' = link \/ link' = [link EXCEPT ![l].as = Target(l)])
        /\ request[l] # None /\ request[l].kind = "AuthResponse"
    BY <1>5 DEF Authenticate, unserved, Handles
  <2>2. <<"AuthResponse", Target(l)>> \in Requests
    BY <2>1 DEF Typed, Target
  <2>3. Target(l) \in Accounts
    BY <2>2 DEF Requests, MailboxKinds
  <2> QED
    BY <1>0, <2>1, <2>3 DEF LinkStates
<1>6. ASSUME NEW l \in Links, Close(l) PROVE Goal
  BY <1>0, <1>6 DEF Close, LinkStates
<1>7. CASE UNCHANGED <<link, client>>
  BY <1>0, <1>7
<1>8. ASSUME NEW l \in Links, Handling(l) PROVE Goal
  <2>1. Authenticate(l) \/ UNCHANGED <<link, client>>
    BY <1>8 DEF Handling, Publish, Fetch, Announce, Subscribe, Rendezvous, Oversized, Mailbox, unserved
  <2> QED
    BY <1>5, <1>7, <2>1
<1>9. ASSUME Sweep \/ Tick \/ \E l \in Links : Finish(l) PROVE Goal
  <2>1. UNCHANGED <<link, client>>
    BY <1>9 DEF Sweep, Tick, Finish
  <2> QED
    BY <1>7, <2>1
<1> QED
  BY <1>1, <1>2, <1>3, <1>4, <1>6, <1>8, <1>9, StepKinds DEF Admission, Ending

(* What a request names.                                                   *)
LEMMA Targets ==
    ASSUME Typed, NEW l \in Links, NEW kind, Handles(l, kind)
    PROVE  /\ kind \in Kinds /\ request[l] \in RequestFrames
           /\ kind \in {"AuthResponse", "PublishBundle", "FetchBundle", "PresenceSubscribe",
                        "Rendezvous"} => Target(l) \in Accounts
           /\ kind = "PresenceAnnounce" => Target(l) \in {"Online", "Away"}
           /\ kind \notin Unanswered => kind # "PresenceAnnounce" /\ kind # "PresenceSubscribe"
<1>1. request[l] # None /\ request[l].kind = kind /\ request[l] \in RequestFrames
  BY DEF Handles, Typed
<1>2. <<kind, Target(l)>> \in Requests
  BY <1>1 DEF Typed, Target
<1>3. request[l].kind \in Kinds
  BY <1>1 DEF RequestFrames
<1> QED
  BY <1>1, <1>2, <1>3 DEF Requests, MailboxKinds, Unanswered

LEMMA TypedRelay ==
    ASSUME Typed, Next
    PROVE  relay' \in RelayStates /\ overtaken' \subseteq Accounts
<1> DEFINE Goal == relay' \in RelayStates /\ overtaken' \subseteq Accounts
<1>0. relay \in RelayStates /\ overtaken \subseteq Accounts /\ {"Online", "Away", "Offline"} \subseteq Shown
  BY DEF Typed, Shown
<1>1. ASSUME NEW l \in Links, Authenticate(l) PROVE Goal
  <2>1. Target(l) \in Accounts
    BY <1>1, Targets DEF Authenticate
  <2>2. SignedIn(Target(l), l) \in RelayStates
    BY <1>0, <2>1 DEF SignedIn, RelayStates
  <2>3. (relay' = relay /\ overtaken' = overtaken)
        \/ (relay' = SignedIn(Target(l), l) /\ overtaken' = overtaken \ {Target(l)})
    BY <1>1 DEF Authenticate, relayVars
  <2> QED
    BY <1>0, <2>2, <2>3
<1>2. ASSUME NEW l \in Links, Publish(l) PROVE Goal
  <2>1. Target(l) \in Accounts
    BY <1>2, Targets DEF Publish
  <2> QED
    BY <1>0, <1>2, <2>1 DEF Publish, RelayStates
<1>3. ASSUME NEW l \in Links, Fetch(l) PROVE Goal
  <2>1. Target(l) \in Accounts /\ Me(l) \in Accounts \union {None} /\ overtaken' = overtaken
    BY <1>3, Targets DEF Fetch, Me, Typed, LinkStates
  <2>2. CASE relay' = relay
    BY <1>0, <2>1, <2>2
  <2>3. CASE Me(l) # None /\ relay' = [relay EXCEPT !.evidence[Me(l)] = relay.evidence[Me(l)] \union {Target(l)}]
    BY <1>0, <2>1, <2>3 DEF RelayStates
  <2> QED
    BY <1>3, <2>2, <2>3 DEF Fetch
<1>4. ASSUME NEW l \in Links, Announce(l) PROVE Goal
  <2>1. Target(l) \in Shown /\ Me(l) \in Accounts \union {None} /\ overtaken' = overtaken
    BY <1>4, Targets DEF Announce, Me, Typed, LinkStates, Shown
  <2>2. relay' = relay \/ relay' = [relay EXCEPT !.presence[Me(l)] = Target(l)]
    BY <1>4 DEF Announce
  <2> QED
    BY <1>0, <2>1, <2>2 DEF RelayStates
<1>5. ASSUME NEW l \in Links, Subscribe(l) PROVE Goal
  <2>1. Target(l) \in Accounts /\ Me(l) \in Accounts \union {None} /\ overtaken' = overtaken
    BY <1>5, Targets DEF Subscribe, Me, Typed, LinkStates
  <2>2. relay' = relay \/ (Me(l) # None /\ relay' = [relay EXCEPT !.subscriptions[Target(l)] = relay.subscriptions[Target(l)] \union {Me(l)}])
    BY <1>5 DEF Subscribe, HasEvidence
  <2> QED
    BY <1>0, <2>1, <2>2 DEF RelayStates
<1>6. ASSUME NEW l \in Links, Close(l) PROVE Goal
  <2>1. Me(l) \in Accounts \union {None}
    BY DEF Me, Typed, LinkStates
  <2>2. CASE Me(l) = None
    BY <1>0, <1>6, <2>2 DEF Close, relayVars
  <2>3. CASE Me(l) \in Accounts
    <3>1. SignedOut(Me(l)) \in RelayStates
      BY <1>0, <2>3 DEF SignedOut, RelayStates
    <3>2. Me(l) # None
      BY <2>3, NamesAssumption
    <3> QED
      BY <1>0, <1>6, <2>3, <3>1, <3>2 DEF Close
  <2> QED
    BY <2>1, <2>2, <2>3
<1>7. CASE Sweep
  <2>1. relay' = Pruned /\ overtaken' = overtaken
    BY <1>7 DEF Sweep
  <2>2. Pruned \in RelayStates
    BY <1>0 DEF Pruned, RelayStates, Shown
  <2> QED
    BY <1>0, <2>1, <2>2
<1>8. CASE UNCHANGED relayVars
  BY <1>0, <1>8 DEF relayVars
<1>9. ASSUME NEW l \in Links, Handling(l) PROVE Goal
  <2>1. Authenticate(l) \/ Publish(l) \/ Fetch(l) \/ Announce(l) \/ Subscribe(l) \/ UNCHANGED relayVars
    BY <1>9 DEF Handling, Rendezvous, Oversized, Mailbox
  <2> QED
    BY <1>1, <1>2, <1>3, <1>4, <1>5, <1>8, <2>1
<1>10. ASSUME NEW l \in Links, Admission(l) \/ AtClient(l) \/ Finish(l) \/ Ended(l) \/ Tick PROVE Goal
  <2>1. UNCHANGED relayVars
    BY <1>10 DEF Admission, Arrive, UpgradeFails, Open, AtClient, Send, Receive, TimesOut, Leave, Finish,
                 Ended, Tick
  <2> QED
    BY <1>8, <2>1
<1>11. CASE Tick
  BY <1>8, <1>11 DEF Tick
<1> QED
  BY <1>6, <1>7, <1>9, <1>10, <1>11, StepKinds DEF Ending

(* What a handler does with its request, and what it leaves behind: an     *)
(* answer, work for after the lock, or nothing.                            *)
LEMMA HandlerLeaves ==
    ASSUME Typed, NEW l \in Links, Handling(l)
    PROVE  /\ request[l] # None /\ request[l].n \in Nat
           /\ request' = [request EXCEPT ![l] = None] /\ job[l] = NoJob /\ client' = client
           /\ link[l].phase = "open"
           /\ \/ job' = job /\ out' = Pushed(out, l, Answer(request[l].n))
              \/ /\ out' = out
                 /\ \/ /\ request[l].kind \in Unanswered
                       /\ \/ job' = job
                          \/ \E work \in Jobs : work.answer = None /\ job' = [job EXCEPT ![l] = work]
                    \/ \E work \in Jobs :
                         work.answer = request[l].n /\ job' = [job EXCEPT ![l] = work]
<1>0. \E kind \in Kinds : Handles(l, kind)
  BY DEF Handling, Authenticate, Publish, Fetch, Announce, Subscribe, Rendezvous, Oversized, Mailbox,
         Kinds
<1>1. /\ request[l] # None /\ request[l].n \in Nat
      /\ request' = [request EXCEPT ![l] = None] /\ job[l] = NoJob /\ link[l].phase = "open"
  BY <1>0, Targets DEF Handles, RequestFrames
<1>2. client' = client
  BY DEF Handling, Authenticate, Publish, Fetch, Announce, Subscribe, Rendezvous, Oversized, Mailbox,
         unserved
<1>3. relay \in RelayStates /\ Me(l) \in Accounts \union {None}
  BY DEF Typed, LinkStates, Me
<1>4. ASSUME NEW does \in {"notify", "tell", "relay"}, NEW who \in Accounts, NEW state \in Shown,
             NEW to \in SUBSET Accounts, NEW n \in Nat \union {None}
      PROVE  Job(does, who, state, to, n) \in Jobs /\ Job(does, who, state, to, n).answer = n
  BY DEF Job, Jobs
<1>5. CASE AnsweredNow(l)
  BY <1>1, <1>2, <1>5 DEF AnsweredNow
<1>6. CASE Authenticate(l) /\ ~AnsweredNow(l)
  <2>1. Target(l) \in Accounts
    BY <1>6, Targets DEF Authenticate
  <2>2. Leaves(l, Job("notify", Target(l), "Online", relay.subscriptions[Target(l)], request[l].n))
    BY <1>6 DEF Authenticate
  <2>3. relay.subscriptions[Target(l)] \in SUBSET Accounts /\ "Online" \in Shown
    BY <1>3, <2>1 DEF RelayStates, Shown
  <2>4. \E work \in Jobs : work.answer = request[l].n /\ Leaves(l, work)
    BY <1>1, <1>4, <2>1, <2>2, <2>3
  <2> QED
    BY <1>1, <1>2, <2>4 DEF Leaves
<1>7. CASE Announce(l) /\ ~AnsweredNow(l)
  <2>1. Target(l) \in Shown /\ request[l].kind \in Unanswered
    BY <1>7, Targets DEF Announce, Shown, Handles, Unanswered
  <2>2. Me(l) \in Accounts
        /\ Leaves(l, Job("notify", Me(l), Target(l), relay.subscriptions[Me(l)], None))
    BY <1>3, <1>7 DEF Announce
  <2>3. relay.subscriptions[Me(l)] \in SUBSET Accounts
    BY <1>3, <2>2 DEF RelayStates
  <2>4. \E work \in Jobs : work.answer = None /\ Leaves(l, work)
    <3> DEFINE work == Job("notify", Me(l), Target(l), relay.subscriptions[Me(l)], None)
    <3>1. work \in Jobs /\ work.answer = None
      BY <2>1, <2>2, <2>3 DEF Job, Jobs
    <3> HIDE DEF work
    <3> QED
      BY <2>2, <3>1 DEF work
  <2> QED
    BY <1>1, <1>2, <2>1, <2>4 DEF Leaves
<1>8. CASE Subscribe(l) /\ ~AnsweredNow(l)
  <2>1. Target(l) \in Accounts /\ request[l].kind \in Unanswered
    BY <1>8, Targets DEF Subscribe, Handles, Unanswered
  <2>2. relay.presence[Target(l)] \in Shown
    BY <1>3, <2>1 DEF RelayStates
  <2>3. UNCHANGED <<job, out>> \/ Leaves(l, Job("tell", Target(l), relay.presence[Target(l)], {}, None))
    BY <1>8 DEF Subscribe
  <2>4. UNCHANGED <<job, out>> \/ \E work \in Jobs : work.answer = None /\ Leaves(l, work)
    <3> DEFINE work == Job("tell", Target(l), relay.presence[Target(l)], {}, None)
    <3>1. work \in Jobs /\ work.answer = None
      BY <2>1, <2>2 DEF Job, Jobs
    <3> HIDE DEF work
    <3> QED
      BY <2>3, <3>1 DEF work
  <2> QED
    BY <1>1, <1>2, <2>1, <2>4 DEF Leaves
<1>9. CASE Rendezvous(l) /\ ~AnsweredNow(l)
  <2>1. Target(l) \in Accounts
    BY <1>9, Targets DEF Rendezvous
  <2>2. Me(l) \in Accounts /\ Leaves(l, Job("relay", Me(l), None, {Target(l)}, request[l].n))
    BY <1>3, <1>9 DEF Rendezvous, HasEvidence
  <2>3. None \in Shown /\ {Target(l)} \in SUBSET Accounts
    BY <2>1 DEF Shown
  <2>4. \E work \in Jobs : work.answer = request[l].n /\ Leaves(l, work)
    <3> DEFINE work == Job("relay", Me(l), None, {Target(l)}, request[l].n)
    <3>1. work \in Jobs /\ work.answer = request[l].n
      BY <1>1, <1>4, <2>2, <2>3
    <3> HIDE DEF work
    <3> QED
      BY <2>2, <3>1 DEF work
  <2> QED
    BY <1>1, <1>2, <2>4 DEF Leaves
<1> QED
  BY <1>5, <1>6, <1>7, <1>8, <1>9 DEF Handling, Publish, Fetch, Oversized, Mailbox

(* What is sent after the lock: pushes, and at most the answer that was    *)
(* left to send.                                                           *)
LEMMA FinishSends ==
    ASSUME Typed, NEW l \in Links, Finish(l)
    PROVE  /\ Queues(out') /\ job' = [job EXCEPT ![l] = NoJob] /\ job[l] \in Jobs
           /\ UNCHANGED <<link, client, request>>
           /\ \A k \in Links :
                \E first \in {out[k]} \union {Append(out[k], f) : f \in PushFrames} :
                  \E second \in {first} \union (IF k = l /\ job[l].answer # None
                                                THEN {Append(first, Answer(job[l].answer))} ELSE {}) :
                    out'[k] \in {second} \union {Append(second, f) : f \in PushFrames}
<1>0. job[l] \in Jobs /\ Queues(out)
  BY OutIsQueues DEF Finish, Typed
<1> DEFINE work == job[l]
           Acked(q) == IF work.answer = None THEN q ELSE Pushed(q, l, Answer(work.answer))
           update == Update(work.who, work.state)
           offer == Offer(work.who)
           Choice(first, k) == {first} \union (IF k = l /\ job[l].answer # None
                                               THEN {Append(first, Answer(job[l].answer))} ELSE {})
           More(s) == {s} \union {Append(s, f) : f \in PushFrames}
<1>1. job' = [job EXCEPT ![l] = NoJob] /\ UNCHANGED <<link, client, request>>
  BY DEF Finish
<1>2. update \in Frames /\ update \in PushFrames /\ offer \in Frames /\ offer \in PushFrames
  BY <1>0, FrameKinds DEF Jobs, Update, Offer, PushFrames
<1>3. \/ work.does = "notify" /\ out' = Delivered(Acked(out), work.to, update)
      \/ work.does = "tell" /\ out' = Pushed(out, l, update)
      \/ work.does = "relay" /\ out' = Acked(Delivered(out, work.to, offer))
  BY <1>0 DEF Finish, Jobs
<1>4. ASSUME NEW q, Queues(q)
      PROVE  Queues(Acked(q)) /\ \A k \in Links : Acked(q)[k] \in Choice(q[k], k)
  <2>1. CASE work.answer = None
    BY <1>4, <2>1
  <2>2. CASE work.answer # None
    <3>1. work.answer \in Nat
      BY <1>0, <2>2 DEF Jobs
    <3>2. Answer(work.answer) \in Frames
      BY <3>1, FrameKinds
    <3> QED
      BY <1>4, <2>2, <3>2, PushedQueues
  <2> QED
    BY <2>1, <2>2
<1>5. ASSUME NEW q, Queues(q), NEW to
      PROVE  /\ Queues(Delivered(q, to, update)) /\ Queues(Delivered(q, to, offer))
             /\ \A k \in Links : Delivered(q, to, update)[k] \in More(q[k])
                                 /\ Delivered(q, to, offer)[k] \in More(q[k])
  BY <1>2, <1>5, DeliveredQueues
<1>6. Queues(Pushed(out, l, update)) /\ \A k \in Links : Pushed(out, l, update)[k] \in More(out[k])
  BY <1>0, <1>2, PushedQueues
<1> DEFINE Goal == /\ Queues(out')
                   /\ \A k \in Links : \E first \in More(out[k]) : \E second \in Choice(first, k) :
                        out'[k] \in More(second)
<1>7. Goal
  <2> HIDE DEF work, update, offer, Choice, More
  <2>0. \A s, k : s \in More(s) /\ s \in Choice(s, k)
    BY DEF More, Choice
  <2>1. CASE work.does = "notify" /\ out' = Delivered(Acked(out), work.to, update)
    <3> DEFINE q == Acked(out)
    <3>1. Queues(q) /\ \A k \in Links : q[k] \in Choice(out[k], k)
      BY <1>0, <1>4
    <3> HIDE DEF Acked, q
    <3>2. Queues(out') /\ \A k \in Links : out'[k] \in More(q[k])
      BY <1>5, <2>1, <3>1 DEF q
    <3> QED
      BY <2>0, <3>1, <3>2
  <2>2. CASE out' = Pushed(out, l, update)
    BY <1>6, <2>0, <2>2
  <2>3. CASE work.does = "relay" /\ out' = Acked(Delivered(out, work.to, offer))
    <3> DEFINE q == Delivered(out, work.to, offer)
    <3>1. Queues(q) /\ \A k \in Links : q[k] \in More(out[k])
      BY <1>0, <1>5
    <3> HIDE DEF q
    <3>2. Queues(Acked(q)) /\ \A k \in Links : Acked(q)[k] \in Choice(q[k], k)
      BY <1>4, <3>1
    <3>3. out' = Acked(q)
      BY <2>3 DEF q
    <3> HIDE DEF Acked
    <3> QED
      BY <2>0, <3>1, <3>2, <3>3
  <2> QED
    BY <1>3, <2>1, <2>2, <2>3
<1> QED
  BY <1>0, <1>1, <1>7

LEMMA TypedQueues ==
    ASSUME Typed, Next
    PROVE  /\ request' \in [Links -> RequestFrames \union {None}]
           /\ \A l \in Links :
                request'[l] # None => <<request'[l].kind, request'[l].target>> \in Requests
           /\ Queues(out') /\ job' \in [Links -> Jobs \union {NoJob}]
<1> DEFINE Asked == /\ request' \in [Links -> RequestFrames \union {None}]
                    /\ \A l \in Links :
                         request'[l] # None => <<request'[l].kind, request'[l].target>> \in Requests
           Sent == Queues(out') /\ job' \in [Links -> Jobs \union {NoJob}]
<1>0. Queues(out) /\ job \in [Links -> Jobs \union {NoJob}]
      /\ request \in [Links -> RequestFrames \union {None}]
  BY OutIsQueues DEF Typed
<1>a. UNCHANGED request => Asked
  BY DEF Typed
<1>b. UNCHANGED <<out, job>> => Sent
  BY <1>0 DEF Queues
<1>1. ASSUME NEW l \in Links, Admission(l) PROVE Asked /\ Sent
  <2>1. request' = request /\ job' = job /\ (out' = out \/ out' = Pushed(out, l, Answer(0)))
    BY <1>1 DEF Admission, Arrive, UpgradeFails, Open
  <2>2. Queues(Pushed(out, l, Answer(0)))
    BY <1>0, FrameKinds, PushedQueues
  <2> QED
    BY <1>0, <1>a, <1>b, <2>1, <2>2
<1>2. ASSUME NEW l \in Links, NEW r \in Requests, Send(l, r[1], r[2]) PROVE Asked /\ Sent
  <2>1. UNCHANGED <<out, job>>
        /\ request' = [request EXCEPT ![l] = [n |-> client[l].sent + 1, kind |-> r[1], target |-> r[2]]]
    BY <1>2 DEF Send
  <2>2. r = <<r[1], r[2]>> /\ r[1] \in Kinds /\ r[2] \in Accounts \union {"Online", "Away", None}
    BY DEF Requests, Kinds, MailboxKinds
  <2>3. client[l].sent + 1 \in Nat
    BY DEF Typed, ClientStates
  <2>4. [n |-> client[l].sent + 1, kind |-> r[1], target |-> r[2]] \in RequestFrames
    BY <2>2, <2>3 DEF RequestFrames
  <2>5. ASSUME NEW k \in Links, request'[k] # None
        PROVE  <<request'[k].kind, request'[k].target>> \in Requests
    <3>1. CASE k = l
      BY <1>0, <2>1, <2>2, <3>1
    <3>2. CASE k # l
      BY <1>0, <2>1, <2>5, <3>2 DEF Typed
    <3> QED
      BY <3>1, <3>2
  <2> QED
    BY <1>0, <1>b, <2>1, <2>4, <2>5
<1>3. ASSUME NEW l \in Links, Receive(l) PROVE Asked /\ Sent
  <2>1. request' = request /\ job' = job /\ out[l] # <<>> /\ out' = [out EXCEPT ![l] = Tail(out[l])]
    BY <1>3 DEF Receive
  <2>2. Tail(out[l]) \in Seq(Frames) /\ Len(Tail(out[l])) = Len(out[l]) - 1 /\ Len(out[l]) \in Nat
    BY <1>0, <2>1, HeadTailProperties, LenProperties DEF Queues
  <2>3. Len(out[l]) <= MaxFrames
    BY <1>0 DEF Queues
  <2>4. Len(Tail(out[l])) <= MaxFrames
    BY <2>2, <2>3, Sizes
  <2> QED
    BY <1>0, <1>a, <2>1, <2>2, <2>4 DEF Queues
<1>4. ASSUME NEW l \in Links, TimesOut(l) \/ Leave(l) PROVE Asked /\ Sent
  <2>1. request' = request /\ job' = job /\ (out' = out \/ out' = [out EXCEPT ![l] = <<>>])
    BY <1>4 DEF TimesOut, Leave
  <2>2. <<>> \in Seq(Frames) /\ Len(<<>>) = 0
    BY EmptySeq
  <2>3. 0 <= MaxFrames
    BY Sizes
  <2>4. Queues([out EXCEPT ![l] = <<>>])
    BY <1>0, <2>2, <2>3 DEF Queues
  <2> QED
    BY <1>0, <1>a, <2>1, <2>4
<1>5. ASSUME NEW l \in Links, Handling(l) PROVE Asked /\ Sent
  <2>1. request' = [request EXCEPT ![l] = None] /\ request[l].n \in Nat
    BY <1>5, HandlerLeaves
  <2>2. \/ job' = job /\ out' = Pushed(out, l, Answer(request[l].n))
        \/ out' = out /\ (job' = job \/ \E work \in Jobs : job' = [job EXCEPT ![l] = work])
    BY <1>5, HandlerLeaves
  <2>3. Queues(Pushed(out, l, Answer(request[l].n)))
    BY <1>0, <2>1, FrameKinds, PushedQueues
  <2>4. Asked
    BY <1>0, <2>1 DEF Typed
  <2> QED
    BY <1>0, <2>2, <2>3, <2>4
<1>6. ASSUME NEW l \in Links, Finish(l) PROVE Asked /\ Sent
  <2>1. Queues(out') /\ job' = [job EXCEPT ![l] = NoJob] /\ request' = request
    BY <1>6, FinishSends
  <2> QED
    BY <1>0, <1>a, <2>1
<1>7. ASSUME NEW l \in Links, Ending(l) PROVE Asked /\ Sent
  <2>1. UNCHANGED <<request, out>>
    BY <1>7 DEF Ending, Close, Ended
  <2>2. job' = job \/ \E work \in Jobs : job' = [job EXCEPT ![l] = work]
    <3>1. CASE Ended(l) \/ Me(l) = None
      BY <1>7, <3>1 DEF Ending, Close, Ended
    <3>2. CASE Close(l) /\ Me(l) # None
      <4> DEFINE work == Job("notify", Me(l), "Offline", relay.subscriptions[Me(l)], None)
      <4>1. Me(l) \in Accounts
        BY <3>2 DEF Me, Typed, LinkStates
      <4>2. relay.subscriptions[Me(l)] \in SUBSET Accounts
        BY <4>1 DEF Typed, RelayStates
      <4>3. work \in Jobs
        BY <4>1, <4>2 DEF Job, Jobs, Shown
      <4>4. job' = [job EXCEPT ![l] = work]
        BY <3>2 DEF Close
      <4> QED
        BY <4>3, <4>4
    <3> QED
      BY <1>7, <3>1, <3>2 DEF Ending
  <2> QED
    BY <1>0, <1>a, <2>1, <2>2
<1>8. ASSUME Sweep \/ Tick PROVE Asked /\ Sent
  <2>1. UNCHANGED <<request, out, job>>
    BY <1>8 DEF Sweep, Tick
  <2> QED
    BY <1>a, <1>b, <2>1
<1> QED
  BY <1>1, <1>2, <1>3, <1>4, <1>5, <1>6, <1>7, <1>8, StepKinds DEF AtClient

LEMMA TypedRest ==
    ASSUME Typed, Next
    PROVE  /\ slots' \in [Clients \union Proxies -> 0 .. MaxConcurrent]
           /\ clock' \in Nat /\ budget' \in Budgets /\ burst' \in BOOLEAN
<1> DEFINE Goal == /\ slots' \in [Clients \union Proxies -> 0 .. MaxConcurrent]
                   /\ clock' \in Nat /\ budget' \in Budgets /\ burst' \in BOOLEAN
<1>0. slots \in [Clients \union Proxies -> 0 .. MaxConcurrent] /\ clock \in Nat /\ budget \in Budgets
      /\ burst \in BOOLEAN /\ MaxConcurrent \in Nat
  BY Sizes DEF Typed
<1>1. ASSUME NEW l \in Links, Arrive(l) PROVE Goal
  <2>1. budget' = [budget EXCEPT !.links = budget.links - 1] /\ budget.links > 0 /\ clock' = clock
    BY <1>1 DEF Arrive
  <2>2. PICK from \in Clients :
             \/ /\ Room(from) /\ slots' = [slots EXCEPT ![from] = slots[from] + 1]
                /\ burst' = (burst \/ Pending # {})
             \/ UNCHANGED <<slots, burst>>
    BY <1>1, Arrives
  <2>3. Room(from) => slots[from] + 1 \in 0 .. MaxConcurrent
    BY <1>0 DEF Room
  <2>4. slots' \in [Clients \union Proxies -> 0 .. MaxConcurrent] /\ burst' \in BOOLEAN
    BY <1>0, <2>2, <2>3
  <2>5. budget' \in Budgets
    BY <1>0, <2>1 DEF Budgets
  <2> QED
    BY <1>0, <2>1, <2>4, <2>5
<1>2. ASSUME NEW l \in Links, UpgradeFails(l) \/ Ended(l) PROVE Goal
  <2>1. slots' = Released(l) /\ UNCHANGED <<burst, clock, budget>>
    BY <1>2 DEF UpgradeFails, Ended
  <2>2. Released(l) \in [Clients \union Proxies -> 0 .. MaxConcurrent]
    <3> DEFINE key == link[l].key
               n == IF slots[key] > 0 THEN slots[key] - 1 ELSE 0
    <3>1. Released(l) = [slots EXCEPT ![key] = n]
      BY DEF Released
    <3> HIDE DEF key
    <3>2. CASE key \in Clients \union Proxies
      <4>1. slots[key] \in 0 .. MaxConcurrent
        BY <1>0, <3>2
      <4>2. n \in 0 .. MaxConcurrent
        BY <1>0, <4>1
      <4> HIDE DEF n
      <4> QED
        BY <1>0, <3>1, <4>2
    <3>3. CASE key \notin Clients \union Proxies
      <4> HIDE DEF n
      <4> QED
        BY <1>0, <3>1, <3>3
    <3> QED
      BY <3>2, <3>3
  <2> QED
    BY <1>0, <2>1, <2>2
<1>3. ASSUME NEW l \in Links, NEW r \in Requests, Send(l, r[1], r[2]) PROVE Goal
  <2>1. budget' = [budget EXCEPT !.requests = budget.requests - 1] /\ budget.requests > 0
        /\ UNCHANGED <<slots, clock, burst>>
    BY <1>3 DEF Send, admitVars
  <2> QED
    BY <1>0, <2>1 DEF Budgets
<1>4. CASE Tick
  <2>1. budget' = [budget EXCEPT !.periods = budget.periods - 1] /\ budget.periods > 0
        /\ UNCHANGED <<slots, burst>> /\ clock' = clock + 1
    BY <1>4 DEF Tick, admitVars
  <2> QED
    BY <1>0, <2>1 DEF Budgets
<1>5. CASE Sweep
  <2>1. slots' = [c \in DOMAIN slots |-> IF Forgotten(<<"Address", c>>) THEN 0 ELSE slots[c]]
        /\ UNCHANGED <<burst, clock, budget>>
    BY <1>5 DEF Sweep
  <2> QED
    BY <1>0, <2>1
<1>6. ASSUME UNCHANGED <<slots, clock, budget, burst>> PROVE Goal
  BY <1>0, <1>6
<1>7. ASSUME NEW l \in Links, Handling(l) PROVE Goal
  BY <1>6, <1>7 DEF Handling, Authenticate, Publish, Fetch, Announce, Subscribe, Rendezvous, Oversized,
                    Mailbox, unserved, admitVars
<1>8. ASSUME NEW l \in Links, Open(l) \/ Receive(l) \/ TimesOut(l) \/ Leave(l) \/ Finish(l) \/ Close(l)
      PROVE  Goal
  BY <1>6, <1>8 DEF Open, Receive, TimesOut, Leave, Finish, Close, admitVars
<1> QED
  BY <1>1, <1>2, <1>3, <1>4, <1>5, <1>7, <1>8, StepKinds DEF Admission, AtClient, Ending

-----------------------------------------------------------------------------
(* Who holds a slot and who is counted.                                    *)
SlotsCounted ==
    /\ AddressInv /\ IsFiniteSet(Live)
    /\ \A c \in Clients : slots[c] = Cardinality(HoldsSlot(c))

LEMMA SlotHolders ==
    ASSUME NEW c
    PROVE  HoldsSlot(c) \subseteq Live /\ Counted \subseteq Live /\ Live \subseteq Links
BY DEF HoldsSlot, Live, Pending, Counted

LEMMA FiniteParts ==
    ASSUME IsFiniteSet(Live), NEW S \in SUBSET Live
    PROVE  IsFiniteSet(S) /\ Cardinality(S) \in Nat
BY FS_Subset, FS_CardinalityType

(* A connection that stays where it is.                                    *)
LEMMA PlacesSame ==
    ASSUME \A k \in Links : /\ link'[k].phase = link[k].phase
                            /\ link'[k].from = link[k].from /\ link'[k].key = link[k].key
    PROVE  /\ Pending' = Pending /\ Counted' = Counted /\ Live' = Live
           /\ \A c : HoldsSlot(c)' = HoldsSlot(c)
           /\ AddressInv => AddressInv'
<1>1. Pending' = Pending /\ Counted' = Counted
  BY DEF Pending, Counted
<1>2. Live' = Live /\ Live \subseteq Links
  BY <1>1 DEF Live, Pending, Counted
<1>3. \A c : HoldsSlot(c)' = HoldsSlot(c)
  BY <1>1, <1>2 DEF HoldsSlot, Live
<1> QED
  BY <1>1, <1>2, <1>3 DEF AddressInv

(* One more.                                                               *)
LEMMA OneArrives ==
    ASSUME Typed, SlotsCounted, NEW l \in Links, link[l].phase = "unused", NEW from \in Clients,
           link' = [link EXCEPT ![l] = [phase |-> "upgrading", from |-> from,
                                        key |-> from, as |-> None]],
           slots' = [slots EXCEPT ![from] = slots[from] + 1]
    PROVE  SlotsCounted' /\ Pending' = Pending \union {l} /\ Counted' = Counted
<1>1. /\ link'[l] = [phase |-> "upgrading", from |-> from, key |-> from, as |-> None]
      /\ \A k \in Links \ {l} : link'[k] = link[k]
  BY DEF Typed
<1>2. Pending' = Pending \union {l} /\ Counted' = Counted /\ l \notin Live
  BY <1>1 DEF Pending, Counted, Live
<1>3. Live' = Live \union {l}
  BY <1>2 DEF Live
<1>4. AddressInv'
  BY <1>1, <1>3, SlotHolders DEF AddressInv, SlotsCounted
<1>5. IsFiniteSet(Live')
  BY <1>3, FS_AddElement DEF SlotsCounted
<1>6. ASSUME NEW c \in Clients PROVE slots'[c] = Cardinality(HoldsSlot(c)')
  <2>1. IsFiniteSet(HoldsSlot(c)) /\ l \notin HoldsSlot(c)
    BY <1>2, SlotHolders, FiniteParts DEF SlotsCounted
  <2>2. slots[c] = Cardinality(HoldsSlot(c)) /\ slots \in [Clients \union Proxies -> 0 .. MaxConcurrent]
    BY DEF SlotsCounted, Typed
  <2>3. CASE c = from
    <3>1. HoldsSlot(c)' = HoldsSlot(c) \union {l}
      BY <1>1, <1>3, <2>3 DEF HoldsSlot, Live, Pending, Counted
    <3>2. Cardinality(HoldsSlot(c) \union {l}) = Cardinality(HoldsSlot(c)) + 1
      BY <2>1, FS_AddElement
    <3> QED
      BY <2>2, <2>3, <3>1, <3>2
  <2>4. CASE c # from
    <3>1. HoldsSlot(c)' = HoldsSlot(c)
      BY <1>1, <1>2, <1>3, <2>4 DEF HoldsSlot, Live, Pending, Counted
    <3> QED
      BY <2>2, <2>4, <3>1
  <2> QED
    BY <2>3, <2>4
<1> QED
  BY <1>2, <1>4, <1>5, <1>6 DEF SlotsCounted

(* One less.                                                               *)
LEMMA OneGoes ==
    ASSUME Typed, SlotsCounted, NEW l \in Live,
           link' = [link EXCEPT ![l] = Over], slots' = Released(l)
    PROVE  SlotsCounted' /\ Pending' = Pending \ {l} /\ Counted' = Counted \ {l}
<1>0. l \in Links
  BY SlotHolders
<1>1. link'[l] = Over /\ Over.phase = "ended" /\ \A k \in Links \ {l} : link'[k] = link[k]
  BY <1>0 DEF Typed, Over
<1>2. Pending' = Pending \ {l} /\ Counted' = Counted \ {l}
  BY <1>0, <1>1 DEF Pending, Counted
<1>3. Live' = Live \ {l}
  BY <1>2 DEF Live
<1>4. AddressInv'
  BY <1>1, <1>3, SlotHolders DEF AddressInv, SlotsCounted
<1>5. IsFiniteSet(Live')
  BY <1>3, FS_RemoveElement DEF SlotsCounted
<1> DEFINE from == link[l].from
<1>6. from \in Clients /\ link[l].key = from
  BY DEF SlotsCounted, AddressInv
<1>7. ASSUME NEW c \in Clients PROVE slots'[c] = Cardinality(HoldsSlot(c)')
  <2>1. IsFiniteSet(HoldsSlot(c)) /\ Cardinality(HoldsSlot(c)) \in Nat
    BY SlotHolders, FiniteParts DEF SlotsCounted
  <2>2. slots[c] = Cardinality(HoldsSlot(c)) /\ slots \in [Clients \union Proxies -> 0 .. MaxConcurrent]
    BY DEF SlotsCounted, Typed
  <2>3. CASE c = from
    <3>1. HoldsSlot(c)' = HoldsSlot(c) \ {l} /\ l \in HoldsSlot(c)
      BY <1>1, <1>2, <1>3, <2>3 DEF HoldsSlot, Live, Pending, Counted
    <3>2. Cardinality(HoldsSlot(c) \ {l}) = Cardinality(HoldsSlot(c)) - 1
      BY <2>1, <3>1, FS_RemoveElement
    <3>3. Cardinality(HoldsSlot(c)) # 0
      BY <2>1, <3>1, FS_EmptySet
    <3>4. slots'[c] = IF slots[c] > 0 THEN slots[c] - 1 ELSE 0
      BY <1>6, <2>2, <2>3 DEF Released
    <3> QED
      BY <2>1, <2>2, <3>1, <3>2, <3>3, <3>4
  <2>4. CASE c # from
    <3>1. HoldsSlot(c)' = HoldsSlot(c)
      BY <1>1, <1>2, <1>3, <2>4 DEF HoldsSlot, Live, Pending, Counted
    <3>2. slots'[c] = slots[c]
      BY <1>6, <2>2, <2>4 DEF Released
    <3> QED
      BY <2>2, <3>1, <3>2
  <2> QED
    BY <2>3, <2>4
<1> QED
  BY <1>2, <1>4, <1>5, <1>7 DEF SlotsCounted

(* The connections, the count and the cap, over every step.                *)
LEMMA CountSteps ==
    ASSUME Typed, AddressInv, CountInv, CapInv, Next
    PROVE  AddressInv' /\ CountInv' /\ CapInv' /\ active' \in Nat
<1> DEFINE Goal == AddressInv' /\ CountInv' /\ CapInv' /\ active' \in Nat
<1>0. SlotsCounted /\ active = Cardinality(Counted) /\ active \in Nat /\ ConnectionCap \in Nat
      /\ IsFiniteSet(Counted) /\ link \in [Links -> LinkStates]
  BY Sizes, SlotHolders, FiniteParts DEF SlotsCounted, CountInv, Typed
<1>1. ASSUME UNCHANGED <<slots, active, burst>>,
             \A k \in Links : /\ link'[k].phase = link[k].phase
                              /\ link'[k].from = link[k].from /\ link'[k].key = link[k].key
      PROVE  Goal
  BY <1>0, <1>1, PlacesSame DEF CountInv, CapInv
<1>2. ASSUME NEW l \in Links, Arrive(l) PROVE Goal
  <2>0. link[l].phase = "unused" /\ active' = active /\ active < ConnectionCap
    BY <1>2 DEF Arrive, UnderCap
  <2>1. PICK from \in Clients :
          \/ /\ link' = [link EXCEPT ![l] = [phase |-> "upgrading", from |-> from,
                                             key |-> from, as |-> None]]
             /\ slots' = [slots EXCEPT ![from] = slots[from] + 1]
             /\ burst' = (burst \/ Pending # {})
          \/ link' = [link EXCEPT ![l] = Over] /\ UNCHANGED <<slots, burst>>
    BY <1>2, Arrives
  <2>2. CASE /\ link' = [link EXCEPT ![l] = [phase |-> "upgrading", from |-> from,
                                             key |-> from, as |-> None]]
             /\ slots' = [slots EXCEPT ![from] = slots[from] + 1]
             /\ burst' = (burst \/ Pending # {})
    <3>1. SlotsCounted' /\ Pending' = Pending \union {l} /\ Counted' = Counted
      BY <1>0, <2>0, <2>2, OneArrives
    <3>2. CapInv'
      <4>1. SUFFICES ASSUME ~burst' PROVE active' < ConnectionCap /\ \E k \in Pending' : Pending' = {k}
        BY DEF CapInv
      <4>2. Pending = {}
        BY <2>2, <4>1
      <4> QED
        BY <2>0, <3>1, <4>2
    <3> QED
      BY <1>0, <2>0, <3>1, <3>2 DEF SlotsCounted, CountInv
  <2>3. CASE link' = [link EXCEPT ![l] = Over] /\ UNCHANGED <<slots, burst>>
    <3>1. \A k \in Links \ {l} : link'[k] = link[k]
      BY <1>0, <2>3
    <3>2. link'[l].phase = "ended"
      BY <1>0, <2>3 DEF Over
    <3>3. Pending' = Pending /\ Counted' = Counted /\ l \notin Live
      BY <2>0, <3>1, <3>2 DEF Pending, Counted, Live
    <3>4. Live' = Live
      BY <3>3 DEF Live
    <3>5. \A k \in Live : link'[k] = link[k]
      BY <3>1, <3>3, SlotHolders
    <3>6. \A c : HoldsSlot(c)' = HoldsSlot(c)
      BY <3>3, <3>5 DEF HoldsSlot, Live
    <3> QED
      BY <1>0, <2>0, <2>3, <3>3, <3>4, <3>5, <3>6 DEF AddressInv, CountInv, CapInv
  <2> QED
    BY <2>1, <2>2, <2>3
<1>3. ASSUME NEW l \in Links, UpgradeFails(l) PROVE Goal
  <2>1. l \in Live /\ l \in Pending /\ l \notin Counted
    BY <1>3 DEF UpgradeFails, Live, Pending, Counted
  <2>2. link' = [link EXCEPT ![l] = Over] /\ slots' = Released(l) /\ UNCHANGED <<active, burst>>
    BY <1>3 DEF UpgradeFails
  <2>3. SlotsCounted' /\ Pending' = Pending \ {l} /\ Counted' = Counted
    BY <1>0, <2>1, <2>2, OneGoes
  <2>4. CapInv'
    BY <1>0, <2>1, <2>2, <2>3 DEF CapInv
  <2> QED
    BY <1>0, <2>2, <2>3, <2>4 DEF SlotsCounted, CountInv
<1>4. ASSUME NEW l \in Links, Open(l) PROVE Goal
  <2>1. link[l].phase = "upgrading" /\ active' = active + 1 /\ UNCHANGED <<slots, burst>>
        /\ link' = [link EXCEPT ![l].phase = "open"]
    BY <1>4 DEF Open
  <2>2. /\ link'[l].phase = "open" /\ link'[l].from = link[l].from /\ link'[l].key = link[l].key
        /\ \A k \in Links \ {l} : link'[k] = link[k]
    BY <1>0, <2>1 DEF LinkStates
  <2>3. Pending' = Pending \ {l} /\ Counted' = Counted \union {l} /\ l \in Pending /\ l \notin Counted
    BY <2>1, <2>2 DEF Pending, Counted
  <2>4. Live' = Live
    BY <2>3 DEF Live
  <2>5. \A k \in Live : link'[k].from = link[k].from /\ link'[k].key = link[k].key
    BY <2>2, SlotHolders
  <2>6. \A c : HoldsSlot(c)' = HoldsSlot(c)
    BY <2>4, <2>5 DEF HoldsSlot, Live
  <2>7. Cardinality(Counted') = active + 1
    BY <1>0, <2>3, FS_AddElement
  <2>8. CapInv'
    BY <1>0, <2>1, <2>3 DEF CapInv
  <2> QED
    BY <1>0, <2>1, <2>4, <2>5, <2>6, <2>7, <2>8 DEF AddressInv, CountInv
<1>5. ASSUME NEW l \in Links, Ended(l) PROVE Goal
  <2>1. l \in Live /\ l \notin Pending /\ l \in Counted
    BY <1>5 DEF Ended, Live, Pending, Counted
  <2>2. link' = [link EXCEPT ![l] = Over] /\ slots' = Released(l) /\ active' = active - 1 /\ burst' = burst
    BY <1>5 DEF Ended
  <2>3. SlotsCounted' /\ Pending' = Pending /\ Counted' = Counted \ {l}
    BY <1>0, <2>1, <2>2, OneGoes
  <2>4. Cardinality(Counted') = active - 1 /\ active # 0
    BY <1>0, <2>1, <2>3, FS_RemoveElement, FS_EmptySet
  <2>5. CapInv'
    BY <1>0, <2>2, <2>3 DEF CapInv
  <2> QED
    BY <1>0, <2>2, <2>3, <2>4, <2>5 DEF SlotsCounted, CountInv
<1>6. ASSUME NEW l \in Links, Close(l) PROVE Goal
  <2>1. link[l].phase = "open" /\ link' = [link EXCEPT ![l].phase = "closing"]
        /\ UNCHANGED <<slots, active, burst>>
    BY <1>6 DEF Close, admitVars
  <2>2. /\ link'[l].phase = "closing" /\ link'[l].from = link[l].from /\ link'[l].key = link[l].key
        /\ \A k \in Links \ {l} : link'[k] = link[k]
    BY <1>0, <2>1 DEF LinkStates
  <2>3. Pending' = Pending /\ Counted' = Counted
    BY <2>1, <2>2 DEF Pending, Counted
  <2>4. Live' = Live
    BY <2>3 DEF Live
  <2>5. \A k \in Live : link'[k].from = link[k].from /\ link'[k].key = link[k].key
    BY <2>2, SlotHolders
  <2>6. \A c : HoldsSlot(c)' = HoldsSlot(c)
    BY <2>4, <2>5 DEF HoldsSlot, Live
  <2> QED
    BY <1>0, <2>1, <2>3, <2>4, <2>5, <2>6 DEF AddressInv, CountInv, CapInv
<1>7. ASSUME NEW l \in Links, Handling(l) PROVE Goal
  <2>1. UNCHANGED <<slots, active, burst>> /\ (link' = link \/ link' = [link EXCEPT ![l].as = Target(l)])
    BY <1>7 DEF Handling, Authenticate, Publish, Fetch, Announce, Subscribe, Rendezvous, Oversized,
                Mailbox, unserved, admitVars
  <2>2. \A k \in Links : /\ link'[k].phase = link[k].phase
                         /\ link'[k].from = link[k].from /\ link'[k].key = link[k].key
    BY <1>0, <2>1 DEF LinkStates
  <2> QED
    BY <1>1, <2>1, <2>2
<1>8. ASSUME NEW l \in Links, AtClient(l) \/ Finish(l) PROVE Goal
  <2>1. UNCHANGED <<slots, active, burst, link>>
    BY <1>8 DEF AtClient, Send, Receive, TimesOut, Leave, Finish, admitVars
  <2> QED
    BY <1>1, <2>1
<1>9. CASE Tick
  <2>1. UNCHANGED <<slots, active, burst, link>>
    BY <1>9 DEF Tick, admitVars
  <2> QED
    BY <1>1, <2>1
<1>10. CASE Sweep
  <2>1. UNCHANGED <<active, burst, link>>
        /\ slots' = [c \in DOMAIN slots |-> IF Forgotten(<<"Address", c>>) THEN 0 ELSE slots[c]]
    BY <1>10 DEF Sweep
  <2>2. \A c \in DOMAIN slots : Forgotten(<<"Address", c>>) => slots[c] = 0
    BY DEF Forgotten
  <2>3. slots' = slots
    BY <2>1, <2>2 DEF Typed
  <2> QED
    BY <1>1, <2>1, <2>3
<1> QED
  BY <1>2, <1>3, <1>4, <1>5, <1>6, <1>7, <1>8, <1>9, <1>10, StepKinds DEF Admission, Ending

-----------------------------------------------------------------------------
(* Who is there. Most steps change nobody's account and no phase but that  *)
(* of a connection without one.                                            *)
PresenceOf(a) ==
    LET entry == relay.connections[a]
        shown == relay.presence[a] \in {"Online", "Away"}
    IN /\ entry # None => entry \in LinksOf(a)
       /\ shown => Connected(a)
       /\ a \notin overtaken =>
            (Connected(a) <=> entry # None) /\ (Connected(a) <=> shown)

LEMMA PresenceOfAll == PresenceIsTrue <=> \A a \in Accounts : PresenceOf(a)
BY DEF PresenceIsTrue, PresenceOf

LEMMA PresenceSame ==
    ASSUME NEW a, PresenceOf(a), LinksOf(a)' = LinksOf(a),
           relay'.connections[a] = relay.connections[a],
           relay'.presence[a] \in {"Online", "Away"} <=> relay.presence[a] \in {"Online", "Away"},
           a \in overtaken' <=> a \in overtaken
    PROVE  PresenceOf(a)'
BY DEF PresenceOf, Connected

LEMMA PresenceSteps ==
    ASSUME Typed, SignedInInv, PresenceIsTrue, Next
    PROVE  SignedInInv' /\ PresenceIsTrue'
<1> DEFINE Goal == SignedInInv' /\ \A a \in Accounts : PresenceOf(a)'
<1>0. link \in [Links -> LinkStates] /\ relay \in RelayStates /\ None \notin Accounts
      /\ \A a \in Accounts : PresenceOf(a)
  BY NamesAssumption, PresenceOfAll DEF Typed
<1>1. ASSUME UNCHANGED <<relay, overtaken>>,
             \A k \in Links : link'[k] = link[k] \/ (link'[k].as = None /\ link[k].as = None)
      PROVE  Goal
  <2>1. SignedInInv'
    BY <1>1 DEF SignedInInv
  <2>2. \A a \in Accounts : LinksOf(a)' = LinksOf(a)
    BY <1>0, <1>1 DEF LinksOf
  <2> QED
    BY <1>0, <1>1, <2>1, <2>2, PresenceSame
<1>2. ASSUME NEW l \in Links, Admission(l) PROVE Goal
  <2>1. UNCHANGED <<relay, overtaken>>
    BY <1>2 DEF Admission, Arrive, UpgradeFails, Open, relayVars
  <2>2. link[l].phase \in {"unused", "upgrading"}
    BY <1>2 DEF Admission, Arrive, UpgradeFails, Open
  <2>3. link[l].as = None
    BY <2>2 DEF SignedInInv
  <2>4. \E state \in LinkStates : state.as = None /\ link' = [link EXCEPT ![l] = state]
    <3>1. CASE Arrive(l)
      <4>1. PICK from \in Clients :
              \/ link' = [link EXCEPT ![l] = [phase |-> "upgrading", from |-> from,
                                              key |-> from, as |-> None]]
              \/ link' = [link EXCEPT ![l] = Over]
        BY <3>1, Arrives
      <4>2. [phase |-> "upgrading", from |-> from, key |-> from, as |-> None] \in LinkStates
            /\ Over \in LinkStates /\ Over.as = None
        BY DEF LinkStates, Over
      <4> QED
        BY <4>1, <4>2
    <3>2. CASE UpgradeFails(l)
      BY <3>2 DEF UpgradeFails, Over, LinkStates
    <3>3. CASE Open(l)
      <4> DEFINE state == [link[l] EXCEPT !.phase = "open"]
      <4>1. link' = [link EXCEPT ![l] = state]
        BY <3>3 DEF Open
      <4>2. state \in LinkStates /\ state.as = None
        BY <1>0, <2>3 DEF LinkStates
      <4> QED
        BY <4>1, <4>2
    <3> QED
      BY <1>2, <3>1, <3>2, <3>3 DEF Admission
  <2>5. \A k \in Links : link'[k] = link[k] \/ (link'[k].as = None /\ link[k].as = None)
    BY <1>0, <2>3, <2>4
  <2> QED
    BY <1>1, <2>1, <2>5
<1>3. ASSUME NEW l \in Links, AtClient(l) \/ Finish(l) PROVE Goal
  <2>1. UNCHANGED <<relay, overtaken, link>>
    BY <1>3 DEF AtClient, Send, Receive, TimesOut, Leave, Finish, relayVars
  <2> QED
    BY <1>1, <2>1
<1>4. ASSUME NEW l \in Links, Authenticate(l), Me(l) = None PROVE Goal
  <2>1. PICK b \in Accounts : b = Target(l)
    BY <1>4, Targets DEF Authenticate
  <2>2. /\ link' = [link EXCEPT ![l].as = b] /\ relay' = SignedIn(b, l)
        /\ overtaken' = overtaken \ {b} /\ link[l].phase = "open" /\ link[l].as = None
    BY <1>4, <2>1 DEF Authenticate, Handles, Me
  <2>3. /\ link'[l].as = b /\ link'[l].phase = "open"
        /\ \A k \in Links \ {l} : link'[k] = link[k]
    BY <1>0, <2>2 DEF LinkStates
  <2>4. SignedInInv'
    BY <2>3 DEF SignedInInv
  <2>5. /\ relay'.connections = [relay.connections EXCEPT ![b] = l]
        /\ relay'.presence = [relay.presence EXCEPT ![b] = "Online"]
    BY <1>0, <2>2 DEF SignedIn, RelayStates
  <2>6. ASSUME NEW a \in Accounts, a # b PROVE PresenceOf(a)'
    <3>1. LinksOf(a)' = LinksOf(a)
      BY <1>0, <2>2, <2>3, <2>6 DEF LinksOf
    <3>2. relay'.connections[a] = relay.connections[a] /\ relay'.presence[a] = relay.presence[a]
      BY <1>0, <2>5, <2>6 DEF RelayStates
    <3>3. a \in overtaken' <=> a \in overtaken
      BY <2>2, <2>6
    <3> QED
      BY <1>0, <3>1, <3>2, <3>3, PresenceSame
  <2>7. PresenceOf(b)'
    <3>1. relay'.connections[b] = l /\ relay'.presence[b] = "Online"
      BY <1>0, <2>1, <2>5 DEF RelayStates
    <3>2. l \in LinksOf(b)'
      BY <2>3 DEF LinksOf
    <3>3. l # None
      BY NamesAssumption
    <3> QED
      BY <3>1, <3>2, <3>3 DEF PresenceOf, Connected
  <2>8. \A a \in Accounts : PresenceOf(a)'
    BY <2>6, <2>7
  <2> QED
    BY <2>4, <2>8
<1>5. ASSUME NEW l \in Links, Announce(l), Me(l) # None PROVE Goal
  <2>1. PICK b \in Accounts : b = Me(l)
    BY <1>0, <1>5 DEF Me, LinkStates
  <2>2. /\ relay' = [relay EXCEPT !.presence[b] = Target(l)]
        /\ UNCHANGED <<link, overtaken>> /\ Target(l) \in {"Online", "Away"}
        /\ link[l].phase = "open" /\ link[l].as = b
    BY <1>5, <2>1, Targets DEF Announce, Handles, Me
  <2>3. /\ relay'.connections = relay.connections
        /\ relay'.presence = [relay.presence EXCEPT ![b] = Target(l)]
    BY <1>0, <2>2 DEF RelayStates
  <2>4. \A a \in Accounts : LinksOf(a)' = LinksOf(a)
    BY <2>2 DEF LinksOf
  <2>5. ASSUME NEW a \in Accounts, a # b PROVE PresenceOf(a)'
    <3>1. relay'.presence[a] = relay.presence[a]
      BY <1>0, <2>3, <2>5 DEF RelayStates
    <3> QED
      BY <1>0, <2>2, <2>3, <2>4, <3>1, PresenceSame
  <2>6. PresenceOf(b)'
    <3>1. relay'.presence[b] \in {"Online", "Away"}
      BY <1>0, <2>2, <2>3 DEF RelayStates
    <3>2. l \in LinksOf(b) /\ LinksOf(b)' = LinksOf(b)
      BY <2>2, <2>4 DEF LinksOf
    <3>3. PresenceOf(b)
      BY <1>0
    <3> QED
      BY <2>2, <2>3, <3>1, <3>2, <3>3 DEF PresenceOf, Connected
  <2>7. SignedInInv'
    BY <2>2 DEF SignedInInv
  <2>8. \A a \in Accounts : PresenceOf(a)'
    BY <2>5, <2>6
  <2> QED
    BY <2>7, <2>8
<1>6. ASSUME NEW l \in Links, Handling(l), ~(Authenticate(l) /\ Me(l) = None),
             ~(Announce(l) /\ Me(l) # None)
      PROVE  Goal
  <2>1. link' = link /\ overtaken' = overtaken
    BY <1>6 DEF Handling, Authenticate, Publish, Fetch, Announce, Subscribe, Rendezvous, Oversized,
                Mailbox, relayVars
  <2>2. relay'.connections = relay.connections /\ relay'.presence = relay.presence
    <3>1. CASE Publish(l) \/ Fetch(l) \/ Subscribe(l)
      BY <1>0, <3>1 DEF Publish, Fetch, Subscribe, RelayStates
    <3>2. CASE relay' = relay
      BY <3>2
    <3>3. Publish(l) \/ Fetch(l) \/ Subscribe(l) \/ relay' = relay
      BY <1>6 DEF Handling, Authenticate, Announce, Rendezvous, Oversized, Mailbox, relayVars
    <3> QED
      BY <3>1, <3>2, <3>3
  <2>3. \A a \in Accounts : LinksOf(a)' = LinksOf(a)
    BY <2>1 DEF LinksOf
  <2>4. SignedInInv'
    BY <2>1 DEF SignedInInv
  <2> QED
    BY <1>0, <2>1, <2>2, <2>3, <2>4, PresenceSame
<1>7. ASSUME NEW l \in Links, Close(l) PROVE Goal
  <2>1. link[l].phase = "open" /\ link' = [link EXCEPT ![l].phase = "closing"]
    BY <1>7 DEF Close
  <2>2. /\ link'[l].phase = "closing" /\ link'[l].as = link[l].as
        /\ \A k \in Links \ {l} : link'[k] = link[k]
    BY <1>0, <2>1 DEF LinkStates
  <2>3. SignedInInv'
    BY <2>2 DEF SignedInInv
  <2>4. CASE Me(l) = None
    <3>1. UNCHANGED <<relay, overtaken>>
      BY <1>7, <2>4 DEF Close, relayVars
    <3>2. \A a \in Accounts : LinksOf(a)' = LinksOf(a)
      BY <1>0, <2>2, <2>4 DEF LinksOf, Me
    <3> QED
      BY <1>0, <2>3, <3>1, <3>2, PresenceSame
  <2>5. CASE Me(l) # None
    <3>0. PICK b \in Accounts : b = Me(l)
      BY <1>0, <2>5 DEF Me, LinkStates
    <3>1. /\ link[l].as = b /\ relay' = SignedOut(b)
          /\ overtaken' = IF LinksOf(b) = {l} THEN overtaken \ {b} ELSE overtaken \union {b}
      BY <1>7, <2>5, <3>0 DEF Close, Me
    <3>2. /\ relay'.connections = [relay.connections EXCEPT ![b] = None]
          /\ relay'.presence = [relay.presence EXCEPT ![b] = "Offline"]
      BY <1>0, <3>1 DEF SignedOut, RelayStates
    <3>3. ASSUME NEW a \in Accounts, a # b PROVE PresenceOf(a)'
      <4>1. LinksOf(a)' = LinksOf(a)
        BY <2>2, <3>1, <3>3 DEF LinksOf
      <4>2. relay'.connections[a] = relay.connections[a] /\ relay'.presence[a] = relay.presence[a]
        BY <1>0, <3>2, <3>3 DEF RelayStates
      <4>3. a \in overtaken' <=> a \in overtaken
        BY <3>1, <3>3
      <4> QED
        BY <1>0, <4>1, <4>2, <4>3, PresenceSame
    <3>4. PresenceOf(b)'
      <4>1. relay'.connections[b] = None /\ relay'.presence[b] = "Offline"
        BY <1>0, <3>1, <3>2 DEF RelayStates
      <4>2. LinksOf(b)' = LinksOf(b) \ {l}
        BY <2>2, <3>1 DEF LinksOf
      <4>3. b \notin overtaken' => LinksOf(b)' = {}
        BY <3>1, <4>2
      <4> QED
        BY <4>1, <4>3 DEF PresenceOf, Connected
    <3>5. \A a \in Accounts : PresenceOf(a)'
      BY <3>3, <3>4
    <3> QED
      BY <2>3, <3>5
  <2> QED
    BY <2>4, <2>5
<1>8. ASSUME NEW l \in Links, Ended(l) PROVE Goal
  <2>1. link[l].phase = "closing" /\ link' = [link EXCEPT ![l] = Over] /\ UNCHANGED <<relay, overtaken>>
    BY <1>8 DEF Ended, relayVars
  <2>2. link'[l].phase = "ended" /\ link'[l].as = None /\ \A k \in Links \ {l} : link'[k] = link[k]
    BY <1>0, <2>1 DEF Over
  <2>3. SignedInInv'
    BY <2>2 DEF SignedInInv
  <2>4. \A a \in Accounts : LinksOf(a)' = LinksOf(a)
    BY <2>1, <2>2 DEF LinksOf
  <2> QED
    BY <1>0, <2>1, <2>3, <2>4, PresenceSame
<1>9. ASSUME Sweep PROVE Goal
  <2>1. relay' = Pruned /\ UNCHANGED <<link, overtaken>>
    BY <1>9 DEF Sweep
  <2>2. /\ relay'.connections = relay.connections
        /\ \A a \in Accounts : relay'.presence[a] = IF relay.presence[a] = "Offline" /\ ~Durable(a)
                                                    THEN None ELSE relay.presence[a]
    BY <1>0, <2>1 DEF Pruned, RelayStates
  <2>3. ASSUME NEW a \in Accounts PROVE PresenceOf(a)'
    <3>1. relay'.presence[a] \in {"Online", "Away"} <=> relay.presence[a] \in {"Online", "Away"}
      BY <2>2, NamesAssumption
    <3>2. LinksOf(a)' = LinksOf(a)
      BY <2>1 DEF LinksOf
    <3> QED
      BY <1>0, <2>1, <2>2, <3>1, <3>2, PresenceSame
  <2>4. SignedInInv'
    BY <2>1 DEF SignedInInv
  <2> QED
    BY <2>3, <2>4
<1>10. ASSUME Tick PROVE Goal
  <2>1. UNCHANGED <<relay, overtaken, link>>
    BY <1>10 DEF Tick, relayVars
  <2> QED
    BY <1>1, <2>1
<1>11. Goal
  BY <1>2, <1>3, <1>4, <1>5, <1>6, <1>7, <1>8, <1>9, <1>10, StepKinds DEF Ending
<1>12. (\A a \in Accounts : PresenceOf(a)') => PresenceIsTrue'
  BY DEF PresenceIsTrue, PresenceOf
<1> QED
  BY <1>11, <1>12


-----------------------------------------------------------------------------
(* One request at a time: what a push, an answer or a frame taken from the *)
(* queue does to the answers in it, and then the steps.                    *)
SameAnswers(new, old) ==
    AnswersIn(new) = AnswersIn(old) /\ \A i \in AnswersIn(old) : new[i] = old[i]

Settled(l) ==
    /\ client[l].left => client[l].lost
    /\ client[l].plain /\ ~client[l].lost => Exchange(l)

LEMMA PushAdded ==
    ASSUME NEW s \in Seq(Frames), NEW f \in PushFrames
    PROVE  SameAnswers(Append(s, f), s) /\ Append(s, f) \in Seq(Frames)
<1>1. f \in Frames /\ IsPush(f)
  BY DEF Frames, PushFrames, IsPush
<1>2. /\ Append(s, f) \in Seq(Frames) /\ Len(Append(s, f)) = Len(s) + 1 /\ Len(s) \in Nat
      /\ \A i \in 1 .. Len(s) : Append(s, f)[i] = s[i]
      /\ Append(s, f)[Len(s) + 1] = f
  BY <1>1, AppendProperties, LenProperties
<1>3. DOMAIN s = 1 .. Len(s) /\ DOMAIN Append(s, f) = 1 .. (Len(s) + 1)
  BY <1>2, LenProperties
<1> QED
  BY <1>1, <1>2, <1>3 DEF SameAnswers, AnswersIn

LEMMA MaybePushed ==
    ASSUME NEW s \in Seq(Frames), NEW t \in {s} \union {Append(s, f) : f \in PushFrames}
    PROVE  SameAnswers(t, s) /\ t \in Seq(Frames)
<1>1. CASE t = s
  BY <1>1 DEF SameAnswers
<1>2. CASE t # s
  <2>1. PICK f \in PushFrames : t = Append(s, f)
    BY <1>2
  <2> QED
    BY <2>1, PushAdded
<1> QED
  BY <1>1, <1>2

LEMMA AnswerAdded ==
    ASSUME NEW s \in Seq(Frames), NEW n \in Nat, AnswersIn(s) = {}
    PROVE  /\ Append(s, Answer(n)) \in Seq(Frames)
           /\ \A i, j \in AnswersIn(Append(s, Answer(n))) : i = j /\ Append(s, Answer(n))[i].of = n
<1> DEFINE f == Answer(n)
<1>1. f \in Frames /\ f.of = n
  BY FrameKinds DEF Answer
<1> HIDE DEF f
<1>2. /\ Append(s, f) \in Seq(Frames) /\ Len(Append(s, f)) = Len(s) + 1 /\ Len(s) \in Nat
      /\ \A i \in 1 .. Len(s) : Append(s, f)[i] = s[i]
      /\ Append(s, f)[Len(s) + 1] = f
  BY <1>1, AppendProperties, LenProperties
<1>3. DOMAIN s = 1 .. Len(s) /\ DOMAIN Append(s, f) = 1 .. (Len(s) + 1)
  BY <1>2, LenProperties
<1>4. \A i \in AnswersIn(Append(s, f)) : i = Len(s) + 1
  BY <1>2, <1>3 DEF AnswersIn
<1> QED
  BY <1>1, <1>2, <1>4 DEF f

LEMMA FrameTaken ==
    ASSUME NEW s \in Seq(Frames), s # <<>>
    PROVE  /\ \A i \in AnswersIn(Tail(s)) : i + 1 \in AnswersIn(s) /\ Tail(s)[i] = s[i + 1] /\ i \in Nat /\ i > 0
           /\ ~IsPush(Head(s)) => 1 \in AnswersIn(s)
<1>1. /\ Tail(s) \in Seq(Frames) /\ Len(Tail(s)) = Len(s) - 1 /\ Head(s) = s[1]
      /\ \A i \in 1 .. Len(Tail(s)) : Tail(s)[i] = s[i + 1]
      /\ Len(s) \in Nat /\ Len(s) > 0
  BY HeadTailProperties, LenProperties, EmptySeq
<1>2. DOMAIN s = 1 .. Len(s) /\ DOMAIN Tail(s) = 1 .. (Len(s) - 1)
  BY <1>1, LenProperties
<1> QED
  BY <1>1, <1>2 DEF AnswersIn

(* A connection whose client, request, answers and handler a step leaves.  *)
LEMMA Undisturbed ==
    ASSUME NEW k \in Links, Settled(k), client'[k] = client[k], request'[k] = request[k],
           job'[k].answer = job[k].answer, SameAnswers(out'[k], out[k]),
           link'[k].phase \in {"unused", "upgrading"} => link[k].phase \in {"unused", "upgrading"}
    PROVE  Settled(k)'
<1>1. CASE ~(client[k].plain /\ ~client[k].lost)
  BY <1>1 DEF Settled
<1>2. CASE client[k].plain /\ ~client[k].lost
  <2>1. Exchange(k)
    BY <1>2 DEF Settled
  <2>2. Exchange(k)'
    BY <2>1 DEF Exchange, SameAnswers
  <2> QED
    BY <1>2, <2>2 DEF Settled
<1> QED
  BY <1>1, <1>2


LEMMA ExchangeAtClient ==
    ASSUME Typed, NEW l \in Links, Settled(l), AtClient(l)
    PROVE  Settled(l)'
<1> DEFINE c == client[l]
<1>0. /\ link \in [Links -> LinkStates] /\ client \in [Links -> ClientStates] /\ c \in ClientStates
      /\ request \in [Links -> RequestFrames \union {None}] /\ out \in [Links -> Seq(Frames)]
      /\ job \in [Links -> Jobs \union {NoJob}] /\ c.sent \in Nat
  BY DEF Typed, Frames, ClientStates
<1>1. ASSUME NEW r \in Requests, Send(l, r[1], r[2]) PROVE Settled(l)'
  <2> DEFINE w == r[1] \notin Unanswered
             state == [c EXCEPT !.sent = @ + 1, !.waiting = w, !.plain = @ /\ w]
             asked == [n |-> c.sent + 1, kind |-> r[1], target |-> r[2]]
  <2>1. /\ client' = [client EXCEPT ![l].sent = @ + 1, ![l].waiting = w, ![l].plain = @ /\ w]
        /\ request' = [request EXCEPT ![l] = asked] /\ UNCHANGED <<link, out, job>>
        /\ link[l].phase = "open" /\ ~c.waiting /\ ~c.lost /\ ~c.left /\ request[l] = None
    BY <1>1 DEF Send, Usable
  <2>2. client'[l] = state
    BY <1>0, <2>1
  <2>3. /\ state.sent = c.sent + 1 /\ state.waiting = w /\ state.plain = (c.plain /\ w)
        /\ state.lost = c.lost /\ state.left = c.left
    BY <1>0 DEF ClientStates
  <2>4. request'[l] = asked /\ asked.n = c.sent + 1 /\ asked.kind = r[1]
    BY <1>0, <2>1
  <2> HIDE DEF state, asked
  <2>5. CASE c.plain /\ w
    <3>1. job[l].answer = None /\ AnswersIn(out[l]) = {}
      BY <2>1, <2>5 DEF Settled, Exchange
    <3>2. Exchange(l)'
      BY <2>1, <2>2, <2>3, <2>4, <2>5, <3>1 DEF Exchange
    <3> QED
      BY <2>1, <2>2, <2>3, <3>2 DEF Settled
  <2>6. CASE ~(c.plain /\ w)
    BY <2>1, <2>2, <2>3, <2>6 DEF Settled
  <2> QED
    BY <2>5, <2>6
<1>2. ASSUME Receive(l) PROVE Settled(l)'
  <2> DEFINE w == IsPush(Head(out[l]))
             state == [c EXCEPT !.waiting = w]
             rest == Tail(out[l])
  <2>1. /\ client' = [client EXCEPT ![l].waiting = w] /\ out' = [out EXCEPT ![l] = rest]
        /\ UNCHANGED <<link, request, job>> /\ c.waiting /\ ~c.lost /\ ~c.left /\ out[l] # <<>>
    BY <1>2 DEF Receive, Usable
  <2>2. client'[l] = state /\ out'[l] = rest
    BY <1>0, <2>1
  <2>3. /\ state.sent = c.sent /\ state.waiting = w /\ state.plain = c.plain
        /\ state.lost = c.lost /\ state.left = c.left
    BY <1>0 DEF ClientStates
  <2>4. /\ \A i \in AnswersIn(rest) : /\ i + 1 \in AnswersIn(out[l]) /\ rest[i] = out[l][i + 1]
                                      /\ i \in Nat /\ i > 0
        /\ ~w => 1 \in AnswersIn(out[l])
    <3>1. out[l] \in Seq(Frames)
      BY <1>0
    <3> QED
      BY <2>1, <3>1, FrameTaken
  <2> HIDE DEF state, rest, w
  <2>5. CASE c.plain
    <3>1. Exchange(l)
      BY <2>1, <2>5 DEF Settled
    <3>2. link[l].phase \notin {"unused", "upgrading"}
      BY <2>1, <3>1 DEF Exchange
    <3>3. \A i, j \in AnswersIn(rest) : i = j /\ rest[i].of = c.sent
      <4>1. ASSUME NEW i \in AnswersIn(rest), NEW j \in AnswersIn(rest)
            PROVE  i = j /\ rest[i].of = c.sent
        <5>1. i + 1 = j + 1 /\ out[l][i + 1].of = c.sent
          BY <2>4, <3>1 DEF Exchange
        <5> QED
          BY <2>4, <5>1
      <4> QED
        BY <4>1
    <3>4. CASE w
      <4>1. AnswersIn(rest) # {} => AnswersIn(out[l]) # {}
        BY <2>4
      <4> QED
        BY <2>1, <2>2, <2>3, <2>5, <3>1, <3>2, <3>3, <3>4, <4>1 DEF Settled, Exchange
    <3>5. CASE ~w
      <4>1. 1 \in AnswersIn(out[l]) /\ request[l] = None /\ job[l].answer = None
        BY <2>4, <3>1, <3>5 DEF Exchange
      <4>2. AnswersIn(rest) = {}
        <5>1. ASSUME NEW i \in AnswersIn(rest) PROVE FALSE
          <6>1. i + 1 = 1
            BY <2>4, <3>1, <4>1 DEF Exchange
          <6> QED
            BY <2>4, <6>1
        <5> QED
          BY <5>1
      <4> QED
        BY <2>1, <2>2, <2>3, <2>5, <3>2, <3>5, <4>1, <4>2 DEF Settled, Exchange
    <3> QED
      BY <3>4, <3>5
  <2>6. CASE ~c.plain
    BY <2>1, <2>2, <2>3, <2>6 DEF Settled
  <2> QED
    BY <2>5, <2>6
<1>3. ASSUME TimesOut(l) \/ Leave(l) PROVE Settled(l)'
  <2>1. CASE TimesOut(l)
    <3>1. client' = [client EXCEPT ![l] = [c EXCEPT !.waiting = FALSE, !.lost = TRUE]]
      BY <2>1 DEF TimesOut, GaveUp
    <3>2. client'[l].lost = TRUE
      BY <1>0, <3>1 DEF ClientStates
    <3> QED
      BY <3>2 DEF Settled
  <2>2. CASE Leave(l)
    <3>1. client'[l].lost = TRUE
      BY <1>0, <2>2 DEF Leave
    <3> QED
      BY <3>1 DEF Settled
  <2> QED
    BY <1>3, <2>1, <2>2
<1> QED
  BY <1>1, <1>2, <1>3 DEF AtClient

LEMMA ExchangeHandled ==
    ASSUME Typed, NEW l \in Links, Settled(l), Handling(l), link'[l].phase = link[l].phase
    PROVE  Settled(l)'
<1>0. /\ request \in [Links -> RequestFrames \union {None}] /\ job \in [Links -> Jobs \union {NoJob}]
      /\ Queues(out) /\ out[l] \in Seq(Frames) /\ NoJob.answer = None
  BY OutIsQueues DEF Typed, Queues, NoJob, Job
<1>1. CASE ~(client[l].plain /\ ~client[l].lost)
  BY <1>1, HandlerLeaves DEF Settled
<1>2. CASE client[l].plain /\ ~client[l].lost
  <2> DEFINE n == request[l].n
  <2>1. Exchange(l) /\ client' = client /\ link'[l].phase = "open" /\ request[l] # None /\ n \in Nat
    BY <1>2, HandlerLeaves DEF Settled
  <2>2. /\ n = client[l].sent /\ request[l].kind \notin Unanswered /\ client[l].waiting
        /\ AnswersIn(out[l]) = {} /\ job[l].answer = None
    BY <2>1 DEF Exchange
  <2>3. request'[l] = None
    BY <1>0, HandlerLeaves
  <2>4. CASE job' = job /\ out' = Pushed(out, l, Answer(n))
    <3>1. Answer(n) \in Frames
      BY <2>1, FrameKinds
    <3>2. out'[l] \in {out[l], Append(out[l], Answer(n))}
      BY <1>0, <2>4, <3>1, PushedQueues
    <3>3. \A i, j \in AnswersIn(out'[l]) : i = j /\ out'[l][i].of = n
      <4>1. CASE out'[l] = out[l]
        BY <2>2, <4>1
      <4>2. CASE out'[l] = Append(out[l], Answer(n))
        <5>1. \A i, j \in AnswersIn(Append(out[l], Answer(n))) :
                i = j /\ Append(out[l], Answer(n))[i].of = n
          BY <1>0, <2>1, <2>2, AnswerAdded
        <5> QED
          BY <4>2, <5>1
      <4> QED
        BY <3>2, <4>1, <4>2
    <3>4. Exchange(l)'
      BY <2>1, <2>2, <2>3, <2>4, <3>3 DEF Exchange
    <3> QED
      BY <2>1, <3>4 DEF Settled
  <2>5. ASSUME NEW work \in Jobs, work.answer = n, job' = [job EXCEPT ![l] = work], out' = out
        PROVE  Settled(l)'
    <3>1. job'[l] = work
      BY <1>0, <2>5
    <3>2. Exchange(l)'
      BY <2>1, <2>2, <2>3, <2>5, <3>1 DEF Exchange
    <3> QED
      BY <2>1, <3>2 DEF Settled
  <2> QED
    BY <2>2, <2>4, <2>5, HandlerLeaves
<1> QED
  BY <1>1, <1>2

LEMMA ExchangeFinished ==
    ASSUME Typed, ExchangeInv, NEW l \in Links, NEW k \in Links, Finish(l)
    PROVE  Settled(k)'
<1> DEFINE a == job[l].answer
<1>0. /\ job \in [Links -> Jobs \union {NoJob}] /\ Queues(out) /\ out[k] \in Seq(Frames)
      /\ NoJob.answer = None /\ Settled(k)
  BY OutIsQueues DEF Typed, Queues, NoJob, Job, ExchangeInv, Settled
<1>1. UNCHANGED <<link, client, request>> /\ job[l] \in Jobs /\ job' = [job EXCEPT ![l] = NoJob]
  BY FinishSends
<1>2. PICK first \in {out[k]} \union {Append(out[k], f) : f \in PushFrames} :
        \E second \in {first} \union (IF k = l /\ a # None
                                      THEN {Append(first, Answer(a))} ELSE {}) :
          out'[k] \in {second} \union {Append(second, f) : f \in PushFrames}
  BY FinishSends
<1>3. PICK second \in {first} \union (IF k = l /\ a # None THEN {Append(first, Answer(a))} ELSE {}) :
        out'[k] \in {second} \union {Append(second, f) : f \in PushFrames}
  BY <1>2
<1>4. first \in Seq(Frames) /\ SameAnswers(first, out[k])
  BY <1>0, <1>2, MaybePushed
<1>5. CASE second = first
  <2>1. SameAnswers(out'[k], second)
    BY <1>3, <1>4, <1>5, MaybePushed
  <2>2. SameAnswers(out'[k], out[k])
    BY <1>4, <1>5, <2>1 DEF SameAnswers
  <2>3. CASE k # l \/ a = None
    <3>1. job'[k].answer = job[k].answer
      BY <1>0, <1>1, <2>3
    <3> QED
      BY <1>0, <1>1, <2>2, <3>1, Undisturbed
  <2>4. CASE k = l /\ a # None /\ ~(client[k].plain /\ ~client[k].lost)
    BY <1>0, <1>1, <2>4 DEF Settled
  <2>5. CASE k = l /\ a # None /\ client[k].plain /\ ~client[k].lost
    <3>1. Exchange(k)
      BY <1>0, <2>5 DEF Settled
    <3>2. client[k].waiting /\ request[k] = None /\ AnswersIn(out[k]) = {}
          /\ link[k].phase \notin {"unused", "upgrading"}
      BY <2>5, <3>1 DEF Exchange
    <3>3. AnswersIn(out'[k]) = {} /\ job'[k].answer = None
      BY <1>0, <1>1, <2>2, <2>5, <3>2 DEF SameAnswers
    <3>4. Exchange(k)'
      BY <1>1, <3>2, <3>3 DEF Exchange
    <3> QED
      BY <1>0, <1>1, <3>4 DEF Settled
  <2> QED
    BY <2>3, <2>4, <2>5
<1>6. CASE second # first
  <2>1. k = l /\ a # None /\ second = Append(first, Answer(a)) /\ a \in Nat
    BY <1>1, <1>3, <1>6 DEF Jobs
  <2>2. CASE ~(client[k].plain /\ ~client[k].lost)
    BY <1>0, <1>1, <2>2 DEF Settled
  <2>3. CASE client[k].plain /\ ~client[k].lost
    <3>1. Exchange(k)
      BY <1>0, <2>3 DEF Settled
    <3>2. /\ client[k].waiting /\ request[k] = None /\ AnswersIn(out[k]) = {} /\ a = client[k].sent
          /\ link[k].phase \notin {"unused", "upgrading"}
      BY <2>1, <3>1 DEF Exchange
    <3>3. AnswersIn(first) = {}
      BY <1>4, <3>2 DEF SameAnswers
    <3>4. /\ second \in Seq(Frames)
          /\ \A i, j \in AnswersIn(second) : i = j /\ second[i].of = a
      BY <1>4, <2>1, <3>3, AnswerAdded
    <3>5. SameAnswers(out'[k], second)
      BY <1>3, <3>4, MaybePushed
    <3>6. \A i, j \in AnswersIn(out'[k]) : i = j /\ out'[k][i].of = a
      BY <3>4, <3>5 DEF SameAnswers
    <3>7. job'[k].answer = None
      BY <1>0, <1>1, <2>1
    <3>8. Exchange(k)'
      BY <1>1, <3>2, <3>6, <3>7 DEF Exchange
    <3> QED
      BY <1>0, <1>1, <3>8 DEF Settled
  <2> QED
    BY <2>2, <2>3
<1> QED
  BY <1>5, <1>6


LEMMA ExchangeAdmitted ==
    ASSUME Typed, NEW l \in Links, Settled(l), Admission(l)
    PROVE  Settled(l)'
<1>0. /\ link \in [Links -> LinkStates] /\ client \in [Links -> ClientStates] /\ Queues(out)
      /\ out[l] \in Seq(Frames) /\ client[l] \in ClientStates
  BY OutIsQueues DEF Typed, Queues
<1>1. UNCHANGED <<job, request>>
  BY DEF Admission, Arrive, UpgradeFails, Open
<1>2. CASE Arrive(l) \/ UpgradeFails(l)
  <2>1. UNCHANGED <<client, out>> /\ link[l].phase \in {"unused", "upgrading"}
    BY <1>2 DEF Arrive, UpgradeFails
  <2>2. SameAnswers(out'[l], out[l])
    BY <2>1 DEF SameAnswers
  <2> QED
    BY <1>1, <2>1, <2>2, Undisturbed
<1>3. CASE Open(l)
  <2> DEFINE state == [client[l] EXCEPT !.waiting = TRUE]
  <2>1. /\ client' = [client EXCEPT ![l] = state] /\ out' = Pushed(out, l, Answer(0))
        /\ link[l].phase = "upgrading" /\ link' = [link EXCEPT ![l].phase = "open"]
    BY <1>3 DEF Open, Challenged
  <2>2. /\ state.waiting = TRUE /\ state.lost = client[l].lost /\ state.left = client[l].left
        /\ state.plain = client[l].plain /\ state.sent = client[l].sent
    BY <1>0 DEF ClientStates
  <2>3. client'[l] = state /\ link'[l].phase = "open"
    BY <1>0, <2>1 DEF LinkStates
  <2> HIDE DEF state
  <2>4. CASE ~(client[l].plain /\ ~client[l].lost)
    BY <2>2, <2>3, <2>4 DEF Settled
  <2>5. CASE client[l].plain /\ ~client[l].lost
    <3>1. /\ client[l].sent = 0 /\ request[l] = None /\ job[l].answer = None
          /\ AnswersIn(out[l]) = {}
      BY <2>1, <2>5 DEF Settled, Exchange
    <3>2. Answer(0) \in Frames
      BY FrameKinds
    <3>3. out'[l] \in {out[l], Append(out[l], Answer(0))}
      BY <1>0, <2>1, <3>2, PushedQueues
    <3>4. \A i, j \in AnswersIn(Append(out[l], Answer(0))) :
            i = j /\ Append(out[l], Answer(0))[i].of = 0
      <4>1. out[l] \in Seq(Frames) /\ 0 \in Nat /\ AnswersIn(out[l]) = {}
        BY <1>0, <3>1
      <4> QED
        BY <4>1, AnswerAdded, Zenon
    <3>5. \A i, j \in AnswersIn(out'[l]) : i = j /\ out'[l][i].of = 0
      BY <3>1, <3>3, <3>4
    <3>6. Exchange(l)'
      BY <1>1, <2>2, <2>3, <3>1, <3>5 DEF Exchange
    <3> QED
      BY <2>2, <2>3, <2>5, <3>6 DEF Settled
  <2> QED
    BY <2>4, <2>5
<1> QED
  BY <1>2, <1>3 DEF Admission

(* What a step of one connection leaves of the others' exchanges.          *)
LEMMA OthersExchanges ==
    ASSUME Typed, NEW l \in Links, NEW k \in Links, k # l,
           Admission(l) \/ AtClient(l) \/ Handling(l) \/ Ending(l)
    PROVE  /\ client'[k] = client[k] /\ request'[k] = request[k]
           /\ job'[k].answer = job[k].answer /\ out'[k] = out[k]
<1>0. /\ client \in [Links -> ClientStates] /\ request \in [Links -> RequestFrames \union {None}]
      /\ out \in [Links -> Seq(Frames)] /\ job \in [Links -> Jobs \union {NoJob}] /\ Queues(out)
  BY OutIsQueues DEF Typed, Queues
<1>1. CASE Admission(l)
  <2>1. UNCHANGED <<request, job>> /\ (client' = client \/ Open(l))
    BY <1>1 DEF Admission, Arrive, UpgradeFails, Open
  <2>2. client'[k] = client[k]
    BY <1>0, <2>1 DEF Open
  <2>3. out' = out \/ out' = Pushed(out, l, Answer(0))
    BY <1>1 DEF Admission, Arrive, UpgradeFails, Open
  <2>4. out'[k] = out[k]
    BY <1>0, <2>3, FrameKinds, PushedQueues
  <2> QED
    BY <2>1, <2>2, <2>4
<1>2. CASE AtClient(l)
  <2>1. ASSUME NEW r \in Requests, Send(l, r[1], r[2])
        PROVE  client'[k] = client[k] /\ request'[k] = request[k] /\ UNCHANGED <<job, out>>
    BY <1>0, <2>1 DEF Send
  <2>2. CASE Receive(l) \/ TimesOut(l) \/ Leave(l)
    <3>1. UNCHANGED <<job, request>>
      BY <2>2 DEF Receive, TimesOut, Leave
    <3>2. client'[k] = client[k] /\ out'[k] = out[k]
      BY <1>0, <2>2 DEF Receive, TimesOut, Leave
    <3> QED
      BY <3>1, <3>2
  <2> QED
    BY <1>2, <2>1, <2>2 DEF AtClient
<1>3. CASE Handling(l)
  <2> DEFINE n == request[l].n
  <2>1. n \in Nat /\ client' = client /\ request' = [request EXCEPT ![l] = None]
    BY <1>3, HandlerLeaves
  <2>2. Answer(n) \in Frames
    BY <2>1, FrameKinds
  <2>3. out' = out \/ out' = Pushed(out, l, Answer(n))
    BY <1>3, HandlerLeaves
  <2>4. out'[k] = out[k]
    BY <1>0, <2>2, <2>3, PushedQueues
  <2>5. job' = job \/ \E work \in Jobs : job' = [job EXCEPT ![l] = work]
    BY <1>3, HandlerLeaves
  <2> QED
    BY <1>0, <2>1, <2>4, <2>5
<1>4. CASE Ending(l)
  <2>1. UNCHANGED <<client, request, out>>
    BY <1>4 DEF Ending, Close, Ended
  <2>2. job'[k] = job[k]
    BY <1>0, <1>4 DEF Ending, Close, Ended
  <2> QED
    BY <2>1, <2>2
<1> QED
  BY <1>1, <1>2, <1>3, <1>4

(* No step takes a connection back to before its upgrade.                  *)
LEMMA PhasesAdvance ==
    ASSUME Typed, Next, NEW k \in Links, link'[k].phase \in {"unused", "upgrading"}
    PROVE  link[k].phase \in {"unused", "upgrading"}
<1>0. link \in [Links -> LinkStates]
  BY DEF Typed
<1>1. ASSUME NEW l \in Links, Admission(l) PROVE link[k].phase \in {"unused", "upgrading"}
  <2>1. link[l].phase \in {"unused", "upgrading"}
    BY <1>1 DEF Admission, Arrive, UpgradeFails, Open
  <2>2. k # l => link'[k] = link[k]
    <3>1. CASE Arrive(l)
      <4>1. PICK state : link' = [link EXCEPT ![l] = state]
        BY <3>1, Arrives
      <4> QED
        BY <1>0, <4>1
    <3>2. CASE UpgradeFails(l) \/ Open(l)
      BY <1>0, <3>2 DEF UpgradeFails, Open
    <3> QED
      BY <1>1, <3>1, <3>2 DEF Admission
  <2> QED
    BY <2>1, <2>2
<1>2. ASSUME NEW l \in Links, AtClient(l) \/ Finish(l) PROVE link' = link
  BY <1>2 DEF AtClient, Send, Receive, TimesOut, Leave, Finish
<1>3. ASSUME NEW l \in Links, Handling(l) PROVE \A j \in Links : link'[j].phase = link[j].phase
  <2>1. link' = link \/ link' = [link EXCEPT ![l].as = Target(l)]
    BY <1>3 DEF Handling, Authenticate, Publish, Fetch, Announce, Subscribe, Rendezvous, Oversized,
                Mailbox
  <2> QED
    BY <1>0, <2>1 DEF LinkStates
<1>4. ASSUME NEW l \in Links, Ending(l) PROVE link'[k] = link[k] \/ link'[k].phase \in {"closing", "ended"}
  BY <1>0, <1>4 DEF Ending, Close, Ended, Over, LinkStates
<1>5. CASE Sweep \/ Tick
  BY <1>5 DEF Sweep, Tick
<1> QED
  BY <1>1, <1>2, <1>3, <1>4, <1>5, StepKinds

LEMMA ExchangeSteps ==
    ASSUME Typed, ExchangeInv, Next
    PROVE  ExchangeInv'
<1>1. ASSUME NEW k \in Links PROVE Settled(k)'
  <2>0. Settled(k)
    BY DEF ExchangeInv, Settled
  <2>1. link'[k].phase \in {"unused", "upgrading"} => link[k].phase \in {"unused", "upgrading"}
    BY PhasesAdvance
  <2>2. ASSUME NEW l \in Links, Admission(l) \/ AtClient(l) \/ Handling(l) \/ Ending(l), k # l
        PROVE  Settled(k)'
    <3>1. /\ client'[k] = client[k] /\ request'[k] = request[k]
          /\ job'[k].answer = job[k].answer /\ out'[k] = out[k]
      BY <2>2, OthersExchanges
    <3>2. SameAnswers(out'[k], out[k])
      BY <3>1 DEF SameAnswers
    <3> QED
      BY <2>0, <2>1, <3>1, <3>2, Undisturbed
  <2>3. CASE Admission(k)
    BY <2>0, <2>3, ExchangeAdmitted
  <2>4. CASE AtClient(k)
    BY <2>0, <2>4, ExchangeAtClient
  <2>5. CASE Handling(k)
    <3>1. link' = link \/ link' = [link EXCEPT ![k].as = Target(k)]
      BY <2>5 DEF Handling, Authenticate, Publish, Fetch, Announce, Subscribe, Rendezvous, Oversized,
                  Mailbox
    <3>2. link'[k].phase = link[k].phase
      BY <3>1 DEF Typed, LinkStates
    <3> QED
      BY <2>0, <2>5, <3>2, ExchangeHandled
  <2>6. CASE Close(k)
    <3>1. client' = client /\ client[k].left
      BY <2>6 DEF Close
    <3> QED
      BY <2>0, <3>1 DEF Settled
  <2>7. CASE Ended(k) \/ Sweep \/ Tick
    <3>1. UNCHANGED <<client, request, out, job>>
      BY <2>7 DEF Ended, Sweep, Tick
    <3>2. SameAnswers(out'[k], out[k])
      BY <3>1 DEF SameAnswers
    <3> QED
      BY <2>0, <2>1, <3>1, <3>2, Undisturbed
  <2>8. ASSUME NEW l \in Links, Finish(l) PROVE Settled(k)'
    BY <2>8, ExchangeFinished
  <2> QED
    BY <2>2, <2>3, <2>4, <2>5, <2>6, <2>7, <2>8, StepKinds DEF Ending
<1> QED
  BY <1>1 DEF ExchangeInv, Settled


-----------------------------------------------------------------------------
(* The invariant, and what follows from it.                                *)
LEMMA ConnStart == Init => ConnInv
<1> SUFFICES ASSUME Init PROVE ConnInv
  OBVIOUS
<1>1. PICK scenario \in Scenarios : Start(scenario)
  BY DEF Init
<1>2. scenario \in [links : Nat, requests : Nat, periods : Nat,
                    published : SUBSET Accounts, kinds : SUBSET Kinds]
  BY SizesAssumption
<1>3. budget \in Budgets /\ relay \in RelayStates
  BY <1>1, <1>2 DEF Start, Budgets, RelayStates, Shown
<1>4. \A l \in Links : /\ link[l].phase = "unused" /\ link[l].as = None
                       /\ client[l] = [waiting |-> FALSE, lost |-> FALSE, left |-> FALSE,
                                       plain |-> TRUE, sent |-> 0]
                       /\ request[l] = None /\ out[l] = <<>> /\ job[l] = NoJob
  BY DEF Init
<1>5. \A key \in Keys : /\ bucket[key] = Full(key) /\ granted[key] = 0
                        /\ Full(key).tokens = Capacity[key[1]] /\ Full(key).idle = 0
  BY DEF Init, Full
<1>6. Typed
  <2>1. link \in [Links -> LinkStates] /\ client \in [Links -> ClientStates]
    BY DEF Init, LinkStates, ClientStates
  <2>2. /\ request \in [Links -> RequestFrames \union {None}]
        /\ \A l \in Links : request[l] # None => <<request[l].kind, request[l].target>> \in Requests
    BY DEF Init
  <2>3. out \in [Links -> Seq(AnswerFrames \union PushFrames)] /\ \A l \in Links : Len(out[l]) <= MaxFrames
    <3>1. <<>> \in Seq(AnswerFrames \union PushFrames) /\ Len(<<>>) = 0
      OBVIOUS
    <3>2. out = [l \in Links |-> <<>>]
      BY DEF Init
    <3> QED
      BY <3>1, <3>2, Sizes
  <2>4. job \in [Links -> Jobs \union {NoJob}]
    BY DEF Init
  <2>5. active \in Nat /\ slots \in [Clients \union Proxies -> 0 .. MaxConcurrent] /\ clock \in Nat
        /\ overtaken \subseteq Accounts /\ burst \in BOOLEAN
    <3>1. slots = [c \in Clients \union Proxies |-> 0] /\ 0 \in 0 .. MaxConcurrent
      BY Sizes DEF Init
    <3>2. active \in Nat /\ clock \in Nat /\ overtaken \subseteq Accounts /\ burst \in BOOLEAN
      BY DEF Init
    <3> QED
      BY <3>1, <3>2
  <2>6. bucket \in [Keys -> Buckets] /\ granted \in [Keys -> Nat]
    BY KeyKinds, Sizes DEF Init, Full, Buckets
  <2> QED
    BY <1>3, <2>1, <2>2, <2>3, <2>4, <2>5, <2>6 DEF Typed
<1>7. Pending = {} /\ Counted = {} /\ Live = {} /\ \A c \in Clients : HoldsSlot(c) = {}
  BY <1>4 DEF Pending, Counted, Live, HoldsSlot
<1>8. AddressInv /\ CountInv /\ CapInv
  <2>1. IsFiniteSet({}) /\ Cardinality({}) = 0
    BY FS_EmptySet
  <2>2. active = 0 /\ \A c \in Clients : slots[c] = 0
    BY DEF Init
  <2>3. 0 <= ConnectionCap
    BY Sizes
  <2> QED
    BY <1>7, <2>1, <2>2, <2>3 DEF AddressInv, CountInv, CapInv
<1>9. BucketInv
  <2>1. clock = 0
    BY DEF Init
  <2> QED
    BY <1>5, <2>1, KeyKinds DEF BucketInv
<1>10. SignedInInv
  BY <1>4 DEF SignedInInv
<1>11. PresenceIsTrue
  <2>1. \A a \in Accounts : relay.connections[a] = None /\ relay.presence[a] = None
    BY <1>1 DEF Start
  <2>2. \A a \in Accounts : LinksOf(a) = {}
    BY <1>4 DEF LinksOf
  <2>3. None \notin {"Online", "Away"}
    BY NamesAssumption
  <2> QED
    BY <2>1, <2>2, <2>3 DEF PresenceIsTrue, Connected
<1>12. ExchangeInv
  <2>1. NoJob.answer = None /\ AnswersIn(<<>>) = {}
    BY DEF NoJob, Job, AnswersIn
  <2> QED
    BY <1>4, <2>1 DEF ExchangeInv, Exchange
<1> QED
  BY <1>6, <1>8, <1>9, <1>10, <1>11, <1>12 DEF ConnInv

LEMMA ConnStep == ConnInv /\ [Next]_vars => ConnInv'
<1> SUFFICES ASSUME ConnInv, [Next]_vars PROVE ConnInv'
  OBVIOUS
<1>1. ASSUME Next PROVE ConnInv'
  <2>0. /\ Typed /\ AddressInv /\ CountInv /\ CapInv /\ BucketInv
        /\ SignedInInv /\ PresenceIsTrue /\ ExchangeInv
    BY DEF ConnInv
  <2>1. Typed'
    <3>1. /\ link' \in [Links -> LinkStates] /\ client' \in [Links -> ClientStates]
          /\ request' \in [Links -> RequestFrames \union {None}]
          /\ \A l \in Links :
               request'[l] # None => <<request'[l].kind, request'[l].target>> \in Requests
          /\ Queues(out') /\ job' \in [Links -> Jobs \union {NoJob}]
      BY <1>1, <2>0, TypedLinks, TypedQueues
    <3>2. relay' \in RelayStates /\ overtaken' \subseteq Accounts
      BY <1>1, <2>0, TypedRelay
    <3>3. /\ slots' \in [Clients \union Proxies -> 0 .. MaxConcurrent]
          /\ clock' \in Nat /\ budget' \in Budgets /\ burst' \in BOOLEAN
      BY <1>1, <2>0, TypedRest
    <3>4. bucket' \in [Keys -> Buckets] /\ granted' \in [Keys -> Nat]
      BY <1>1, <2>0, LimitSteps
    <3>5. active' \in Nat
      BY <1>1, <2>0, CountSteps
    <3> QED
      BY <3>1, <3>2, <3>3, <3>4, <3>5 DEF Typed, Queues, Frames
  <2>2. AddressInv' /\ CountInv' /\ CapInv'
    BY <1>1, <2>0, CountSteps
  <2>3. BucketInv'
    BY <1>1, <2>0, LimitSteps
  <2>4. SignedInInv' /\ PresenceIsTrue'
    BY <1>1, <2>0, PresenceSteps
  <2>5. ExchangeInv'
    BY <1>1, <2>0, ExchangeSteps
  <2> QED
    BY <2>1, <2>2, <2>3, <2>4, <2>5 DEF ConnInv
<1>2. CASE UNCHANGED vars
  <2>1. UNCHANGED <<link, client, request, out, job, relay, active, slots, bucket,
                    clock, budget, granted, overtaken, burst>>
    BY <1>2 DEF vars
  <2>2. Typed' /\ BucketInv' /\ SignedInInv'
    BY <2>1 DEF ConnInv, Typed, BucketInv, SignedInInv
  <2>3. Pending' = Pending /\ Counted' = Counted /\ Live' = Live
        /\ (\A c \in Clients : HoldsSlot(c)' = HoldsSlot(c))
        /\ \A a \in Accounts : LinksOf(a)' = LinksOf(a)
    BY <2>1 DEF Pending, Counted, Live, HoldsSlot, LinksOf
  <2>4. AddressInv' /\ CountInv' /\ CapInv'
    BY <2>1, <2>3 DEF ConnInv, AddressInv, CountInv, CapInv
  <2>5. PresenceIsTrue'
    BY <2>1, <2>3 DEF ConnInv, PresenceIsTrue, Connected
  <2>6. ExchangeInv'
    BY <2>1 DEF ConnInv, ExchangeInv, Exchange
  <2> QED
    BY <2>2, <2>4, <2>5, <2>6 DEF ConnInv
<1> QED
  BY <1>1, <1>2

(* The invariant of the front: the types, and the facts the properties of  *)
(* ws.rs's admission, state.rs's presence, abuse.rs's buckets and net.rs's *)
(* exchange rest on, hold in every state of every behaviour.               *)
THEOREM ConnectionsInvariant == Spec => []ConnInv
<1>1. Init => ConnInv
  BY ConnStart
<1>2. ConnInv /\ [Next]_vars => ConnInv'
  BY ConnStep
<1> QED
  BY <1>1, <1>2, PTL DEF Spec

(* Every variable of the front keeps its type, the queues of state.rs keep *)
(* to MAX_QUEUED_OUTBOUND_FRAMES among them.                               *)
THEOREM ConnectionsTyped == Spec => []TypeOK
<1>1. ConnInv => TypeOK
  BY DEF ConnInv, Typed, TypeOK, LinkStates, ClientStates, RelayStates, Shown, Buckets, Budgets
<1> QED
  BY <1>1, ConnectionsInvariant, PTL

(* An answer on its way on a connection still read, one that sent only     *)
(* requests that are answered, is that of the one request net.rs's request *)
(* is waiting for.                                                         *)
THEOREM AnswersOwn == Spec => []AnswerIsOwn
<1>1. ConnInv => AnswerIsOwn
  <2> SUFFICES ASSUME ConnInv, NEW l \in Links, client[l].plain /\ ~client[l].lost,
                      NEW i \in DOMAIN out[l], ~IsPush(out[l][i])
               PROVE  client[l].waiting /\ out[l][i].of = client[l].sent
    BY DEF AnswerIsOwn
  <2>1. Exchange(l) /\ i \in AnswersIn(out[l])
    BY DEF ConnInv, ExchangeInv, AnswersIn
  <2>2. out[l][i].of = client[l].sent
    BY <2>1 DEF Exchange
  <2>3. client[l].waiting
    BY <2>1 DEF Exchange, ConnInv, Typed, ClientStates
  <2> QED
    BY <2>2, <2>3
<1> QED
  BY <1>1, ConnectionsInvariant, PTL

(* Who is reachable and who is shown online is who is connected, except    *)
(* for an account whose entry the close of an older connection removed     *)
(* (state.rs's connections and presence, ws.rs's close).                   *)
THEOREM PresenceTrue == Spec => []PresenceIsTrue
<1>1. ConnInv => PresenceIsTrue
  BY DEF ConnInv
<1> QED
  BY <1>1, ConnectionsInvariant, PTL

(* The per-address limit of address.rs: an address has as many slots taken *)
(* as it has connections, and never more than MAX_CONNECTIONS_PER_ADDRESS, *)
(* whatever a client writes into its forwarded-for header.                 *)
THEOREM SlotsKept == Spec => []SlotsHeld
<1>1. ConnInv => SlotsHeld
  <2> SUFFICES ASSUME ConnInv, NEW c \in Clients
               PROVE  Cardinality(HoldsSlot(c)) <= MaxConcurrent /\ slots[c] = Cardinality(HoldsSlot(c))
    BY DEF SlotsHeld
  <2>1. slots[c] = Cardinality(HoldsSlot(c))
    BY DEF ConnInv, CountInv
  <2>2. slots[c] \in 0 .. MaxConcurrent
    BY DEF ConnInv, Typed
  <2> QED
    BY <2>1, <2>2, Sizes
<1> QED
  BY <1>1, ConnectionsInvariant, PTL

(* active_connections counts the live connections, and stays under         *)
(* MAX_CONCURRENT_CONNECTIONS unless two upgrades passed ws.rs's check of  *)
(* the cap before either was counted.                                      *)
THEOREM CapKept == Spec => []CapHeld
<1>1. ConnInv => CapHeld
  <2> SUFFICES ASSUME ConnInv PROVE CapHeld
    OBVIOUS
  <2>1. active = Cardinality(Counted) /\ active \in Nat /\ ConnectionCap \in Nat
    BY Sizes DEF ConnInv, CountInv, Typed
  <2>2. ~burst => active <= ConnectionCap
    BY <2>1 DEF ConnInv, CapInv
  <2> QED
    BY <2>1, <2>2 DEF CapHeld
<1> QED
  BY <1>1, ConnectionsInvariant, PTL

(* What a limiter of abuse.rs has allowed is within its burst and one more *)
(* for each refill period, sweeps of idle buckets and reconnections        *)
(* included.                                                               *)
THEOREM AllowanceKept == Spec => []AllowanceBounded
<1>1. ConnInv => AllowanceBounded
  <2> SUFFICES ASSUME ConnInv, NEW key \in Keys
               PROVE  granted[key] <= Capacity[key[1]] + clock
    BY DEF AllowanceBounded
  <2>1. /\ granted[key] \in Nat /\ bucket[key].tokens \in Nat /\ clock \in Nat
        /\ Capacity[key[1]] \in Nat /\ granted[key] + bucket[key].tokens <= Capacity[key[1]] + clock
    BY KeyKinds DEF ConnInv, Typed, Buckets, BucketInv
  <2> QED
    BY <2>1
<1> QED
  BY <1>1, ConnectionsInvariant, PTL

(* No step, the sweep of pruning.rs above all, takes away the evidence or  *)
(* the subscriptions of an account that published, or is connected and was *)
(* not signed out by an older connection's close: from one that did not    *)
(* publish and was, the sweep may take them while it is connected.         *)
THEOREM RelationshipsKept == Spec => RelationshipsLast
<1> DEFINE Kept(a) ==
      /\ relay.evidence[a] \subseteq relay'.evidence[a]
      /\ \A t \in Accounts : a \in relay.subscriptions[t] => a \in relay'.subscriptions[t]
<1>1. ASSUME ConnInv, Next, NEW a \in Accounts, StaysKnown(a) PROVE Kept(a)
  <2>0. relay \in RelayStates /\ Typed
    BY <1>1 DEF ConnInv, Typed
  <2>1. CASE Sweep
    <3>1. relay' = Pruned
      BY <2>1 DEF Sweep
    <3>2. a \in relay.directory \/ (Connected(a) /\ a \notin overtaken)
      BY <1>1, <2>0, <3>1 DEF StaysKnown, Pruned, RelayStates
    <3>3. Durable(a)
      BY <1>1, <3>2 DEF Durable, ConnInv, PresenceIsTrue
    <3>4. /\ relay'.evidence[a] = relay.evidence[a]
          /\ \A t \in Accounts : relay'.subscriptions[t] = {s \in relay.subscriptions[t] : Durable(s)}
      BY <2>0, <3>1, <3>3 DEF Pruned, RelayStates
    <3> QED
      BY <3>3, <3>4
  <2>2. ASSUME NEW l \in Links, Handling(l) PROVE Kept(a)
    <3>1. CASE Fetch(l)
      <4>1. relay' = relay \/ \E t : relay' = [relay EXCEPT !.evidence[Me(l)] = @ \union {t}]
        BY <3>1 DEF Fetch
      <4> QED
        BY <2>0, <4>1 DEF RelayStates
    <3>2. CASE Subscribe(l)
      <4>1. relay' = relay
            \/ \E t, s : relay' = [relay EXCEPT !.subscriptions[t] = @ \union {s}]
        BY <3>2 DEF Subscribe
      <4> QED
        BY <2>0, <4>1 DEF RelayStates
    <3>3. CASE Publish(l)
      BY <2>0, <3>3 DEF Publish, RelayStates
    <3>4. CASE Authenticate(l)
      <4>1. relay' = relay \/ relay' = SignedIn(Target(l), l)
        BY <3>4 DEF Authenticate, relayVars
      <4> QED
        BY <2>0, <4>1 DEF SignedIn, RelayStates
    <3>5. CASE Announce(l)
      BY <2>0, <3>5 DEF Announce, RelayStates
    <3>6. CASE Rendezvous(l) \/ Oversized(l) \/ \E kind \in MailboxKinds : Mailbox(l, kind)
      BY <3>6 DEF Rendezvous, Oversized, Mailbox, relayVars
    <3> QED
      BY <2>2, <3>1, <3>2, <3>3, <3>4, <3>5, <3>6 DEF Handling
  <2>3. ASSUME NEW l \in Links, Ending(l) PROVE Kept(a)
    <3>1. relay' = relay \/ relay' = SignedOut(Me(l))
      BY <2>3 DEF Ending, Close, Ended, relayVars
    <3> QED
      BY <2>0, <3>1 DEF SignedOut, RelayStates
  <2>4. ASSUME NEW l \in Links, Admission(l) \/ AtClient(l) \/ Finish(l) PROVE Kept(a)
    BY <2>4 DEF Admission, Arrive, UpgradeFails, Open, AtClient, Send, Receive, TimesOut, Leave,
                Finish, relayVars
  <2>5. CASE Tick
    BY <2>5 DEF Tick, relayVars
  <2> QED
    BY <1>1, <2>1, <2>2, <2>3, <2>4, <2>5, StepKinds
<1>2. ConnInv /\ [Next]_vars =>
        [\A a \in Accounts : StaysKnown(a) =>
            /\ relay.evidence[a] \subseteq relay'.evidence[a]
            /\ \A t \in Accounts :
                  a \in relay.subscriptions[t] => a \in relay'.subscriptions[t]]_vars
  BY <1>1
<1> QED
  BY <1>2, ConnectionsInvariant, PTL DEF Spec, RelationshipsLast
=============================================================================
