---------------------------- MODULE Connections ----------------------------
(***************************************************************************)
(* The relay's front: admitting a WebSocket connection under the global    *)
(* cap and the per-address limits (server/src/ws.rs, address.rs), the      *)
(* connection's task and its bounded outbound queue, who is reachable and  *)
(* online (state.rs, ws.rs), the rendezvous relay, the token buckets of    *)
(* abuse.rs, the pruning sweep (pruning.rs), and at the other end the      *)
(* client's request and response on one connection (client/src/net.rs).    *)
(*                                                                         *)
(* What a request says beyond its kind and its target is left out, and so  *)
(* is the answer's content: an answer is known by the request it answers.  *)
(* Mailbox requests are here only for their buckets and their answers;     *)
(* MailRelay models what they do.                                          *)
(***************************************************************************)
EXTENDS Naturals, Sequences, FiniteSets

CONSTANTS
    Accounts,      \* fingerprints
    Links,         \* one per connection a client ever opens
    Clients,       \* client addresses (an IPv4 address, an IPv6 /64)
    Proxies,       \* the addresses of the trusted reverse proxies
    Garbled,       \* a forwarded-for entry that is no address
    None,
    ConnectionCap, \* MAX_CONCURRENT_CONNECTIONS
    MaxConcurrent, \* MAX_CONNECTIONS_PER_ADDRESS
    Capacity,      \* the burst of each limiter, in requests
    StaleAfter,    \* RATE_LIMIT_BUCKET_STALE_AFTER, in refill periods
    MaxFrames,     \* MAX_QUEUED_OUTBOUND_FRAMES
    Scenarios      \* bound: the connections, the requests, their kinds and
                   \* the refill periods a behaviour may use, and the bundles
                   \* it starts with (restored by a directory database)

MailboxKinds == {"NewMailbox", "MailboxFetch", "MailboxDelete"}
Kinds == {"AuthResponse", "PublishBundle", "FetchBundle", "PresenceAnnounce",
          "PresenceSubscribe", "Rendezvous"} \union MailboxKinds

Limiters == {"Address", "FetchBundle", "Rendezvous"} \union MailboxKinds

ASSUME SizesAssumption ==
    /\ {ConnectionCap, MaxConcurrent, MaxFrames} \subseteq Nat \ {0}
    /\ StaleAfter \in Nat
    /\ Scenarios \subseteq [links : Nat, requests : Nat, periods : Nat,
                            published : SUBSET Accounts, kinds : SUBSET Kinds]

ASSUME NamesAssumption ==
    /\ None \notin Accounts \union Links \union Clients \union Proxies
    /\ None \notin {"Online", "Away", "Offline"}
    /\ Clients \intersect Proxies = {}
    /\ Garbled \notin Clients \union Proxies

\* A bucket idle for the sweep's limit has refilled: 600 seconds against
\* 20 tokens at one in 30 seconds (NewMailbox), the slowest that is swept.
ASSUME CapacityAssumption ==
    /\ Capacity \in [Limiters -> Nat \ {0}]
    /\ \A kind \in {"Address", "FetchBundle", "NewMailbox"} :
           Capacity[kind] <= StaleAfter

VARIABLES
    link,      \* the relay's task and the socket of each connection
    client,    \* the client's end of each connection
    request,   \* the frame on its way to the relay
    out,       \* the frames on their way to the client
    job,       \* what a handler still does after it released the lock
    relay,     \* the maps of state.rs's Inner
    active,    \* AppState.active_connections
    slots,     \* AddressLimiter: live connections of an address
    bucket,    \* token buckets, those of the addresses included
    clock,     \* refill periods passed
    budget,    \* what is left of the scenario
    granted,   \* history: what each bucket allowed
    overtaken, \* history: accounts whose entry an old connection removed
    burst      \* history: were two upgrades past the cap check at once?

relayVars == <<relay, overtaken>>
limitVars == <<bucket, granted>>
admitVars == <<active, slots, burst>>
vars == <<link, client, request, out, job, relay, active, slots, bucket,
          clock, budget, granted, overtaken, burst>>

(***************************************************************************)
(* The buckets. FetchBundle's are kept per connection and target, the      *)
(* others per account or address. A bucket that is not in its map behaves  *)
(* as a full one, so it is written as a full one.                          *)
(***************************************************************************)
Keys == ({"Address"} \X (Clients \union Proxies))
          \union ({"FetchBundle"} \X (Links \X Accounts))
          \union (({"Rendezvous"} \union MailboxKinds) \X Accounts)

Swept == {"Address", "FetchBundle", "NewMailbox"}

Full(key) == [tokens |-> Capacity[key[1]], idle |-> 0]

Allows(key) == bucket[key].tokens > 0

\* allow: the bucket is refilled and touched whether it has a token or not.
Charged(key) ==
    [tokens |-> IF Allows(key) THEN bucket[key].tokens - 1 ELSE 0, idle |-> 0]

Charge(key) ==
    /\ bucket' = [bucket EXCEPT ![key] = Charged(key)]
    /\ granted' = [granted EXCEPT ![key] = IF Allows(key) THEN @ + 1 ELSE @]

\* A refill period: one token each, up to the capacity. How long a bucket
\* has been idle is only ever asked by the sweep.
Refilled(key) ==
    [tokens |-> IF bucket[key].tokens < Capacity[key[1]]
                THEN bucket[key].tokens + 1 ELSE bucket[key].tokens,
     idle |-> IF key[1] \in Swept /\ bucket[key].idle < StaleAfter
              THEN bucket[key].idle + 1 ELSE bucket[key].idle]

\* Mutant: every bucket of a swept limiter is taken for an idle one.
MutStale(key) == key[1] \in Swept

\* sweep_stale's test of a bucket.
Stale(key) == key[1] \in Swept /\ bucket[key].idle >= StaleAfter

(***************************************************************************)
(* Frames and queues.                                                      *)
(***************************************************************************)
Answer(n) == [kind |-> "answer", of |-> n]
Update(who, state) == [kind |-> "update", who |-> who, state |-> state]
Offer(from) == [kind |-> "rendezvous", who |-> from]

\* is_server_push
IsPush(frame) == frame.kind # "answer"

\* try_send: refused when the queue is full or the socket is gone.
Reaches(queues, l) == Len(queues[l]) < MaxFrames /\ ~client[l].left

Pushed(queues, l, frame) ==
    IF Reaches(queues, l) THEN [queues EXCEPT ![l] = Append(@, frame)] ELSE queues

\* What a handler does after the lock: notify_presence, the update that
\* answers a subscription, relay_to_peer. Then its own acknowledgement.
Job(does, who, state, to, answer) ==
    [does |-> does, who |-> who, state |-> state, to |-> to, answer |-> answer]

NoJob == Job("nothing", None, None, {}, None)

(***************************************************************************)
(* The address a connection is counted under: client_ip and AddressKey.    *)
(***************************************************************************)
ClientAddress(peer, hops) ==
    LET strangers == {i \in DOMAIN hops : hops[i] \notin Proxies}
        last == CHOOSE i \in strangers : \A j \in strangers : j <= i
    IN IF peer \notin Proxies \/ strangers = {} \/ hops[last] = Garbled
       THEN peer ELSE hops[last]

\* What a client may have written into its own forwarded-for header.
Forged == {<<>>} \union {<<hop>> : hop \in Clients \union Proxies \union {Garbled}}

\* Each proxy on the way appends the address it was called from.
Seen(from, forged, proxies) ==
    LET hops == <<from>> \o proxies
    IN [peer |-> hops[Len(hops)],
        hops |-> forged \o SubSeq(hops, 1, Len(hops) - 1)]

Routes == {<<>>} \union {<<p>> : p \in Proxies}
            \union {<<p, q>> : p \in Proxies, q \in Proxies}

(***************************************************************************)
(* Who is there.                                                           *)
(***************************************************************************)
Pending == {l \in Links : link[l].phase = "upgrading"}
Counted == {l \in Links : link[l].phase \in {"open", "closing"}}
HoldsSlot(from) == {l \in Pending \union Counted : link[l].from = from}
LinksOf(a) == {l \in Links : link[l].phase = "open" /\ link[l].as = a}
Connected(a) == LinksOf(a) # {}

\* Mutant: only published accounts are kept.
MutDurable(a) == a \in relay.directory

\* identity_is_durable
Durable(a) == a \in relay.directory \/ relay.connections[a] # None

TypeOK ==
    /\ link \in [Links -> [phase : {"unused", "upgrading", "open", "closing", "ended"},
                           from : Clients \union {None},
                           key : Clients \union Proxies \union {None},
                           as : Accounts \union {None}]]
    /\ client \in [Links -> [waiting : BOOLEAN, lost : BOOLEAN, left : BOOLEAN,
                             plain : BOOLEAN, sent : Nat]]
    /\ \A l \in Links : Len(out[l]) <= MaxFrames
    /\ relay.directory \subseteq Accounts
    /\ relay.connections \in [Accounts -> Links \union {None}]
    /\ relay.presence \in [Accounts -> {None, "Online", "Away", "Offline"}]
    /\ relay.subscriptions \in [Accounts -> SUBSET Accounts]
    /\ relay.evidence \in [Accounts -> SUBSET Accounts]
    /\ active \in Nat
    /\ slots \in [Clients \union Proxies -> 0 .. MaxConcurrent]
    /\ bucket \in [Keys -> [tokens : Nat, idle : 0 .. StaleAfter]]
    /\ clock \in Nat
    /\ budget \in [links : Nat, requests : Nat, periods : Nat, kinds : SUBSET Kinds]

Start(scenario) ==
    /\ budget = [links |-> scenario.links, requests |-> scenario.requests,
                 periods |-> scenario.periods, kinds |-> scenario.kinds]
    /\ relay = [directory |-> scenario.published,
                connections |-> [a \in Accounts |-> None],
                presence |-> [a \in Accounts |-> None],
                subscriptions |-> [a \in Accounts |-> {}],
                evidence |-> [a \in Accounts |-> {}]]

Init ==
    /\ link = [l \in Links |-> [phase |-> "unused", from |-> None, key |-> None, as |-> None]]
    /\ client = [l \in Links |-> [waiting |-> FALSE, lost |-> FALSE, left |-> FALSE,
                                  plain |-> TRUE, sent |-> 0]]
    /\ request = [l \in Links |-> None]
    /\ out = [l \in Links |-> <<>>]
    /\ job = [l \in Links |-> NoJob]
    /\ \E scenario \in Scenarios : Start(scenario)
    /\ active = 0
    /\ slots = [c \in Clients \union Proxies |-> 0]
    /\ bucket = [key \in Keys |-> Full(key)]
    /\ clock = 0
    /\ granted = [key \in Keys |-> 0]
    /\ overtaken = {}
    /\ burst = FALSE

(***************************************************************************)
(* Admission. The count is read before the upgrade and raised after it     *)
(* (ws.rs:78, 165); an address's slot is taken here and given back by the  *)
(* drop of AddressSlot, whether the upgrade completes or not.              *)
(***************************************************************************)
\* Mutant: one connection past the cap is let in.
MutUnderCap == active <= ConnectionCap

UnderCap == active < ConnectionCap

\* try_acquire asks for a slot before it asks for a token.
Room(address) == slots[address] < MaxConcurrent

Over == [phase |-> "ended", from |-> None, key |-> None, as |-> None]

\* A refusal by the address limits still refills and touches the bucket,
\* and for want of a slot takes no token.
Arrive(l) ==
    /\ link[l].phase = "unused"
    /\ budget.links > 0
    /\ budget' = [budget EXCEPT !.links = @ - 1]
    /\ UnderCap
    /\ \E from \in Clients, forged \in Forged, proxies \in Routes :
         LET seen == Seen(from, forged, proxies)
             address == ClientAddress(seen.peer, seen.hops)
             key == <<"Address", address>>
             room == Room(address)
         IN /\ IF room /\ Allows(key)
               THEN /\ link' = [link EXCEPT ![l] = [phase |-> "upgrading", from |-> from,
                                                    key |-> address, as |-> None]]
                    /\ slots' = [slots EXCEPT ![address] = @ + 1]
                    /\ burst' = (burst \/ Pending # {})
               ELSE /\ link' = [link EXCEPT ![l] = Over]
                    /\ UNCHANGED <<slots, burst>>
            /\ IF room
               THEN Charge(key)
               ELSE /\ bucket' = [bucket EXCEPT ![key].idle = 0]
                    /\ UNCHANGED granted
    /\ UNCHANGED <<client, request, out, job, active, clock, relayVars>>

\* AddressSlot's drop, saturating.
Released(l) ==
    [slots EXCEPT ![link[l].key] = IF @ > 0 THEN @ - 1 ELSE 0]

UpgradeFails(l) ==
    /\ link[l].phase = "upgrading"
    /\ link' = [link EXCEPT ![l] = Over]
    /\ slots' = Released(l)
    /\ UNCHANGED <<client, request, out, job, relayVars, active, burst, limitVars,
                   clock, budget>>

\* Connection::authenticate waits for the relay's challenge before anything.
Challenged(state) == [state EXCEPT !.waiting = TRUE]

\* handle_socket begins: the count, the queue, the challenge.
Open(l) ==
    /\ link[l].phase = "upgrading"
    /\ link' = [link EXCEPT ![l].phase = "open"]
    /\ active' = active + 1
    /\ out' = Pushed(out, l, Answer(0))
    /\ client' = [client EXCEPT ![l] = Challenged(@)]
    /\ UNCHANGED <<request, job, relayVars, slots, burst, limitVars, clock, budget>>

(***************************************************************************)
(* The client's end: one request at a time, every wait bounded. A push is  *)
(* set aside; a connection whose wait failed is lost and never read again. *)
(***************************************************************************)
Usable(l) == link[l].phase # "unused" /\ ~client[l].lost /\ ~client[l].left

\* The requests the relay answers only when it refuses them.
Unanswered == {"PresenceAnnounce", "PresenceSubscribe"}

Requests ==
    ({"AuthResponse", "PublishBundle", "FetchBundle", "PresenceSubscribe", "Rendezvous"}
        \X Accounts)
      \union ({"PresenceAnnounce"} \X {"Online", "Away"})
      \union (MailboxKinds \X {None})

Send(l, kind, target) ==
    /\ Usable(l)
    /\ link[l].phase = "open"
    /\ ~client[l].waiting
    /\ request[l] = None
    /\ budget.requests > 0
    /\ kind \in budget.kinds
    /\ budget' = [budget EXCEPT !.requests = @ - 1]
    /\ request' = [request EXCEPT ![l] = [n |-> client[l].sent + 1, kind |-> kind,
                                          target |-> target]]
    /\ client' = [client EXCEPT ![l].sent = @ + 1,
                                ![l].waiting = kind \notin Unanswered,
                                ![l].plain = @ /\ kind \notin Unanswered]
    /\ UNCHANGED <<link, out, job, relayVars, admitVars, limitVars, clock>>

\* recv_raw
Receive(l) ==
    /\ Usable(l)
    /\ client[l].waiting
    /\ out[l] # <<>>
    /\ out' = [out EXCEPT ![l] = Tail(@)]
    /\ client' = [client EXCEPT ![l].waiting = IsPush(Head(out[l]))]
    /\ UNCHANGED <<link, request, job, relayVars, admitVars, limitVars, clock, budget>>

\* Mutant: a wait that ran out leaves the connection in use.
MutGaveUp(state) == [state EXCEPT !.waiting = FALSE]

\* A wait that ran out: is_lost from now on.
GaveUp(state) == [state EXCEPT !.waiting = FALSE, !.lost = TRUE]

TimesOut(l) ==
    /\ Usable(l)
    /\ client[l].waiting
    /\ client' = [client EXCEPT ![l] = GaveUp(@)]
    /\ UNCHANGED <<link, request, out, job, relayVars, admitVars, limitVars, clock, budget>>

\* The socket closes, by the client's choice or the network's. What is on
\* its way to the client is gone; a request lost with the socket is, to the
\* relay, one that was never sent.
Leave(l) ==
    /\ link[l].phase = "open"
    /\ ~client[l].left
    /\ client' = [client EXCEPT ![l] = [waiting |-> FALSE, lost |-> TRUE, left |-> TRUE,
                                        plain |-> TRUE, sent |-> 0]]
    /\ out' = [out EXCEPT ![l] = <<>>]
    /\ UNCHANGED <<link, request, job, relayVars, admitVars, limitVars, clock, budget>>

(***************************************************************************)
(* The handlers, one frame of a connection at a time (handle_socket's loop *)
(* awaits dispatch). What dispatch does under the lock is one step; what   *)
(* it does after releasing it is left in job[l].                           *)
(***************************************************************************)
Handles(l, kind) ==
    /\ link[l].phase = "open"
    /\ job[l] = NoJob
    /\ request[l] # None
    /\ request[l].kind = kind
    /\ request' = [request EXCEPT ![l] = None]

Me(l) == link[l].as
Target(l) == request[l].target

\* Acked, answered or refused at once: one frame on the connection's queue.
AnsweredNow(l) ==
    /\ out' = Pushed(out, l, Answer(request[l].n))
    /\ UNCHANGED job

Leaves(l, work) ==
    /\ job' = [job EXCEPT ![l] = work]
    /\ UNCHANGED out

unserved == <<client, admitVars, clock, budget>>

\* The newest connection of an account takes its entry.
SignedIn(a, l) ==
    [relay EXCEPT !.presence[a] = "Online", !.connections[a] = l]

Authenticate(l) ==
    /\ Handles(l, "AuthResponse")
    /\ IF Me(l) # None
       THEN AnsweredNow(l) /\ UNCHANGED <<link, relayVars>>
       ELSE LET a == Target(l) IN
            /\ link' = [link EXCEPT ![l].as = a]
            /\ relay' = SignedIn(a, l)
            /\ overtaken' = overtaken \ {a}
            /\ Leaves(l, Job("notify", a, "Online", relay.subscriptions[a], request[l].n))
    /\ UNCHANGED <<limitVars, unserved>>

\* Publishing needs no authentication: the bundle is signed.
Publish(l) ==
    /\ Handles(l, "PublishBundle")
    /\ relay' = [relay EXCEPT !.directory = @ \union {Target(l)}]
    /\ AnsweredNow(l)
    /\ UNCHANGED <<link, overtaken, limitVars, unserved>>

\* A bundle that is not published costs nothing; one that is leaves the
\* evidence that an authenticated fetcher has asked for it.
Fetch(l) ==
    /\ Handles(l, "FetchBundle")
    /\ LET key == <<"FetchBundle", <<l, Target(l)>>>>
           known == Target(l) \in relay.directory
       IN /\ IF known THEN Charge(key) ELSE UNCHANGED limitVars
          /\ relay' = IF known /\ Allows(key) /\ Me(l) # None
                      THEN [relay EXCEPT !.evidence[Me(l)] = @ \union {Target(l)}]
                      ELSE relay
    /\ AnsweredNow(l)
    /\ UNCHANGED <<link, overtaken, unserved>>

Announce(l) ==
    /\ Handles(l, "PresenceAnnounce")
    /\ IF Me(l) = None
       THEN AnsweredNow(l) /\ UNCHANGED relay
       ELSE /\ relay' = [relay EXCEPT !.presence[Me(l)] = Target(l)]
            /\ Leaves(l, Job("notify", Me(l), Target(l), relay.subscriptions[Me(l)], None))
    /\ UNCHANGED <<link, overtaken, limitVars, unserved>>

\* Only for an account whose bundle the subscriber has fetched; the state
\* is read under the lock and pushed after it.
HasEvidence(a, target) == a # None /\ target \in relay.evidence[a]

Subscribe(l) ==
    /\ Handles(l, "PresenceSubscribe")
    /\ IF HasEvidence(Me(l), Target(l))
       THEN /\ relay' = [relay EXCEPT !.subscriptions[Target(l)] = @ \union {Me(l)}]
            /\ LET now == relay.presence[Target(l)]
               IN IF now = None THEN UNCHANGED <<job, out>>
                  ELSE Leaves(l, Job("tell", Target(l), now, {}, None))
       ELSE AnsweredNow(l) /\ UNCHANGED relay
    /\ UNCHANGED <<link, overtaken, limitVars, unserved>>

\* An offer or an answer: the evidence, then the sender's bucket, then the
\* target's queue.
Rendezvous(l) ==
    /\ Handles(l, "Rendezvous")
    /\ LET key == <<"Rendezvous", Me(l)>>
           known == HasEvidence(Me(l), Target(l))
       IN /\ IF known THEN Charge(key) ELSE UNCHANGED limitVars
          /\ IF known /\ Allows(key)
             THEN Leaves(l, Job("relay", Me(l), None, {Target(l)}, request[l].n))
             ELSE AnsweredNow(l)
    /\ UNCHANGED <<link, relayVars, unserved>>

\* One whose payload is too large, or too much of it, is refused first.
Oversized(l) ==
    /\ Handles(l, "Rendezvous")
    /\ AnsweredNow(l)
    /\ UNCHANGED <<link, relayVars, limitVars, unserved>>

\* The buckets of the mailbox requests: NewMailbox is a write that creates
\* its mailbox.
Mailbox(l, kind) ==
    /\ Handles(l, kind)
    /\ IF Me(l) = None THEN UNCHANGED limitVars ELSE Charge(<<kind, Me(l)>>)
    /\ AnsweredNow(l)
    /\ UNCHANGED <<link, relayVars, unserved>>

\* Each of the accounts that has an entry gets the frame, if it fits.
Delivered(queues, to, frame) ==
    [k \in Links |-> IF k \in {relay.connections[a] : a \in to} /\ Reaches(queues, k)
                     THEN Append(queues[k], frame) ELSE queues[k]]

\* After the lock: an authentication is acknowledged and then announced, a
\* rendezvous frame relayed and then acknowledged.
Finish(l) ==
    /\ job[l] # NoJob
    /\ LET work == job[l]
           Acked(queues) == IF work.answer = None THEN queues
                            ELSE Pushed(queues, l, Answer(work.answer))
           update == Update(work.who, work.state)
       IN out' = CASE work.does = "notify" -> Delivered(Acked(out), work.to, update)
                   [] work.does = "tell" -> Pushed(out, l, update)
                   [] work.does = "relay" -> Acked(Delivered(out, work.to, Offer(work.who)))
    /\ job' = [job EXCEPT ![l] = NoJob]
    /\ UNCHANGED <<link, client, request, relayVars, admitVars, limitVars, clock, budget>>

(***************************************************************************)
(* The end of a connection. Whatever connection of the account ends, its   *)
(* entry goes and it counts as offline (ws.rs:259): overtaken says when    *)
(* another connection of it was still there.                               *)
(***************************************************************************)
\* Mutant: the close leaves the entry to the next authentication.
MutSignedOut(a) == [relay EXCEPT !.presence[a] = "Offline"]

SignedOut(a) ==
    [relay EXCEPT !.presence[a] = "Offline", !.connections[a] = None]

Close(l) ==
    /\ link[l].phase = "open"
    /\ client[l].left
    /\ request[l] = None
    /\ job[l] = NoJob
    /\ link' = [link EXCEPT ![l].phase = "closing"]
    /\ IF Me(l) = None
       THEN UNCHANGED <<relayVars, job>>
       ELSE /\ relay' = SignedOut(Me(l))
            /\ overtaken' = IF LinksOf(Me(l)) = {l} THEN overtaken \ {Me(l)}
                            ELSE overtaken \union {Me(l)}
            /\ job' = [job EXCEPT ![l] = Job("notify", Me(l), "Offline",
                                             relay.subscriptions[Me(l)], None)]
    /\ UNCHANGED <<client, request, out, admitVars, limitVars, clock, budget>>

\* The guards drop: the count, then the address's slot.
Ended(l) ==
    /\ link[l].phase = "closing"
    /\ job[l] = NoJob
    /\ link' = [link EXCEPT ![l] = Over]
    /\ active' = active - 1
    /\ slots' = Released(l)
    /\ UNCHANGED <<client, request, out, job, relayVars, burst, limitVars, clock, budget>>

(***************************************************************************)
(* The pruning sweep: what a throwaway identity left (one that published   *)
(* nothing and has no entry), and the idle buckets.                        *)
(***************************************************************************)
Pruned ==
    [relay EXCEPT
        !.presence = [a \in Accounts |-> IF @[a] = "Offline" /\ ~Durable(a)
                                         THEN None ELSE @[a]],
        !.evidence = [a \in Accounts |-> IF Durable(a) THEN @[a] ELSE {}],
        !.subscriptions = [a \in Accounts |-> {s \in @[a] : Durable(s)}]]

\* Mutant: an address is forgotten whatever connections of it are live.
MutForgotten(key) == Stale(key)

\* An address is kept while a connection of it is live.
Forgotten(key) == Stale(key) /\ (key[1] = "Address" => slots[key[2]] = 0)

Sweep ==
    /\ relay' = Pruned
    /\ bucket' = [key \in Keys |-> IF Forgotten(key) THEN Full(key) ELSE bucket[key]]
    /\ slots' = [c \in DOMAIN slots |-> IF Forgotten(<<"Address", c>>) THEN 0 ELSE slots[c]]
    /\ UNCHANGED <<link, client, request, out, job, active, burst, clock, budget, granted,
                   overtaken>>

Tick ==
    /\ budget.periods > 0
    /\ budget' = [budget EXCEPT !.periods = @ - 1]
    /\ clock' = clock + 1
    /\ bucket' = [key \in Keys |-> Refilled(key)]
    /\ UNCHANGED <<link, client, request, out, job, relayVars, admitVars, granted>>

Next ==
    \/ \E l \in Links :
         \/ Arrive(l) \/ UpgradeFails(l) \/ Open(l)
         \/ \E r \in Requests : Send(l, r[1], r[2])
         \/ Receive(l) \/ TimesOut(l) \/ Leave(l)
         \/ Authenticate(l) \/ Publish(l) \/ Fetch(l)
         \/ Announce(l) \/ Subscribe(l) \/ Rendezvous(l) \/ Oversized(l)
         \/ \E kind \in MailboxKinds : Mailbox(l, kind)
         \/ Finish(l) \/ Close(l) \/ Ended(l)
    \/ Sweep
    \/ Tick

Spec == Init /\ [][Next]_vars

(***************************************************************************)
(* Properties.                                                             *)
(***************************************************************************)

\* An answer is taken for the request it answers: on a connection that is
\* still read and that has sent only requests the relay answers, every
\* answer on its way is that of the one request being waited for. A late
\* answer finds the connection lost (Connection::lost), a push is set aside.
AnswerIsOwn ==
    \A l \in Links :
        client[l].plain /\ ~client[l].lost =>
            \A i \in DOMAIN out[l] :
                ~IsPush(out[l][i]) =>
                    client[l].waiting /\ out[l][i].of = client[l].sent

\* Who is reachable and who is shown online: an account that no old
\* connection's close has signed out has an entry, and is online or away,
\* exactly while it is connected; an entry is never that of a connection
\* that ended, and nobody is shown online who is not connected.
PresenceIsTrue ==
    \A a \in Accounts :
        LET entry == relay.connections[a]
            shown == relay.presence[a] \in {"Online", "Away"}
        IN /\ entry # None => entry \in LinksOf(a)
           /\ shown => Connected(a)
           /\ a \notin overtaken =>
                (Connected(a) <=> entry # None) /\ (Connected(a) <=> shown)

\* The per-address limit holds for the addresses the clients really have,
\* whatever they write into a header: no more connections of one address
\* than MAX_CONNECTIONS_PER_ADDRESS hold a slot, and a slot is held exactly
\* as long as its connection, sweeps and failed upgrades included.
SlotsHeld ==
    \A c \in Clients :
        /\ Cardinality(HoldsSlot(c)) <= MaxConcurrent
        /\ slots[c] = Cardinality(HoldsSlot(c))

\* The count is that of the live connections, and the cap holds unless two
\* upgrades had passed its check before either was counted.
CapHeld ==
    /\ active = Cardinality(Counted)
    /\ ~burst => active <= ConnectionCap

\* A limiter's promise over any stretch from the start: its burst and one
\* more for each refill period. Reconnecting gives an account nothing new,
\* and neither does a bucket the sweep forgets.
AllowanceBounded ==
    \A key \in Keys : granted[key] <= Capacity[key[1]] + clock

\* What the relay keeps for an account that published, or that is connected
\* (and was not signed out by an old connection's close), no step takes
\* away: the evidence of its fetches and its subscriptions.
StaysKnown(a) == a \in relay'.directory \/ (Connected(a) /\ a \notin overtaken)

RelationshipsLast ==
    [][\A a \in Accounts : StaysKnown(a) =>
          /\ relay.evidence[a] \subseteq relay'.evidence[a]
          /\ \A t \in Accounts :
                a \in relay.subscriptions[t] => a \in relay'.subscriptions[t]]_vars
=============================================================================
