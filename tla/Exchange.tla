----------------------------- MODULE Exchange -----------------------------
(***************************************************************************)
(* The event loop of one node's swarm as far as it exchanges chunks and    *)
(* manifests: the commands of the SumNet handle, the table that correlates *)
(* answers with the requests this node sent, the channels on which inbound *)
(* requests are answered, and the bounded queue of events to the node.     *)
(*                                                                         *)
(* libp2p is outside: `wire' holds the requests it has not ended yet.  It  *)
(* ends each with one response or one failure within Timeout, it mints ids *)
(* per behaviour, and it may break either promise a bounded number of      *)
(* times (MaxReissue, MaxForget), which is what the table guards against.  *)
(***************************************************************************)
EXTENDS Integers, Sequences, FiniteSets

CONSTANTS
  Peers,          \* remote peers
  RequestsV1,     \* V1 pulls this node sends: records [cid]
  RequestsV2,     \* V2 requests: records [op, subject]
  ManifestCids,   \* the cids with the prefix "manifest:"
  Subjects,       \* what a response may claim to be about
  NoSlot,         \* no entry in a table
  EventCap,       \* capacity of the event channel
  MaxRequests,    \* bound: requests sent by this node
  MaxInbound,     \* bound: requests received
  MaxReissue,     \* bound: ids libp2p mints again
  MaxForget,      \* bound: requests libp2p never ends
  Timeout,        \* libp2p's request timeout (120 s)
  ChannelTTL,     \* PENDING_CHANNEL_TIMEOUT (120 s)
  RecordTTL,      \* OUTBOUND_RECORD_TTL (300 s)
  PoisonTTL       \* POISON_TTL (600 s)

ASSUME TtlOrder ==
  /\ Timeout \in Nat /\ ChannelTTL \in Nat /\ RecordTTL \in Nat /\ PoisonTTL \in Nat
  /\ Timeout < RecordTTL /\ Timeout < PoisonTTL

ASSUME BoundsAreNatural ==
  /\ EventCap \in Nat /\ MaxRequests \in Nat /\ MaxInbound \in Nat
  /\ MaxReissue \in Nat /\ MaxForget \in Nat

\* ShardRequestV2 has these variants and no other.
ASSUME OpsAssumption ==
  \A r \in RequestsV2 : r.op \in {"Pull", "Push", "ManifestPush", "ManifestPull"}

VARIABLES
  running,        \* the loop has not returned
  events,         \* the event channel
  slots,          \* OutboundTracker: key -> NoSlot, pending or poisoned
  minted,         \* per behaviour, the last id it minted
  channels,       \* pending_shard_channels: channel id -> NoSlot or entry
  nextChannel,    \* next_channel_id
  wire,           \* requests libp2p has not ended
  faults,         \* ids reissued and requests forgotten so far
  sent,           \* history: every request sent, in order
  fate,           \* history: how each of them ended for the node
  answered        \* history: responses handed to libp2p

vars == <<running, events, slots, minted, channels, nextChannel, wire,
          faults, sent, fate, answered>>

---------------------------------------------------------------------------
(* Identity of a request. *)

Domains == {"v1", "v2"}

OutboundKey(domain, id) == <<domain, id>>

Keys == Domains \X (1 .. MaxRequests)

ChannelIds == 0 .. MaxInbound - 1

\* What this node asked for, from the request it built.
FromV1(req) ==
  [label |-> IF req.cid \in ManifestCids THEN "v1-manifest-pull"
                                         ELSE "v1-chunk-pull",
   subject |-> req.cid]

FromV2(req) ==
  [label |-> CASE req.op = "Pull"         -> "v2-chunk-pull"
               [] req.op = "Push"         -> "v2-chunk-push"
               [] req.op = "ManifestPush" -> "v2-manifest-push"
               [] req.op = "ManifestPull" -> "v2-manifest-pull",
   subject |-> req.subject]

Kinds == {FromV1(r) : r \in RequestsV1} \cup {FromV2(r) : r \in RequestsV2}

V1Labels == {"v1-chunk-pull", "v1-manifest-pull", "v1-chunk-push"}

Protocol(kind) == IF kind.label \in V1Labels THEN "v1" ELSE "v2"

\* The response shapes a stream of each protocol can decode to.
Shapes(domain) ==
  IF domain = "v1" THEN {"v1-response"}
  ELSE {"v2-data", "v2-push-ack", "v2-manifest-push-ack", "v2-manifest-data"}

ShapeFor(label) ==
  CASE label \in V1Labels           -> "v1-response"
    [] label = "v2-chunk-pull"      -> "v2-data"
    [] label = "v2-chunk-push"      -> "v2-push-ack"
    [] label = "v2-manifest-push"   -> "v2-manifest-push-ack"
    [] label = "v2-manifest-pull"   -> "v2-manifest-data"

\* OutboundRequestKind::check: right shape, and about what was asked.
Check(kind, resp) ==
  resp.shape = ShapeFor(kind.label) /\ resp.subject = kind.subject

\* A response as the codec delivers it on a stream of this behaviour.
Responses(domain) == [shape : Shapes(domain), subject : Subjects]

---------------------------------------------------------------------------
(* The event channel.  try_send never waits: a full queue loses the event. *)

Full == Len(events) >= EventCap

\* Mutant: the queue grows instead of losing the event.
TrySendUnbounded(e) == events' = Append(events, e)

TrySend(e) == events' = IF Full THEN events ELSE Append(events, e)

(* OutboundTracker.  A slot is NoSlot, a pending identity, or poison. *)

Pending(peer, kind) == [state |-> "pending", peer |-> peer, kind |-> kind, age |-> 0]

Poison == [state |-> "poisoned", age |-> 0]

\* What the two tables may hold besides NoSlot.
Slots == [state : {"pending"}, peer : Peers, kind : Kinds, age : 0 .. PoisonTTL]
           \cup [state : {"poisoned"}, age : 0 .. PoisonTTL]

Channels == [domain : Domains, age : 0 .. ChannelTTL + 1]

ASSUME NoSlotAssumption == NoSlot \notin Slots \cup Channels

\* Mutant: the first of two identities is kept.
RecordKeepsFirst(key, peer, kind) ==
  slots' = [slots EXCEPT ![key] = IF @ = NoSlot THEN Pending(peer, kind) ELSE @]

Record(key, peer, kind) ==
  slots' = IF Protocol(kind) # key[1] THEN slots
           ELSE [slots EXCEPT ![key] = IF @ = NoSlot THEN Pending(peer, kind)
                                                     ELSE Poison]

\* Mutant: a record is reaped at the request timeout.
ReapedAtTimeout(slot) ==
  IF slot # NoSlot /\ slot.age < Timeout THEN slot ELSE NoSlot

\* Mutant: poison is never reaped.
ReapedPendingOnly(slot) ==
  IF slot # NoSlot /\ slot.state = "pending" /\ slot.age >= RecordTTL
  THEN NoSlot ELSE slot

Reaped(slot) ==
  IF \/ slot = NoSlot
     \/ slot.state = "pending" /\ slot.age < RecordTTL
     \/ slot.state = "poisoned" /\ slot.age < PoisonTTL
  THEN slot ELSE NoSlot

---------------------------------------------------------------------------
\* next_event: the node takes the oldest event.
NextEvent ==
  /\ events # << >>
  /\ events' = Tail(events)
  /\ UNCHANGED <<running, slots, minted, channels, nextChannel, wire,
                 faults, sent, fate, answered>>

---------------------------------------------------------------------------
(* The loop: one command.  The callers of the SumNet handle wait for room in *)
(* the command channel and the loop takes commands in order, so a command is *)
(* modelled at the moment the loop takes it; a caller that comes after the   *)
(* loop has gone gets an error.                                              *)

\* send_request mints the behaviour's next id, or, when libp2p misbehaves,
\* one it has minted before.
Mint(domain) ==
  {<<minted[domain] + 1, faults>>} \cup
  IF faults.reissued < MaxReissue
  THEN {<<i, [faults EXCEPT !.reissued = @ + 1]>> : i \in 1 .. minted[domain]}
  ELSE {}

\* Classify, send, record_outbound.
Issue(domain, peer, kind) ==
  /\ running
  /\ Len(sent) < MaxRequests
  /\ \E m \in Mint(domain) :
       /\ minted' = [minted EXCEPT ![domain] = IF m[1] > @ THEN m[1] ELSE @]
       /\ faults' = m[2]
       /\ sent' = Append(sent, [key |-> OutboundKey(domain, m[1]),
                                peer |-> peer, kind |-> kind])
       /\ fate' = Append(fate, "open")
       /\ wire' = wire \cup {[uid |-> Len(sent) + 1, age |-> 0]}
       /\ Record(OutboundKey(domain, m[1]), peer, kind)
       /\ UNCHANGED <<running, events, channels, nextChannel, answered>>

\* request_shard_chunk, request_manifest -> SwarmCommand::RequestShard
RequestShard(peer, req) == Issue("v1", peer, FromV1(req))

\* pull_chunk_v2, push_chunk_v2, push_manifest_v2, pull_manifest_v2
RequestShardV2(peer, req) == Issue("v2", peer, FromV2(req))

\* Mutant: the behaviour of the channel is not compared.
TakesAnyDomain(chan, want) == channels[chan] # NoSlot

\* take_channel: only the behaviour a channel came from may answer on it.
Takes(chan, want) == channels[chan] # NoSlot /\ channels[chan].domain = want

\* respond_shard, respond_shard_v2.  The caller holds the channel id of some
\* earlier event and may name the wrong version; the loop has to notice.
SendShardResponse(chan, domain) ==
  /\ running
  /\ chan < nextChannel
  /\ Takes(chan, domain)
  /\ channels' = [channels EXCEPT ![chan] = NoSlot]
  /\ answered' = answered \cup {[channel |-> chan, by |-> domain,
                                 asked |-> channels[chan].domain]}
  /\ UNCHANGED <<running, events, slots, minted, nextChannel, wire, faults,
                 sent, fate>>

\* SwarmCommand::Shutdown, or the last handle is dropped.
Shutdown ==
  /\ running
  /\ running' = FALSE
  /\ UNCHANGED <<events, slots, minted, channels, nextChannel, wire, faults,
                 sent, fate, answered>>

---------------------------------------------------------------------------
(* The loop: one event of libp2p. *)

\* Mutant: the channel stays filed when the announcement is lost.
OnInboundRequestKept(domain) ==
  /\ running
  /\ nextChannel < MaxInbound
  /\ nextChannel' = nextChannel + 1
  /\ channels' = [channels EXCEPT ![nextChannel] = [domain |-> domain, age |-> 0]]
  /\ TrySend([event |-> "ShardRequested", channel |-> nextChannel,
              domain |-> domain])
  /\ UNCHANGED <<running, slots, minted, wire, faults, sent, fate, answered>>

\* on_inbound_request: file the channel, announce the request, and take the
\* channel back if the announcement is lost.
OnInboundRequest(domain) ==
  /\ running
  /\ nextChannel < MaxInbound
  /\ nextChannel' = nextChannel + 1
  /\ channels' = [channels EXCEPT ![nextChannel] =
                    IF Full THEN NoSlot ELSE [domain |-> domain, age |-> 0]]
  /\ TrySend([event |-> "ShardRequested", channel |-> nextChannel,
              domain |-> domain])
  /\ UNCHANGED <<running, slots, minted, wire, faults, sent, fate, answered>>

\* The terminal event of wire request w has been reported with outcome o.
Ended(w, o) ==
  /\ wire' = wire \ {w}
  /\ fate' = [fate EXCEPT ![w.uid] = o]

Slot(w) == slots[sent[w.uid].key]

\* What correlate_response and on_failure remove: a pending record on every
\* path; poison stays for the reaper.
Spend(w) ==
  slots' = [slots EXCEPT ![sent[w.uid].key] =
              IF @ # NoSlot /\ @.state = "pending" THEN NoSlot ELSE @]

Unmatched(w) ==
  CASE Slot(w) = NoSlot             -> "unknown"
    [] Slot(w).state = "poisoned"   -> "poisoned"
    [] OTHER                        -> "refused"

Origin(w) == [peer |-> Slot(w).peer, kind |-> Slot(w).kind]

IsPending(w) == Slot(w) # NoSlot /\ Slot(w).state = "pending"

\* on_inbound_response.  The answer comes from some peer and claims some
\* shape and subject; only one that fits the record is surfaced.
OnInboundResponse(w, from, resp) ==
  LET fits == IsPending(w) /\ Slot(w).peer = from /\ Check(Slot(w).kind, resp)
  IN  /\ running
      /\ Spend(w)
      /\ Ended(w, IF ~fits THEN Unmatched(w)
                  ELSE IF Full THEN "dropped" ELSE "surfaced")
      /\ IF fits
         THEN TrySend([event |-> "ShardReceived", uid |-> w.uid,
                       peer |-> from, response |-> resp, origin |-> Origin(w)])
         ELSE UNCHANGED events
      /\ UNCHANGED <<running, minted, channels, nextChannel, faults, sent,
                     answered>>

\* on_outbound_failure: the request cannot be read or written (version or
\* size), the peer cannot be reached, or Timeout has passed.
OnOutboundFailure(w, from) ==
  LET fits == IsPending(w) /\ Slot(w).peer = from
  IN  /\ running
      /\ Spend(w)
      /\ Ended(w, IF ~fits THEN Unmatched(w)
                  ELSE IF Full THEN "dropped" ELSE "surfaced")
      /\ IF fits
         THEN TrySend([event |-> "ShardRequestFailed", uid |-> w.uid,
                       peer |-> Slot(w).peer, origin |-> Origin(w)])
         ELSE UNCHANGED events
      /\ UNCHANGED <<running, minted, channels, nextChannel, faults, sent,
                     answered>>

\* Discovery, gossip, identify, NAT and connection events share the queue.
OnOtherEvent ==
  /\ running
  /\ ~Full
  /\ TrySend([event |-> "Other"])
  /\ UNCHANGED <<running, slots, minted, channels, nextChannel, wire,
                 faults, sent, fate, answered>>

\* reap_orphaned_channels, on the reaper's interval.
Reap ==
  /\ running
  /\ slots' = [k \in Keys |-> Reaped(slots[k])]
  /\ channels' = [c \in ChannelIds |->
                    IF channels[c] # NoSlot /\ channels[c].age > ChannelTTL
                    THEN NoSlot ELSE channels[c]]
  /\ UNCHANGED <<running, events, minted, nextChannel, wire, faults, sent,
                 fate, answered>>

---------------------------------------------------------------------------
(* Time, and libp2p forgetting a request. *)

Cap(n, max) == IF n < max THEN n + 1 ELSE n

Aged(entry, max) ==
  IF entry = NoSlot THEN NoSlot ELSE [entry EXCEPT !.age = Cap(@, max)]

Tick ==
  /\ \A w \in wire : w.age < Timeout
  /\ slots' = [k \in Keys |-> Aged(slots[k], PoisonTTL)]
  /\ channels' = [c \in ChannelIds |-> Aged(channels[c], ChannelTTL + 1)]
  /\ wire' = {[w EXCEPT !.age = @ + 1] : w \in wire}
  /\ UNCHANGED <<running, events, minted, nextChannel, faults, sent, fate,
                 answered>>

Forget(w) ==
  /\ faults.forgotten < MaxForget
  /\ faults' = [faults EXCEPT !.forgotten = @ + 1]
  /\ Ended(w, "forgotten")
  /\ UNCHANGED <<running, events, slots, minted, channels, nextChannel,
                 sent, answered>>

---------------------------------------------------------------------------

Init ==
  /\ running = TRUE
  /\ events = << >>
  /\ slots = [k \in Keys |-> NoSlot]
  /\ minted = [d \in Domains |-> 0]
  /\ channels = [c \in ChannelIds |-> NoSlot]
  /\ nextChannel = 0
  /\ wire = {}
  /\ faults = [reissued |-> 0, forgotten |-> 0]
  /\ sent = << >> /\ fate = << >> /\ answered = {}

Terminal(w) ==
  \/ \E p \in Peers : OnOutboundFailure(w, p)
  \/ \E p \in Peers : \E resp \in Responses(sent[w.uid].key[1]) :
       OnInboundResponse(w, p, resp)

Next ==
  \/ \E p \in Peers, r \in RequestsV1 : RequestShard(p, r)
  \/ \E p \in Peers, r \in RequestsV2 : RequestShardV2(p, r)
  \/ \E c \in ChannelIds, d \in Domains : SendShardResponse(c, d)
  \/ Shutdown
  \/ NextEvent
  \/ \E d \in Domains : OnInboundRequest(d)
  \/ \E w \in wire : Terminal(w)
  \/ \E w \in wire : Forget(w)
  \/ OnOtherEvent
  \/ Reap
  \/ Tick

\* The loop keeps polling its three sources, libp2p ends what it has not
\* forgotten, and time passes.  Nothing is assumed of the node.
Fairness ==
  /\ WF_vars(Reap) /\ WF_vars(Tick)
  /\ WF_vars(\E w \in wire : Terminal(w))

Spec == Init /\ [][Next]_vars /\ Fairness

---------------------------------------------------------------------------
(* Properties *)

\* What the node may find in the queue, and how a request may have ended.
Origins == [peer : Peers, kind : Kinds]

Events ==
  [event : {"ShardRequested"}, channel : ChannelIds, domain : Domains]
    \cup [event : {"ShardReceived"}, uid : 1 .. MaxRequests, peer : Peers,
          response : UNION {Responses(d) : d \in Domains}, origin : Origins]
    \cup [event : {"ShardRequestFailed"}, uid : 1 .. MaxRequests, peer : Peers,
          origin : Origins]
    \cup [event : {"Other"}]

Fates == {"open", "surfaced", "dropped", "refused", "poisoned", "unknown", "forgotten"}

\* The state is well formed: tables hold what the code's types allow, queues
\* stay within their capacity, and every request libp2p still holds was sent.
TypeOK ==
  /\ running \in BOOLEAN
  /\ events \in Seq(Events) /\ Len(events) <= EventCap
  /\ slots \in [Keys -> Slots \cup {NoSlot}]
  /\ minted \in [Domains -> 0 .. MaxRequests]
  /\ channels \in [ChannelIds -> Channels \cup {NoSlot}]
  /\ nextChannel \in 0 .. MaxInbound
  /\ sent \in Seq([key : Keys, peer : Peers, kind : Kinds])
  /\ wire \subseteq [uid : 1 .. Len(sent), age : 0 .. Timeout]
  /\ faults \in [reissued : 0 .. MaxReissue, forgotten : 0 .. MaxForget]
  /\ fate \in Seq(Fates) /\ Len(fate) = Len(sent)
  /\ answered \subseteq [channel : ChannelIds, by : Domains, asked : Domains]

\* What the node is told is about the request that really ended: the origin
\* in every ShardReceived and ShardRequestFailed is the peer and the kind that
\* were sent, the data comes from that peer, and it has the shape and subject
\* that were asked for -- also when libp2p mints an id twice while the first
\* request under it is out (OutboundTracker::record keeps neither identity).
OriginIsTheRequest ==
  \A i \in 1 .. Len(events) :
    LET e == events[i]
    IN  e.event \in {"ShardReceived", "ShardRequestFailed"} =>
          /\ e.origin = [peer |-> sent[e.uid].peer, kind |-> sent[e.uid].kind]
          /\ e.peer = sent[e.uid].peer
          /\ e.event = "ShardReceived" => Check(sent[e.uid].kind, e.response)

\* A record outlives its request: no response and no failure ever finds its
\* record gone, so OUTBOUND_RECORD_TTL is only a backstop (reap), and a
\* request is abandoned as poisoned only if libp2p really minted an id twice.
RecordsOutliveRequests ==
  /\ \A u \in 1 .. Len(fate) : fate[u] # "unknown"
  /\ (faults.reissued = 0) => \A u \in 1 .. Len(fate) : fate[u] # "poisoned"

\* A response leaves only on the behaviour its request arrived on, and only
\* one for each request (take_channel), whatever version the caller names.
AnsweredOnItsBehaviour ==
  \A a \in answered :
    /\ a.by = a.asked
    /\ channels[a.channel] = NoSlot
    /\ \A b \in answered : b.channel = a.channel => b = a

\* No inbound request is kept without the node knowing of it: a channel that
\* is filed and young was announced, or its announcement is still queued.
FiledIsAnnounced ==
  [][\A c \in ChannelIds :
       (channels[c] = NoSlot /\ channels'[c] # NoSlot) =>
         \E i \in 1 .. Len(events') :
           /\ events'[i].event = "ShardRequested"
           /\ events'[i].channel = c
           /\ events'[i].domain = channels'[c].domain]_vars

\* Nothing stays in the tables for the life of the process: a record, poison
\* or channel leaves, although requests may be forgotten by libp2p and
\* channels never answered by the node.
TablesDrain ==
  /\ \A k \in Keys : (slots[k] # NoSlot) ~> (slots[k] = NoSlot \/ ~running)
  /\ \A c \in ChannelIds :
       (channels[c] # NoSlot) ~> (channels[c] = NoSlot \/ ~running)

\* Requests are not mixed up, in either direction: what the node hears of a
\* request is about that request, and an answer leaves on the behaviour its
\* request came by.
RequestsAreKeptApart == TypeOK /\ OriginIsTheRequest /\ AnsweredOnItsBehaviour

\* No exchange is forgotten: an inbound request that is filed is announced, and
\* what is in a table leaves it.
ExchangesEnd == FiledIsAnnounced /\ TablesDrain
===========================================================================
