---------------------------- MODULE ExchangeProofs ----------------------------
(***************************************************************************)
(* Proofs about Exchange, for any peers, requests, capacities, bounds and  *)
(* timeouts that keep TtlOrder: IInv is inductive and the properties       *)
(* follow from it.  And about Owner, the operator's commands on the other  *)
(* side of the node, for any accounts, files, menus, limits and chain: the *)
(* same with OwnerIInv.                                                    *)
(***************************************************************************)
EXTENDS Exchange, Owner, SequenceTheorems, WellFoundedInduction, TLAPS

\* Ids are minted in order, and a table entry is under a minted id.
IdsAreMinted ==
  /\ Len(sent) <= MaxRequests
  /\ \A d \in Domains : minted[d] <= Len(sent)
  /\ \A k \in Keys : slots[k] # NoSlot => k[2] <= minted[k[1]]

\* Every request libp2p holds has an entry that is not older than the request.
\* A pending entry is of the only request under its key.
WireIsTracked ==
  \A w \in wire :
    /\ Slot(w) # NoSlot /\ Slot(w).age <= w.age
    /\ Slot(w).state = "pending" =>
         /\ Slot(w).peer = sent[w.uid].peer /\ Slot(w).kind = sent[w.uid].kind
         /\ \A v \in wire : sent[v.uid].key = sent[w.uid].key => v = w

\* Poison is there only after an id was minted twice.
PoisonIsReissue ==
  faults.reissued = 0 => \A k \in Keys : slots[k] # NoSlot => slots[k].state # "poisoned"

\* An event about a request is about one that was sent, and tells the truth.
EventIsTrue(e) ==
  e.event \in {"ShardReceived", "ShardRequestFailed"} =>
    /\ e.uid \in 1 .. Len(sent)
    /\ e.origin = [peer |-> sent[e.uid].peer, kind |-> sent[e.uid].kind]
    /\ e.peer = sent[e.uid].peer
    /\ e.event = "ShardReceived" => Check(sent[e.uid].kind, e.response)

EventsAreTrue == \A i \in 1 .. Len(events) : EventIsTrue(events[i])

\* A channel that was answered on was handed out before.
AnsweredIsPast == \A a \in answered : a.channel < nextChannel

IInv ==
  /\ TypeOK /\ IdsAreMinted /\ WireIsTracked /\ PoisonIsReissue
  /\ EventsAreTrue /\ AnsweredIsPast /\ AnsweredOnItsBehaviour
  /\ RecordsOutliveRequests

-------------------------------------------------------------------------------
(* Lemmas *)

\* A request is classified under the protocol it is sent with.
LEMMA KindsFit ==
  /\ \A r \in RequestsV1 : FromV1(r) \in Kinds /\ Protocol(FromV1(r)) = "v1"
  /\ \A r \in RequestsV2 : FromV2(r) \in Kinds /\ Protocol(FromV2(r)) = "v2"
<1>1. ASSUME NEW r \in RequestsV1
      PROVE  FromV1(r) \in Kinds /\ Protocol(FromV1(r)) = "v1"
  BY DEF Kinds, FromV1, Protocol, V1Labels
<1>2. ASSUME NEW r \in RequestsV2
      PROVE  FromV2(r) \in Kinds /\ Protocol(FromV2(r)) = "v2"
  <2>1. FromV2(r).label \notin V1Labels
    BY OpsAssumption DEF FromV2, V1Labels
  <2> QED
    BY <2>1 DEF Kinds, Protocol
<1> QED
  BY <1>1, <1>2

\* The two forms of an entry.
LEMMA SlotForms ==
  /\ NoSlot \notin Slots
  /\ \A s \in Slots : s.state \in {"pending", "poisoned"} /\ s.age \in 0 .. PoisonTTL
  /\ \A s \in Slots : s.state = "pending" => s.peer \in Peers /\ s.kind \in Kinds
  /\ \A p \in Peers, k \in Kinds :
        Pending(p, k) \in Slots /\ Pending(p, k).state = "pending"
          /\ Pending(p, k).peer = p /\ Pending(p, k).kind = k /\ Pending(p, k).age = 0
  /\ Poison \in Slots /\ Poison.state = "poisoned" /\ Poison.age = 0
<1>1. NoSlot \notin Slots
  BY NoSlotAssumption
<1>2. \A s \in Slots : s.state \in {"pending", "poisoned"} /\ s.age \in 0 .. PoisonTTL
  BY DEF Slots
<1>3. \A s \in Slots : s.state = "pending" => s.peer \in Peers /\ s.kind \in Kinds
  BY DEF Slots
<1>4. ASSUME NEW p \in Peers, NEW k \in Kinds
      PROVE  /\ Pending(p, k) \in Slots /\ Pending(p, k).state = "pending"
             /\ Pending(p, k).peer = p /\ Pending(p, k).kind = k /\ Pending(p, k).age = 0
  BY TtlOrder DEF Slots, Pending
<1>5. Poison \in Slots /\ Poison.state = "poisoned" /\ Poison.age = 0
  BY TtlOrder DEF Slots, Poison
<1> QED
  BY <1>1, <1>2, <1>3, <1>4, <1>5

\* What is known of a request that libp2p holds.
LEMMA WireTyped ==
  ASSUME TypeOK, NEW w \in wire
  PROVE  /\ w.uid \in 1 .. Len(sent) /\ w.age \in 0 .. Timeout
         /\ w = [uid |-> w.uid, age |-> w.age]
         /\ sent[w.uid] \in [key : Keys, peer : Peers, kind : Kinds]
         /\ sent[w.uid].key \in Keys /\ sent[w.uid].peer \in Peers
         /\ sent[w.uid].kind \in Kinds
         /\ Slot(w) \in Slots \cup {NoSlot}
<1>1. /\ w.uid \in 1 .. Len(sent) /\ w.age \in 0 .. Timeout
      /\ w = [uid |-> w.uid, age |-> w.age]
  BY DEF TypeOK
<1>2. sent[w.uid] \in [key : Keys, peer : Peers, kind : Kinds]
  BY <1>1, ElementOfSeq DEF TypeOK
<1> QED
  BY <1>1, <1>2 DEF TypeOK, Slot

\* try_send adds the event at the end or loses it.
LEMMA TrySendKeeps ==
  ASSUME TypeOK, NEW e \in Events, TrySend(e)
  PROVE  /\ events' \in Seq(Events) /\ Len(events') <= EventCap
         /\ \A i \in 1 .. Len(events') :
              (i \in 1 .. Len(events) /\ events'[i] = events[i]) \/ events'[i] = e
<1>1. events \in Seq(Events) /\ Len(events) <= EventCap /\ EventCap \in Nat
  BY BoundsAreNatural DEF TypeOK
<1>2. CASE Full
  BY <1>1, <1>2 DEF TrySend
<1>3. CASE ~Full
  <2>1. events' = Append(events, e) /\ Len(events) < EventCap /\ Len(events) \in Nat
    BY <1>1, <1>3 DEF TrySend, Full
  <2>2. /\ events' \in Seq(Events) /\ Len(events') = Len(events) + 1
        /\ \A i \in 1 .. Len(events) : events'[i] = events[i]
        /\ events'[Len(events) + 1] = e
    BY <1>1, <2>1, AppendProperties
  <2> QED
    BY <1>1, <2>1, <2>2
<1> QED
  BY <1>2, <1>3

\* What the node hears stays true when an event is added that is true.
LEMMA TrueEventsKept ==
  ASSUME TypeOK, EventsAreTrue, sent' = sent,
         \/ events' = events
         \/ \E e \in Events : TrySend(e) /\ EventIsTrue(e)
  PROVE  /\ events' \in Seq(Events) /\ Len(events') <= EventCap
         /\ EventsAreTrue'
<1>1. CASE events' = events
  BY <1>1 DEF TypeOK, EventsAreTrue, EventIsTrue
<1>2. ASSUME NEW e \in Events, TrySend(e), EventIsTrue(e)
      PROVE  /\ events' \in Seq(Events) /\ Len(events') <= EventCap
             /\ EventsAreTrue'
  <2>1. /\ events' \in Seq(Events) /\ Len(events') <= EventCap
        /\ \A i \in 1 .. Len(events') :
             (i \in 1 .. Len(events) /\ events'[i] = events[i]) \/ events'[i] = e
    BY <1>2, TrySendKeeps
  <2>2. \A i \in 1 .. Len(events') : EventIsTrue(events'[i])
    BY <1>2, <2>1 DEF EventsAreTrue
  <2>3. EventsAreTrue'
    BY <2>2 DEF EventsAreTrue, EventIsTrue
  <2> QED
    BY <2>1, <2>3
<1> QED
  BY <1>1, <1>2

\* When a request ends, its pending entry is spent, and the others keep theirs.
LEMMA RequestEnds ==
  ASSUME IInv, NEW w \in wire, NEW o \in Fates, Spend(w), Ended(w, o),
         o # "unknown", o = "poisoned" => Slot(w).state = "poisoned",
         UNCHANGED <<running, minted, channels, nextChannel, faults, sent, answered>>,
         \/ events' = events
         \/ \E e \in Events : TrySend(e) /\ EventIsTrue(e)
  PROVE  IInv'
<1> DEFINE key == sent[w.uid].key
<1>1. /\ w.uid \in 1 .. Len(sent) /\ key \in Keys /\ Slot(w) = slots[key]
      /\ slots \in [Keys -> Slots \cup {NoSlot}] /\ Slot(w) \in Slots
  BY WireTyped DEF IInv, TypeOK, Slot, WireIsTracked
<1>2. /\ slots' \in [Keys -> Slots \cup {NoSlot}]
      /\ \A k \in Keys : slots'[k] = slots[k] \/ slots'[k] = NoSlot
      /\ \A k \in Keys : k # key \/ Slot(w).state # "pending" => slots'[k] = slots[k]
  BY <1>1 DEF Spend
<1>3. /\ fate' \in Seq(Fates) /\ Len(fate') = Len(fate)
      /\ \A u \in 1 .. Len(fate) : fate'[u] = fate[u] \/ (u = w.uid /\ fate'[u] = o)
  <2>1. /\ fate \in Seq(Fates) /\ w.uid \in 1 .. Len(fate)
        /\ fate' = [fate EXCEPT ![w.uid] = o]
    BY <1>1 DEF IInv, TypeOK, Ended
  <2> QED
    BY <2>1, ExceptSeq
<1>4. wire' = wire \ {w}
  BY DEF Ended
<1>5. events' \in Seq(Events) /\ Len(events') <= EventCap /\ EventsAreTrue'
  BY TrueEventsKept DEF IInv
<1>6. TypeOK'
  BY <1>2, <1>3, <1>4, <1>5 DEF IInv, TypeOK
<1>7. IdsAreMinted'
  BY <1>2 DEF IInv, IdsAreMinted
<1>8. WireIsTracked'
  <2> SUFFICES ASSUME NEW v \in wire'
               PROVE  /\ Slot(v)' # NoSlot /\ Slot(v)'.age <= v.age
                      /\ Slot(v)'.state = "pending" =>
                           /\ Slot(v)'.peer = sent[v.uid].peer
                           /\ Slot(v)'.kind = sent[v.uid].kind
                           /\ \A u \in wire' : sent[u.uid].key = sent[v.uid].key => u = v
    BY DEF WireIsTracked, Slot
  <2>1. v \in wire /\ v # w
    BY <1>4
  <2>2. sent[v.uid].key \in Keys
    BY <2>1, WireTyped DEF IInv
  <2>3. Slot(w).state = "pending" => sent[v.uid].key # key
    BY <2>1 DEF IInv, WireIsTracked
  <2>4. Slot(v)' = Slot(v)
    BY <1>2, <2>2, <2>3 DEF Slot
  <2> QED
    BY <1>4, <2>1, <2>4 DEF IInv, WireIsTracked
<1>9. PoisonIsReissue'
  BY <1>2 DEF IInv, PoisonIsReissue
<1>10. AnsweredIsPast' /\ AnsweredOnItsBehaviour'
  BY DEF IInv, AnsweredIsPast, AnsweredOnItsBehaviour
<1>11. RecordsOutliveRequests'
  <2>1. o = "poisoned" => faults.reissued # 0
    BY <1>1, SlotForms DEF IInv, PoisonIsReissue
  <2> QED
    BY <1>3, <2>1 DEF IInv, RecordsOutliveRequests
<1> QED
  BY <1>5, <1>6, <1>7, <1>8, <1>9, <1>10, <1>11 DEF IInv


\* A request that is sent is recorded under the id it was given, unless that id
\* already has an entry, which is then poisoned.
LEMMA IssueKeeps ==
  ASSUME IInv, NEW domain \in Domains, NEW peer \in Peers, NEW kind \in Kinds,
         Protocol(kind) = domain, Issue(domain, peer, kind)
  PROVE  IInv'
<1> USE BoundsAreNatural, TtlOrder
<1>1. PICK m \in Mint(domain) :
        /\ minted' = [minted EXCEPT ![domain] = IF m[1] > @ THEN m[1] ELSE @]
        /\ faults' = m[2]
        /\ sent' = Append(sent, [key |-> OutboundKey(domain, m[1]),
                                 peer |-> peer, kind |-> kind])
        /\ fate' = Append(fate, "open")
        /\ wire' = wire \cup {[uid |-> Len(sent) + 1, age |-> 0]}
        /\ Record(OutboundKey(domain, m[1]), peer, kind)
        /\ UNCHANGED <<running, events, channels, nextChannel, answered>>
  BY DEF Issue
<1> DEFINE n == Len(sent) + 1
           key == OutboundKey(domain, m[1])
           new == [uid |-> n, age |-> 0]
<1>2. /\ Len(sent) \in Nat /\ n <= MaxRequests /\ minted[domain] \in 0 .. Len(sent)
      /\ minted \in [Domains -> 0 .. MaxRequests]
  BY DEF IInv, TypeOK, IdsAreMinted, Issue
<1>3. /\ m[1] \in 1 .. minted[domain] + 1
      /\ faults' \in [reissued : 0 .. MaxReissue, forgotten : 0 .. MaxForget]
      /\ (m[1] = minted[domain] + 1 /\ faults' = faults) \/ faults'.reissued # 0
  <2>1. faults \in [reissued : 0 .. MaxReissue, forgotten : 0 .. MaxForget]
    BY DEF IInv, TypeOK
  <2>2. CASE m = <<minted[domain] + 1, faults>>
    <3>1. m[1] = minted[domain] + 1 /\ faults' = faults
      BY <1>1, <2>2
    <3>2. minted[domain] \in Nat /\ minted[domain] + 1 \in 1 .. minted[domain] + 1
      BY <1>2
    <3> QED
      BY <2>1, <3>1, <3>2
  <2>3. ASSUME NEW i \in 1 .. minted[domain], faults.reissued < MaxReissue,
               m = <<i, [faults EXCEPT !.reissued = @ + 1]>>
        PROVE  <1>3!1 /\ <1>3!2 /\ <1>3!3
    <3>1. m[1] = i /\ faults' = [faults EXCEPT !.reissued = @ + 1]
      BY <1>1, <2>3
    <3>2. faults.reissued \in Nat /\ faults'.reissued = faults.reissued + 1
      BY <2>1, <3>1
    <3>3. faults' \in [reissued : 0 .. MaxReissue, forgotten : 0 .. MaxForget]
      BY <2>1, <2>3, <3>1, <3>2
    <3>4. i \in 1 .. minted[domain] + 1
      BY <1>2, <2>3
    <3>5. faults'.reissued # 0
      BY <3>2
    <3> QED
      BY <3>1, <3>3, <3>4, <3>5
  <2> QED
    BY <2>2, <2>3 DEF Mint
<1>4. key \in Keys /\ key[1] = domain /\ key[2] = m[1]
  BY <1>2, <1>3 DEF OutboundKey, Keys
<1>5. /\ slots \in [Keys -> Slots \cup {NoSlot}]
      /\ slots' = [slots EXCEPT ![key] = IF @ = NoSlot THEN Pending(peer, kind) ELSE Poison]
  BY <1>1, <1>4 DEF Record, IInv, TypeOK
<1>6. /\ slots' \in [Keys -> Slots \cup {NoSlot}]
      /\ \A k \in Keys : k # key => slots'[k] = slots[k]
      /\ slots[key] = NoSlot => slots'[key] = Pending(peer, kind)
      /\ slots[key] # NoSlot => slots'[key] = Poison
  BY <1>4, <1>5, SlotForms
<1>7. /\ sent' \in Seq([key : Keys, peer : Peers, kind : Kinds]) /\ Len(sent') = n
      /\ \A u \in 1 .. Len(sent) : sent'[u] = sent[u]
      /\ sent'[n] = [key |-> key, peer |-> peer, kind |-> kind]
  <2>1. sent \in Seq([key : Keys, peer : Peers, kind : Kinds])
    BY DEF IInv, TypeOK
  <2>2. [key |-> key, peer |-> peer, kind |-> kind]
           \in [key : Keys, peer : Peers, kind : Kinds]
    BY <1>4
  <2> QED
    BY <1>1, <2>1, <2>2, AppendProperties
<1>8. /\ fate' \in Seq(Fates) /\ Len(fate') = n
      /\ \A u \in 1 .. Len(fate) : fate'[u] = fate[u]
      /\ fate'[n] = "open"
  <2>1. fate \in Seq(Fates) /\ Len(fate) = Len(sent) /\ "open" \in Fates
    BY DEF IInv, TypeOK, Fates
  <2> QED
    BY <1>1, <2>1, AppendProperties
<1>9. /\ minted' \in [Domains -> 0 .. MaxRequests]
      /\ \A d \in Domains : minted[d] <= minted'[d] /\ minted'[d] <= Len(sent')
      /\ m[1] <= minted'[domain]
  <2> DEFINE id == IF m[1] > minted[domain] THEN m[1] ELSE minted[domain]
  <2>1. id \in 0 .. n /\ minted[domain] <= id /\ m[1] <= id /\ id \in 0 .. MaxRequests
    BY <1>2, <1>3
  <2>2. minted' = [minted EXCEPT ![domain] = id]
    BY <1>1
  <2>3. \A d \in Domains : minted[d] \in 0 .. Len(sent)
    BY DEF IInv, TypeOK, IdsAreMinted
  <2> HIDE DEF id
  <2>4. minted' \in [Domains -> 0 .. MaxRequests] /\ minted'[domain] = id
    BY <1>2, <2>1, <2>2
  <2>5. \A d \in Domains : d # domain => minted'[d] = minted[d]
    BY <1>2, <2>2
  <2>6. ASSUME NEW d \in Domains PROVE minted[d] <= minted'[d] /\ minted'[d] <= n
    <3>1. CASE d = domain
      BY <1>2, <2>1, <2>4, <3>1
    <3>2. CASE d # domain
      BY <1>2, <2>3, <2>5, <3>2
    <3> QED
      BY <3>1, <3>2
  <2> QED
    BY <1>7, <2>1, <2>4, <2>6
<1>10. TypeOK'
  <2>1. wire' \subseteq [uid : 1 .. Len(sent'), age : 0 .. Timeout]
    <3>1. new \in [uid : 1 .. Len(sent'), age : 0 .. Timeout]
      BY <1>2, <1>7
    <3>2. wire \subseteq [uid : 1 .. Len(sent), age : 0 .. Timeout]
      BY DEF IInv, TypeOK
    <3>3. 1 .. Len(sent) \subseteq 1 .. Len(sent')
      BY <1>2, <1>7
    <3> QED
      BY <1>1, <3>1, <3>2, <3>3
  <2> QED
    BY <1>1, <1>3, <1>6, <1>7, <1>8, <1>9, <2>1 DEF IInv, TypeOK
<1>11. IdsAreMinted'
  <2>1. \A k \in Keys : slots'[k] # NoSlot => k[2] <= minted'[k[1]]
    <3> SUFFICES ASSUME NEW k \in Keys, slots'[k] # NoSlot PROVE k[2] <= minted'[k[1]]
      OBVIOUS
    <3>1. CASE k = key
      BY <1>4, <1>9, <3>1
    <3>2. CASE k # key
      <4>1. k[1] \in Domains /\ k[2] \in Nat /\ k[2] <= minted[k[1]]
        BY <1>6, <3>2 DEF IInv, IdsAreMinted, Keys
      <4> QED
        BY <1>2, <1>9, <4>1
    <3> QED
      BY <3>1, <3>2
  <2> QED
    BY <1>2, <1>7, <1>9, <2>1 DEF IdsAreMinted
<1>12. WireIsTracked'
  <2>1. \A v \in wire : v.uid \in 1 .. Len(sent) /\ sent'[v.uid] = sent[v.uid]
                        /\ sent[v.uid].key \in Keys /\ v.age \in Nat
    BY <1>7, WireTyped DEF IInv
  <2>2. \A v \in wire : sent[v.uid].key = key => slots[key] # NoSlot
    BY DEF IInv, WireIsTracked, Slot
  <2>3. new.uid = n /\ new.age = 0 /\ sent'[new.uid].key = key
        /\ sent'[new.uid].peer = peer /\ sent'[new.uid].kind = kind
    BY <1>7
  <2> SUFFICES ASSUME NEW v \in wire'
               PROVE  /\ Slot(v)' # NoSlot /\ Slot(v)'.age <= v.age
                      /\ Slot(v)'.state = "pending" =>
                           /\ Slot(v)'.peer = sent'[v.uid].peer
                           /\ Slot(v)'.kind = sent'[v.uid].kind
                           /\ \A u \in wire' : sent'[u.uid].key = sent'[v.uid].key => u = v
    BY DEF WireIsTracked, Slot
  <2>4. CASE v = new
    <3>1. Slot(v)' = slots'[key]
      BY <2>3, <2>4 DEF Slot
    <3>2. CASE slots[key] = NoSlot
      BY <1>1, <1>6, <2>1, <2>2, <2>3, <2>4, <3>1, <3>2, SlotForms
    <3>3. CASE slots[key] # NoSlot
      BY <1>6, <2>3, <2>4, <3>1, <3>3, SlotForms
    <3> QED
      BY <3>2, <3>3
  <2>5. CASE v \in wire /\ sent[v.uid].key = key
    <3>1. Slot(v)' = Poison
      BY <1>6, <2>1, <2>2, <2>5 DEF Slot
    <3> QED
      BY <2>1, <2>5, <3>1, SlotForms
  <2>6. CASE v \in wire /\ sent[v.uid].key # key
    <3>1. Slot(v)' = Slot(v)
      BY <1>6, <2>1, <2>6 DEF Slot
    <3>2. \A u \in wire' : sent'[u.uid].key = sent'[v.uid].key
              => u \in wire /\ sent[u.uid].key = sent[v.uid].key
      BY <1>1, <2>1, <2>3, <2>6
    <3> QED
      BY <2>1, <2>6, <3>1, <3>2 DEF IInv, WireIsTracked
  <2> QED
    BY <1>1, <2>4, <2>5, <2>6
<1>13. PoisonIsReissue'
  <2> SUFFICES ASSUME faults'.reissued = 0, NEW k \in Keys, slots'[k] # NoSlot
               PROVE  slots'[k].state # "poisoned"
    BY DEF PoisonIsReissue
  <2>1. m[1] = minted[domain] + 1 /\ faults' = faults
    BY <1>3
  <2>2. slots[key] = NoSlot
    BY <1>2, <1>4, <2>1 DEF IInv, IdsAreMinted
  <2> QED
    BY <1>6, <2>1, <2>2, SlotForms DEF IInv, PoisonIsReissue
<1>14. EventsAreTrue'
  <2>1. ASSUME NEW e, EventIsTrue(e) PROVE EventIsTrue(e)'
    BY <1>2, <1>7, <2>1 DEF EventIsTrue
  <2> QED
    BY <1>1, <2>1 DEF IInv, EventsAreTrue
<1>15. AnsweredIsPast' /\ AnsweredOnItsBehaviour'
  BY <1>1 DEF IInv, AnsweredIsPast, AnsweredOnItsBehaviour
<1>16. RecordsOutliveRequests'
  <2>1. faults'.reissued = 0 => faults.reissued = 0
    BY <1>3
  <2>2. \A u \in 1 .. Len(fate') :
           fate'[u] = "open" \/ (u \in 1 .. Len(fate) /\ fate'[u] = fate[u])
    BY <1>2, <1>8 DEF IInv, TypeOK
  <2> QED
    BY <2>1, <2>2 DEF IInv, RecordsOutliveRequests
<1> QED
  BY <1>10, <1>11, <1>12, <1>13, <1>14, <1>15, <1>16 DEF IInv


\* Every step preserves the invariant.
LEMMA StepPreserves == IInv /\ [Next]_vars => IInv'
<1> SUFFICES ASSUME IInv, [Next]_vars PROVE IInv'
  OBVIOUS
<1> USE BoundsAreNatural, TtlOrder
<1>1. ASSUME NEW p \in Peers, NEW r \in RequestsV1, RequestShard(p, r) PROVE IInv'
  BY <1>1, KindsFit, IssueKeeps DEF RequestShard, Domains
<1>2. ASSUME NEW p \in Peers, NEW r \in RequestsV2, RequestShardV2(p, r) PROVE IInv'
  BY <1>2, KindsFit, IssueKeeps DEF RequestShardV2, Domains
<1>3. ASSUME NEW c \in ChannelIds, NEW d \in Domains, SendShardResponse(c, d) PROVE IInv'
  <2>1. /\ c < nextChannel /\ channels[c] # NoSlot /\ channels[c].domain = d
        /\ channels' = [channels EXCEPT ![c] = NoSlot]
        /\ answered' = answered \cup
             {[channel |-> c, by |-> d, asked |-> channels[c].domain]}
        /\ UNCHANGED <<running, events, slots, minted, nextChannel, wire, faults, sent,
                       fate>>
    BY <1>3 DEF SendShardResponse, Takes
  <2>2. TypeOK'
    <3>1. channels \in [ChannelIds -> Channels \cup {NoSlot}]
      BY DEF IInv, TypeOK
    <3>2. /\ channels' \in [ChannelIds -> Channels \cup {NoSlot}]
          /\ answered' \subseteq [channel : ChannelIds, by : Domains, asked : Domains]
      BY <2>1, <3>1 DEF IInv, TypeOK
    <3> QED
      BY <2>1, <3>2 DEF IInv, TypeOK
  <2>3. AnsweredIsPast'
    BY <2>1 DEF IInv, AnsweredIsPast
  <2>4. AnsweredOnItsBehaviour'
    <3>1. \A a \in answered : a.channel # c /\ a.channel \in ChannelIds
      BY <2>1 DEF IInv, TypeOK, AnsweredOnItsBehaviour
    <3> QED
      BY <2>1, <3>1 DEF IInv, TypeOK, AnsweredOnItsBehaviour
  <2>5. IdsAreMinted' /\ WireIsTracked' /\ PoisonIsReissue'
    BY <2>1 DEF IInv, IdsAreMinted, WireIsTracked, PoisonIsReissue, Slot
  <2>6. EventsAreTrue' /\ RecordsOutliveRequests'
    BY <2>1 DEF IInv, EventsAreTrue, EventIsTrue, RecordsOutliveRequests
  <2> QED
    BY <2>2, <2>3, <2>4, <2>5, <2>6 DEF IInv
<1>4. CASE Shutdown
  <2>1. TypeOK'
    BY <1>4 DEF Shutdown, IInv, TypeOK
  <2>2. IdsAreMinted' /\ WireIsTracked' /\ PoisonIsReissue'
    BY <1>4 DEF Shutdown, IInv, IdsAreMinted, WireIsTracked, PoisonIsReissue, Slot
  <2>3. EventsAreTrue' /\ RecordsOutliveRequests'
    BY <1>4 DEF Shutdown, IInv, EventsAreTrue, EventIsTrue, RecordsOutliveRequests
  <2>4. AnsweredIsPast' /\ AnsweredOnItsBehaviour'
    BY <1>4 DEF Shutdown, IInv, AnsweredIsPast, AnsweredOnItsBehaviour
  <2> QED
    BY <2>1, <2>2, <2>3, <2>4 DEF IInv
<1>5. CASE NextEvent
  <2>1. /\ events # << >> /\ events' = Tail(events) /\ events \in Seq(Events)
        /\ Len(events) <= EventCap
        /\ UNCHANGED <<running, slots, minted, channels, nextChannel, wire, faults, sent,
                       fate, answered>>
    BY <1>5 DEF NextEvent, IInv, TypeOK
  <2>2. /\ events' \in Seq(Events) /\ Len(events') = Len(events) - 1
        /\ \A i \in 1 .. Len(events') : events'[i] = events[i + 1]
    BY <2>1, HeadTailProperties
  <2>3. Len(events) \in Nat /\ Len(events') \in Nat /\ Len(events') <= EventCap
    BY <2>1, <2>2
  <2>4. TypeOK'
    BY <2>1, <2>2, <2>3 DEF IInv, TypeOK
  <2>5. EventsAreTrue'
    <3>1. \A i \in 1 .. Len(events') : i + 1 \in 1 .. Len(events)
      BY <2>2, <2>3
    <3>2. \A i \in 1 .. Len(events') : EventIsTrue(events'[i])
      BY <2>2, <3>1 DEF IInv, EventsAreTrue
    <3> QED
      BY <2>1, <3>2 DEF EventsAreTrue, EventIsTrue
  <2>6. IdsAreMinted' /\ WireIsTracked' /\ PoisonIsReissue'
    BY <2>1 DEF IInv, IdsAreMinted, WireIsTracked, PoisonIsReissue, Slot
  <2>7. AnsweredIsPast' /\ AnsweredOnItsBehaviour' /\ RecordsOutliveRequests'
    BY <2>1 DEF IInv, AnsweredIsPast, AnsweredOnItsBehaviour, RecordsOutliveRequests
  <2> QED
    BY <2>4, <2>5, <2>6, <2>7 DEF IInv
<1>6. ASSUME NEW d \in Domains, OnInboundRequest(d) PROVE IInv'
  <2> DEFINE e == [event |-> "ShardRequested", channel |-> nextChannel, domain |-> d]
  <2>1. /\ nextChannel < MaxInbound /\ nextChannel' = nextChannel + 1 /\ TrySend(e)
        /\ channels' = [channels EXCEPT ![nextChannel] =
                          IF Full THEN NoSlot ELSE [domain |-> d, age |-> 0]]
        /\ UNCHANGED <<running, slots, minted, wire, faults, sent, fate, answered>>
    BY <1>6 DEF OnInboundRequest
  <2>2. /\ nextChannel \in ChannelIds /\ nextChannel \in Nat
        /\ nextChannel' \in 0 .. MaxInbound
    BY <2>1 DEF IInv, TypeOK, ChannelIds
  <2>3. e \in Events /\ EventIsTrue(e)
    BY <2>2 DEF Events, EventIsTrue
  <2>4. events' \in Seq(Events) /\ Len(events') <= EventCap /\ EventsAreTrue'
    <3> HIDE DEF e
    <3> QED
      BY <2>1, <2>3, TrueEventsKept DEF IInv
  <2>5. /\ channels' \in [ChannelIds -> Channels \cup {NoSlot}]
        /\ \A c \in ChannelIds : c # nextChannel => channels'[c] = channels[c]
    <3>1. [domain |-> d, age |-> 0] \in Channels
      BY DEF Channels
    <3> QED
      BY <2>1, <2>2, <3>1 DEF IInv, TypeOK
  <2>6. TypeOK'
    BY <2>1, <2>2, <2>4, <2>5 DEF IInv, TypeOK
  <2>7. AnsweredIsPast' /\ AnsweredOnItsBehaviour'
    <3>1. \A a \in answered :
             a.channel \in ChannelIds /\ a.channel < nextChannel /\ a.channel \in Nat
      BY DEF IInv, TypeOK, AnsweredIsPast, ChannelIds
    <3>2. AnsweredIsPast'
      BY <2>1, <2>2, <3>1 DEF AnsweredIsPast
    <3>3. \A a \in answered : a.channel # nextChannel
      BY <2>2, <3>1
    <3> QED
      BY <2>1, <2>5, <3>1, <3>2, <3>3 DEF IInv, AnsweredOnItsBehaviour
  <2>8. IdsAreMinted' /\ WireIsTracked' /\ PoisonIsReissue' /\ RecordsOutliveRequests'
    BY <2>1
       DEF IInv, IdsAreMinted, WireIsTracked, PoisonIsReissue, Slot, RecordsOutliveRequests
  <2> QED
    BY <2>4, <2>6, <2>7, <2>8 DEF IInv
<1>7. ASSUME NEW w \in wire, NEW p \in Peers, OnOutboundFailure(w, p) PROVE IInv'
  <2> DEFINE fits == IsPending(w) /\ Slot(w).peer = p
             o == IF ~fits THEN Unmatched(w) ELSE IF Full THEN "dropped" ELSE "surfaced"
             e == [event |-> "ShardRequestFailed", uid |-> w.uid,
                   peer |-> Slot(w).peer, origin |-> Origin(w)]
  <2>1. /\ Spend(w) /\ Ended(w, o)
        /\ (fits /\ TrySend(e)) \/ events' = events
        /\ UNCHANGED <<running, minted, channels, nextChannel, faults, sent, answered>>
    BY <1>7 DEF OnOutboundFailure
  <2>2. Slot(w) \in Slots
    BY WireTyped DEF IInv, WireIsTracked
  <2>3. o \in Fates /\ o # "unknown" /\ (o = "poisoned" => Slot(w).state = "poisoned")
    BY <2>2, SlotForms DEF Unmatched, Fates
  <2>4. fits => e \in Events /\ EventIsTrue(e)
    <3> SUFFICES ASSUME fits PROVE e \in Events /\ EventIsTrue(e)
      OBVIOUS
    <3>1. /\ Slot(w).peer = sent[w.uid].peer /\ Slot(w).kind = sent[w.uid].kind
          /\ w.uid \in 1 .. Len(sent) /\ sent[w.uid].peer \in Peers
          /\ sent[w.uid].kind \in Kinds
          /\ w.uid \in 1 .. MaxRequests
      <4>1. /\ w.uid \in 1 .. Len(sent) /\ sent[w.uid].peer \in Peers
            /\ sent[w.uid].kind \in Kinds
        BY WireTyped DEF IInv
      <4>2. Len(sent) \in Nat /\ Len(sent) <= MaxRequests
        BY DEF IInv, TypeOK, IdsAreMinted
      <4> QED
        BY <4>1, <4>2 DEF IInv, WireIsTracked, IsPending
    <3>2. /\ Origin(w) = [peer |-> sent[w.uid].peer, kind |-> sent[w.uid].kind]
          /\ Origin(w) \in Origins
      BY <3>1 DEF Origin, Origins
    <3> QED
      BY <3>1, <3>2 DEF Events, EventIsTrue
  <2> HIDE DEF fits, o, e
  <2> QED
    BY <2>1, <2>3, <2>4, RequestEnds
<1>8. ASSUME NEW w \in wire, NEW p \in Peers, NEW resp \in Responses(sent[w.uid].key[1]),
             OnInboundResponse(w, p, resp)
      PROVE  IInv'
  <2> DEFINE fits == IsPending(w) /\ Slot(w).peer = p /\ Check(Slot(w).kind, resp)
             o == IF ~fits THEN Unmatched(w) ELSE IF Full THEN "dropped" ELSE "surfaced"
             e == [event |-> "ShardReceived", uid |-> w.uid, peer |-> p,
                   response |-> resp, origin |-> Origin(w)]
  <2>1. /\ Spend(w) /\ Ended(w, o)
        /\ (fits /\ TrySend(e)) \/ events' = events
        /\ UNCHANGED <<running, minted, channels, nextChannel, faults, sent, answered>>
    BY <1>8 DEF OnInboundResponse
  <2>2. Slot(w) \in Slots
    BY WireTyped DEF IInv, WireIsTracked
  <2>3. o \in Fates /\ o # "unknown" /\ (o = "poisoned" => Slot(w).state = "poisoned")
    BY <2>2, SlotForms DEF Unmatched, Fates
  <2>4. fits => e \in Events /\ EventIsTrue(e)
    <3> SUFFICES ASSUME fits PROVE e \in Events /\ EventIsTrue(e)
      OBVIOUS
    <3>1. /\ Slot(w).peer = sent[w.uid].peer /\ Slot(w).kind = sent[w.uid].kind
          /\ w.uid \in 1 .. Len(sent) /\ sent[w.uid].peer \in Peers
          /\ sent[w.uid].kind \in Kinds
          /\ w.uid \in 1 .. MaxRequests
      <4>1. /\ w.uid \in 1 .. Len(sent) /\ sent[w.uid].peer \in Peers
            /\ sent[w.uid].kind \in Kinds
        BY WireTyped DEF IInv
      <4>2. Len(sent) \in Nat /\ Len(sent) <= MaxRequests
        BY DEF IInv, TypeOK, IdsAreMinted
      <4> QED
        BY <4>1, <4>2 DEF IInv, WireIsTracked, IsPending
    <3>2. /\ Origin(w) = [peer |-> sent[w.uid].peer, kind |-> sent[w.uid].kind]
          /\ Origin(w) \in Origins
      BY <3>1 DEF Origin, Origins
    <3>3. resp \in UNION {Responses(d) : d \in Domains}
      BY WireTyped DEF IInv, Keys
    <3> QED
      BY <3>1, <3>2, <3>3 DEF Events, EventIsTrue
  <2> HIDE DEF fits, o, e
  <2> QED
    BY <2>1, <2>3, <2>4, RequestEnds
<1>9. ASSUME NEW w \in wire, Forget(w) PROVE IInv'
  <2>1. /\ wire' = wire \ {w} /\ fate' = [fate EXCEPT ![w.uid] = "forgotten"]
        /\ faults' = [faults EXCEPT !.forgotten = @ + 1] /\ faults.forgotten < MaxForget
        /\ UNCHANGED <<running, events, slots, minted, channels, nextChannel, sent,
                       answered>>
    BY <1>9 DEF Forget, Ended
  <2>2. /\ fate' \in Seq(Fates) /\ Len(fate') = Len(fate)
        /\ \A u \in 1 .. Len(fate) : fate'[u] \in {fate[u], "forgotten"}
    <3>1. fate \in Seq(Fates) /\ w.uid \in 1 .. Len(fate) /\ "forgotten" \in Fates
      BY WireTyped DEF IInv, TypeOK, Fates
    <3> QED
      BY <2>1, <3>1, ExceptSeq
  <2>3. /\ faults' \in [reissued : 0 .. MaxReissue, forgotten : 0 .. MaxForget]
        /\ faults'.reissued = faults.reissued
    <3>1. faults \in [reissued : 0 .. MaxReissue, forgotten : 0 .. MaxForget]
      BY DEF IInv, TypeOK
    <3>2. faults.forgotten + 1 \in 0 .. MaxForget
      BY <2>1, <3>1
    <3> QED
      BY <2>1, <3>1, <3>2
  <2>4. TypeOK'
    BY <2>1, <2>2, <2>3 DEF IInv, TypeOK
  <2>5. IdsAreMinted' /\ WireIsTracked' /\ PoisonIsReissue'
    BY <2>1, <2>3 DEF IInv, IdsAreMinted, WireIsTracked, PoisonIsReissue, Slot
  <2>6. EventsAreTrue' /\ AnsweredIsPast' /\ AnsweredOnItsBehaviour'
    BY <2>1 DEF IInv, EventsAreTrue, EventIsTrue, AnsweredIsPast, AnsweredOnItsBehaviour
  <2>7. RecordsOutliveRequests'
    BY <2>2, <2>3 DEF IInv, RecordsOutliveRequests
  <2> QED
    BY <2>4, <2>5, <2>6, <2>7 DEF IInv
<1>10. CASE OnOtherEvent
  <2> DEFINE e == [event |-> "Other"]
  <2>1. /\ TrySend(e)
        /\ UNCHANGED <<running, slots, minted, channels, nextChannel, wire, faults, sent,
                       fate, answered>>
    BY <1>10 DEF OnOtherEvent
  <2>2. e \in Events /\ EventIsTrue(e)
    BY DEF Events, EventIsTrue
  <2>3. events' \in Seq(Events) /\ Len(events') <= EventCap /\ EventsAreTrue'
    <3> HIDE DEF e
    <3> QED
      BY <2>1, <2>2, TrueEventsKept DEF IInv
  <2>4. TypeOK'
    BY <2>1, <2>3 DEF IInv, TypeOK
  <2>5. IdsAreMinted' /\ WireIsTracked' /\ PoisonIsReissue'
    BY <2>1 DEF IInv, IdsAreMinted, WireIsTracked, PoisonIsReissue, Slot
  <2>6. AnsweredIsPast' /\ AnsweredOnItsBehaviour' /\ RecordsOutliveRequests'
    BY <2>1 DEF IInv, AnsweredIsPast, AnsweredOnItsBehaviour, RecordsOutliveRequests
  <2> QED
    BY <2>3, <2>4, <2>5, <2>6 DEF IInv
<1>11. CASE Reap
  <2>1. /\ slots' = [k \in Keys |-> Reaped(slots[k])]
        /\ channels' = [c \in ChannelIds |->
                          IF channels[c] # NoSlot /\ channels[c].age > ChannelTTL
                          THEN NoSlot ELSE channels[c]]
        /\ UNCHANGED <<running, events, minted, nextChannel, wire, faults, sent,
                       fate, answered>>
    BY <1>11 DEF Reap
  <2>2. /\ slots' \in [Keys -> Slots \cup {NoSlot}]
        /\ \A k \in Keys : slots'[k] \in {slots[k], NoSlot}
    BY <2>1 DEF IInv, TypeOK, Reaped
  <2>3. /\ channels' \in [ChannelIds -> Channels \cup {NoSlot}]
        /\ \A c \in ChannelIds : channels'[c] \in {channels[c], NoSlot}
    BY <2>1 DEF IInv, TypeOK
  <2>4. TypeOK'
    BY <2>1, <2>2, <2>3 DEF IInv, TypeOK
  <2>5. \A w \in wire : slots'[sent[w.uid].key] = Slot(w)
    <3> SUFFICES ASSUME NEW w \in wire PROVE slots'[sent[w.uid].key] = Slot(w)
      OBVIOUS
    <3>1. /\ Slot(w) \in Slots /\ Slot(w).age <= w.age /\ w.age \in 0 .. Timeout
          /\ sent[w.uid].key \in Keys
      BY WireTyped DEF IInv, WireIsTracked
    <3>2. /\ Slot(w).state \in {"pending", "poisoned"} /\ Slot(w).age < RecordTTL
          /\ Slot(w).age < PoisonTTL
      BY <3>1, SlotForms
    <3> QED
      BY <2>1, <3>1, <3>2 DEF Reaped, Slot
  <2>6. WireIsTracked'
    BY <2>1, <2>5 DEF IInv, WireIsTracked, Slot
  <2>7. IdsAreMinted' /\ PoisonIsReissue'
    BY <2>1, <2>2 DEF IInv, IdsAreMinted, PoisonIsReissue
  <2>8. AnsweredIsPast' /\ AnsweredOnItsBehaviour'
    BY <2>1, <2>3 DEF IInv, TypeOK, AnsweredIsPast, AnsweredOnItsBehaviour
  <2>9. EventsAreTrue' /\ RecordsOutliveRequests'
    BY <2>1 DEF IInv, EventsAreTrue, EventIsTrue, RecordsOutliveRequests
  <2> QED
    BY <2>4, <2>6, <2>7, <2>8, <2>9 DEF IInv
<1>12. CASE Tick
  <2>1. /\ \A w \in wire : w.age < Timeout
        /\ slots' = [k \in Keys |-> Aged(slots[k], PoisonTTL)]
        /\ channels' = [c \in ChannelIds |-> Aged(channels[c], ChannelTTL + 1)]
        /\ wire' = {[w EXCEPT !.age = @ + 1] : w \in wire}
        /\ UNCHANGED <<running, events, minted, nextChannel, faults, sent, fate, answered>>
    BY <1>12 DEF Tick
  <2>2. ASSUME NEW s \in Slots
        PROVE  /\ Aged(s, PoisonTTL) \in Slots /\ Aged(s, PoisonTTL).state = s.state
               /\ Aged(s, PoisonTTL).age <= s.age + 1
               /\ s.state = "pending" => /\ Aged(s, PoisonTTL).peer = s.peer
                                         /\ Aged(s, PoisonTTL).kind = s.kind
    BY SlotForms DEF Aged, Cap, Slots
  <2>3. /\ slots' \in [Keys -> Slots \cup {NoSlot}]
        /\ \A k \in Keys :
             \/ (slots[k] = NoSlot /\ slots'[k] = NoSlot)
             \/ (slots[k] \in Slots /\ slots'[k] = Aged(slots[k], PoisonTTL))
    BY <2>1, <2>2 DEF IInv, TypeOK, Aged
  <2>4. /\ channels' \in [ChannelIds -> Channels \cup {NoSlot}]
        /\ \A c \in ChannelIds : channels[c] = NoSlot => channels'[c] = NoSlot
    <3>1. ASSUME NEW x \in Channels PROVE Aged(x, ChannelTTL + 1) \in Channels
      <4>1. x.age \in 0 .. ChannelTTL + 1 /\ x # NoSlot
        BY NoSlotAssumption DEF Channels
      <4>2. Cap(x.age, ChannelTTL + 1) \in 0 .. ChannelTTL + 1
        BY <4>1 DEF Cap
      <4> QED
        BY <4>1, <4>2 DEF Aged, Channels
    <3> QED
      BY <2>1, <3>1 DEF IInv, TypeOK, Aged
  <2>5. \A w \in wire : LET v == [w EXCEPT !.age = @ + 1]
                        IN  v.uid = w.uid /\ v.age = w.age + 1 /\ v.age \in 0 .. Timeout
                            /\ v \in [uid : 1 .. Len(sent), age : 0 .. Timeout]
    <3>1. \A w \in wire :
             w \in [uid : 1 .. Len(sent), age : 0 .. Timeout] /\ w.age < Timeout
      BY <2>1 DEF IInv, TypeOK
    <3>2. \A w \in wire : w.age + 1 \in 0 .. Timeout
      BY <3>1
    <3> QED
      BY <3>1, <3>2
  <2>6. TypeOK'
    <3>1. wire' \subseteq [uid : 1 .. Len(sent), age : 0 .. Timeout]
      BY <2>1, <2>5
    <3> QED
      BY <2>1, <2>3, <2>4, <3>1 DEF IInv, TypeOK
  <2>7. WireIsTracked'
    <3> SUFFICES ASSUME NEW v \in wire'
                 PROVE  /\ Slot(v)' # NoSlot /\ Slot(v)'.age <= v.age
                        /\ Slot(v)'.state = "pending" =>
                             /\ Slot(v)'.peer = sent[v.uid].peer
                             /\ Slot(v)'.kind = sent[v.uid].kind
                             /\ \A u \in wire' : sent[u.uid].key = sent[v.uid].key => u = v
      BY <2>1 DEF WireIsTracked, Slot
    <3>1. PICK w \in wire : v = [w EXCEPT !.age = @ + 1]
      BY <2>1
    <3>2. /\ v.uid = w.uid /\ v.age = w.age + 1 /\ w.age \in Nat /\ sent[w.uid].key \in Keys
          /\ Slot(w) \in Slots /\ Slot(w).age <= w.age
      BY <2>5, <3>1, WireTyped DEF IInv, WireIsTracked
    <3>3. Slot(v)' = Aged(Slot(w), PoisonTTL)
      BY <2>1, <2>3, <3>2, SlotForms DEF Slot
    <3>4. Slot(v)' \in Slots /\ Slot(v)'.age <= v.age
      <4>1. Slot(w).age \in Nat /\ Slot(v)'.age \in Nat
        BY <2>2, <3>2, <3>3, SlotForms
      <4> QED
        BY <2>2, <3>2, <3>3, <4>1
    <3>5. ASSUME Slot(v)'.state = "pending"
          PROVE  /\ Slot(v)'.peer = sent[v.uid].peer /\ Slot(v)'.kind = sent[v.uid].kind
                 /\ \A u \in wire' : sent[u.uid].key = sent[v.uid].key => u = v
      <4>1. Slot(w).state = "pending"
        BY <2>2, <3>2, <3>3, <3>5
      <4>2. \A u \in wire : sent[u.uid].key = sent[w.uid].key => u = w
        BY <4>1 DEF IInv, WireIsTracked
      <4>3. ASSUME NEW u \in wire', sent[u.uid].key = sent[v.uid].key PROVE u = v
        <5>1. PICK x \in wire : u = [x EXCEPT !.age = @ + 1]
          BY <2>1
        <5>2. x = w
          BY <2>5, <3>2, <4>2, <4>3, <5>1
        <5> QED
          BY <3>1, <5>1, <5>2
      <4> QED
        BY <2>2, <3>2, <3>3, <4>1, <4>3 DEF IInv, WireIsTracked
    <3> QED
      BY <3>4, <3>5, SlotForms
  <2>8. IdsAreMinted'
    BY <2>1, <2>3, SlotForms DEF IInv, IdsAreMinted
  <2>9. PoisonIsReissue'
    BY <2>1, <2>2, <2>3, SlotForms DEF IInv, PoisonIsReissue
  <2>10. AnsweredIsPast' /\ AnsweredOnItsBehaviour'
    BY <2>1, <2>4 DEF IInv, TypeOK, AnsweredIsPast, AnsweredOnItsBehaviour
  <2>11. EventsAreTrue' /\ RecordsOutliveRequests'
    BY <2>1 DEF IInv, EventsAreTrue, EventIsTrue, RecordsOutliveRequests
  <2> QED
    BY <2>6, <2>7, <2>8, <2>9, <2>10, <2>11 DEF IInv
<1>13. CASE UNCHANGED vars
  <2>1. TypeOK'
    BY <1>13 DEF vars, IInv, TypeOK
  <2>2. IdsAreMinted' /\ WireIsTracked' /\ PoisonIsReissue'
    BY <1>13 DEF vars, IInv, IdsAreMinted, WireIsTracked, PoisonIsReissue, Slot
  <2>3. EventsAreTrue' /\ RecordsOutliveRequests'
    BY <1>13 DEF vars, IInv, EventsAreTrue, EventIsTrue, RecordsOutliveRequests
  <2>4. AnsweredIsPast' /\ AnsweredOnItsBehaviour'
    BY <1>13 DEF vars, IInv, AnsweredIsPast, AnsweredOnItsBehaviour
  <2> QED
    BY <2>1, <2>2, <2>3, <2>4 DEF IInv
<1> QED
  BY <1>1, <1>2, <1>3, <1>4, <1>5, <1>6, <1>7, <1>8, <1>9, <1>10, <1>11, <1>12, <1>13
     DEF Next, Terminal

-------------------------------------------------------------------------------
(* Theorems *)

\* The initial state satisfies the invariant.
LEMMA InitEstablishes == Init => IInv
<1> SUFFICES ASSUME Init PROVE IInv
  OBVIOUS
<1> USE BoundsAreNatural, TtlOrder
<1>1. TypeOK
  <2>1. events \in Seq(Events) /\ Len(events) = 0
    BY DEF Init
  <2>2. sent \in Seq([key : Keys, peer : Peers, kind : Kinds]) /\ Len(sent) = 0
    BY DEF Init
  <2>3. fate \in Seq(Fates) /\ Len(fate) = 0
    BY DEF Init
  <2>4. /\ slots \in [Keys -> Slots \cup {NoSlot}]
        /\ minted \in [Domains -> 0 .. MaxRequests]
        /\ channels \in [ChannelIds -> Channels \cup {NoSlot}]
        /\ nextChannel \in 0 .. MaxInbound
        /\ faults \in [reissued : 0 .. MaxReissue, forgotten : 0 .. MaxForget]
    BY DEF Init
  <2> QED
    BY <2>1, <2>2, <2>3, <2>4 DEF Init, TypeOK
<1>2. IdsAreMinted /\ WireIsTracked /\ PoisonIsReissue
  BY DEF Init, IdsAreMinted, WireIsTracked, PoisonIsReissue
<1>3. EventsAreTrue /\ AnsweredIsPast /\ AnsweredOnItsBehaviour /\ RecordsOutliveRequests
  BY DEF Init, EventsAreTrue, AnsweredIsPast, AnsweredOnItsBehaviour, RecordsOutliveRequests
<1> QED
  BY <1>1, <1>2, <1>3 DEF IInv

\* The inductive invariant holds in every reachable state.
LEMMA InvariantHolds == Spec => []IInv
  BY InitEstablishes, StepPreserves, PTL DEF Spec

\* What the swarm tells the node about a request is about that very request, and a
\* response leaves on the behaviour its request came by, also when libp2p mints
\* ids twice or forgets requests (OutboundTracker, take_channel in swarm.rs).
THEOREM KeptApart == Spec => []RequestsAreKeptApart
<1>1. IInv => RequestsAreKeptApart
  BY DEF IInv, RequestsAreKeptApart, EventsAreTrue, EventIsTrue, OriginIsTheRequest
<1> QED
  BY <1>1, InvariantHolds, PTL

\* No answer ever finds its record reaped: the TTLs are backstops only, for any
\* request timeout below them.
THEOREM RecordsOutlive == Spec => []RecordsOutliveRequests
<1>1. IInv => RecordsOutliveRequests
  BY DEF IInv
<1> QED
  BY <1>1, InvariantHolds, PTL

\* A step that files a channel for an inbound request queues its announcement in
\* the same step (on_inbound_request takes the channel back otherwise).
THEOREM Announced == Spec => FiledIsAnnounced
<1>1. ASSUME IInv, [Next]_vars, NEW c \in ChannelIds, channels[c] = NoSlot,
             channels'[c] # NoSlot
      PROVE  \E i \in 1 .. Len(events') :
               /\ events'[i].event = "ShardRequested"
               /\ events'[i].channel = c
               /\ events'[i].domain = channels'[c].domain
  <2>1. channels \in [ChannelIds -> Channels \cup {NoSlot}]
    BY <1>1 DEF IInv, TypeOK
  <2>2. PICK d \in Domains : OnInboundRequest(d)
    <3>1. CASE channels' = channels
      BY <1>1, <3>1
    <3>2. ASSUME NEW x \in ChannelIds, NEW d \in Domains, SendShardResponse(x, d)
          PROVE  FALSE
      BY <1>1, <2>1, <3>2 DEF SendShardResponse
    <3>3. CASE Reap
      BY <1>1, <3>3 DEF Reap
    <3>4. CASE Tick
      BY <1>1, <3>4 DEF Tick, Aged
    <3> QED
      BY <1>1, <3>1, <3>2, <3>3, <3>4 DEF Next, vars, RequestShard, RequestShardV2, Issue,
         Shutdown, NextEvent, Terminal, OnOutboundFailure, OnInboundResponse, Forget,
         OnOtherEvent
  <2>3. /\ nextChannel = c /\ ~Full /\ channels'[c] = [domain |-> d, age |-> 0]
        /\ events' = Append(events,
             [event |-> "ShardRequested", channel |-> c, domain |-> d])
    BY <1>1, <2>1, <2>2 DEF OnInboundRequest, TrySend
  <2>4. /\ Len(events) \in Nat /\ Len(events') = Len(events) + 1
        /\ events'[Len(events) + 1]
             = [event |-> "ShardRequested", channel |-> c, domain |-> d]
    <3>1. events \in Seq(Events)
      BY <1>1 DEF IInv, TypeOK
    <3>2. [event |-> "ShardRequested", channel |-> c, domain |-> d] \in Events
      BY <1>1 DEF Events
    <3> QED
      BY <2>3, <3>1, <3>2, AppendProperties
  <2> QED
    BY <2>3, <2>4
<1>2. IInv /\ [Next]_vars =>
        [\A c \in ChannelIds :
           (channels[c] = NoSlot /\ channels'[c] # NoSlot) =>
             \E i \in 1 .. Len(events') :
               /\ events'[i].event = "ShardRequested"
               /\ events'[i].channel = c
               /\ events'[i].domain = channels'[c].domain]_vars
  BY <1>1
<1> QED
  BY <1>2, InvariantHolds, PTL DEF Spec, FiledIsAnnounced

---------------------------------------------------------------------------
(* The operator's commands. *)

\* Where a command can be.
Places ==
  {"idle", "gate", "row", "page", "key", "own", "expiry", "pre", "nonce", "send", "wait", "info",
   "params", "head1", "rows", "active", "rows2", "active2", "head2", "build", "audit", "epoch",
   "answer", "recheck", "done"}

\* What a command ends with.
Outs ==
  {"none", "ok", "refused", "dropped", "timeout", "error", "no-directive", "already-listed",
   "not-listed", "no-op", "opened", "unwrap", "not-V2", "not-Private", "not-active", "not-owner",
   "another-route", "self-revoke", "no-key", "owner-missing", "expired", "not-registered",
   "not-needed", "nobody-departed", "unstable", "unusable", "dry-run", "mismatch", "audit-error",
   "nothing-assigned", "complete", "incomplete"}

\* The commands that send a transaction.
Sending == {"share", "revoke", "update", "key", "join", "reassign"}

\* The records a command keeps.
Coverages ==
  [rows : [snap : SUBSET Archives, epoch : Nat], gone : SUBSET Archives, needed : BOOLEAN]

\* A command process.
Processes ==
  [pc : Places, cmd : Commands \cup {NoCmd}, out : Outs, seed : Seq(Entries),
   page : 0 .. MaxPages - 1, entry : Entries \cup {NoEntry}, nonce : Nat,
   tries : 0 .. ReadAttempts, head1 : Nat, cov : Coverages, saw : Coverages,
   file : Files \cup {None}, epoch : Nat, snap : SUBSET Archives, again : SUBSET Files,
   report : [Files -> [epoch : Nat, verdict : {"none", "usable", "lacking", "moved"}]],
   cause : BOOLEAN]

\* The chain's rows, and a transaction.
States ==
  [list : Seq(Entries), nonce : [Accounts -> Nat], keyed : SUBSET Accounts,
   gone : SUBSET Archives, snap : [Files -> SUBSET Archives], epoch : [Files -> Nat]]

\* A transaction a command sent.
Txs ==
  [op : Sending \cup {"none"}, by : Accounts \cup {None}, nonce : Nat,
   arg : Entries \cup Accounts \cup Files \cup {None}, st : Statuses]

\* The variables of the commands and the chain.
OTypes ==
  /\ row \in Rows /\ now \in States /\ fin \in States
  /\ head \in 0 .. MaxBlocks /\ open \in BOOLEAN /\ (open => head < MaxBlocks) /\ height \in Nat
  /\ tx \in [Procs -> Txs] /\ menu \subseteq Commands /\ proc \in [Procs -> Processes]
  /\ have \subseteq Files
  /\ \A a \in Accounts : fin.nonce[a] <= now.nonce[a]

\* Each account is listed once with a bundle it opens, the owner among them.
ListOK(list) ==
  /\ \A i, j \in DOMAIN list : list[i].who = list[j].who => i = j
  /\ \A i \in DOMAIN list : list[i].bundle = list[i].who
  /\ \E i \in DOMAIN list : list[i].who = Owner

\* The places that belong to a command, and what it knows there.
PlaceFits(q) ==
  /\ q.pc # "idle" => q.cmd \in Commands
  /\ q.pc = "gate" => q.cmd.op \in {"share", "revoke", "update", "key"}
  /\ q.pc \in {"row", "page"} => q.cmd.op \in {"share", "revoke", "update", "open"}
  /\ q.pc \in {"key", "own"} => q.cmd.op = "share"
  /\ q.pc = "expiry" => q.cmd.op = "open"
  /\ q.pc = "pre" => q.cmd.op = "key"
  /\ q.pc = "nonce" => q.cmd.op \in Sending \ {"reassign"}
  /\ q.pc \in {"send", "wait"} => q.cmd.op \in Sending
  /\ q.pc \in {"info", "params", "head1", "rows", "active", "rows2", "active2", "head2", "build"}
     => q.cmd.op = "reassign"
  /\ q.cmd.op = "update" /\ q.pc \in {"row", "page"} => q.cmd.until # None
  /\ q.cmd.op = "update" /\ q.pc \in {"nonce", "send"} =>
       q.cmd.until # None /\ q.entry \in Entries /\ q.entry.bundle = q.cmd.who
  /\ q.cmd.op = "revoke" /\ q.pc \in {"page", "nonce", "send"} => q.cmd.who # Owner
  /\ q.pc = "head1" => q.tries < ReadAttempts
  /\ q.pc \in {"info", "params"} => q.tries = 0
  /\ q.out # "none" => q.pc = "done"

\* What was sent is what was asked for; success is final.
TxFits(q, t) ==
  /\ t.st # "none" =>
       /\ q.pc \in {"wait", "done"} /\ t.op \in Sending /\ t.by \in Accounts
       /\ t.op \in {"share", "update"} => t.arg \in Entries /\ t.arg.bundle = t.arg.who
       /\ t.op = "revoke" => t.arg \in Accounts \ {Owner}
       /\ t.op = "reassign" => t.arg \in Files
  /\ q.out = "ok" => t.st = "finalized"

\* Unless there is a cause, the account looked for is on a page still to be read.
ScanFits(q, list) ==
  /\ q.pc = "page" /\ ~q.cause =>
       \E k \in DOMAIN list :
          q.page * PageSize < k /\ k <= MaxPages * PageSize /\ list[k].who = q.cmd.who
  /\ q.out = "not-listed" => q.cause

\* As long as the head is the one read first, epochs only grow: archives that
\* left and hold a chunk, in a coverage put together from two states, are of
\* an epoch before the one that was read second.
ReassignFits(q, s, h) ==
  LET f == q.cmd.file
      mixed == q.head1 = h /\ Departed(f, q.cov) # {} /\ ~q.cause IN
  /\ q.head1 <= h
  /\ q.pc \in {"rows", "active", "rows2", "active2", "head2"} /\ DepartedAssignee(s, f) => q.cause
  /\ q.pc \in {"active", "active2"} /\ q.head1 = h =>
       /\ q.saw.rows.epoch <= s.epoch[f]
       /\ q.saw.rows.epoch = s.epoch[f] => q.saw.rows.snap = s.snap[f]
  /\ q.pc \in {"rows2", "active2", "head2"} /\ mixed => q.cov.rows.epoch < s.epoch[f]
  /\ q.pc \in {"active2", "head2"} /\ mixed => q.cov.rows.epoch < q.saw.rows.epoch
  /\ q.cmd.op = "reassign" /\ q.pc \in {"build", "send", "wait"} => q.cause

\* With the chunks hv this archive can answer for what snapshot S assigns it of f.
Answers(f, S, hv) == Me \in Holders[f][S] => f \in hv

\* As long as no block was undone: a file reported usable can be answered for
\* if its epoch is still the latest, and when the last file is evaluated
\* without that, some file is not usable or will be found to have moved.
AuditFits(q, s, hv) ==
  /\ q.pc \in {"epoch", "answer", "recheck"} /\ ~q.cause =>
       \A g \in Files : q.report[g].verdict # "none" =>
          /\ q.report[g].epoch <= s.epoch[g]
          /\ q.report[g].verdict = "usable" /\ q.report[g].epoch = s.epoch[g] => Answers(g, s.snap[g], hv)
  /\ q.pc = "answer" =>
       /\ q.file \in Files
       /\ ~q.cause => /\ q.epoch <= s.epoch[q.file]
                      /\ q.epoch = s.epoch[q.file] => q.snap = s.snap[q.file]
  /\ q.pc = "recheck" => \A g \in Files : q.report[g].verdict # "none"
  /\ q.pc = "recheck" /\ ~q.cause =>
       \E g \in Files : \/ q.report[g].verdict # "usable"
                        \/ q.report[g].epoch < s.epoch[g] /\ g \notin q.again
  /\ q.pc = "audit" => \A g \in Files : q.report[g].verdict = "none"
  /\ q.pc \in {"audit", "epoch", "answer"} => q.again = {}
  /\ q.out = "complete" => q.cause

\* How a process fits its transaction, the rows s, the head h and the chunks hv.
OFits(q, t, s, h, hv) ==
  PlaceFits(q) /\ TxFits(q, t) /\ ScanFits(q, s.list) /\ ReassignFits(q, s, h) /\ AuditFits(q, s, hv)

\* The inductive invariant of the operator commands.
OwnerIInv ==
  /\ OTypes /\ ListOK(now.list) /\ ListOK(fin.list)
  /\ \A p \in Procs : OFits(proc[p], tx[p], now, head, have)

\* The record of a command that ended.
Over(c, o, why) == [Fresh(c) EXCEPT !.pc = "done", !.out = o, !.cause = why]

\* The fields of a process that has read nothing.
LEMMA FreshRecord ==
  ASSUME NEW c \in Commands \cup {NoCmd}
  PROVE  /\ Fresh(c) \in Processes /\ Fresh(c).cmd = c /\ Fresh(c).out = "none" /\ Fresh(c).tries = 0
         /\ Fresh(c).head1 = 0 /\ Fresh(c).cause = FALSE /\ Fresh(c).again = {}
         /\ \A f \in Files : Fresh(c).report[f].verdict = "none"
<1>1. /\ "gate" \in Places /\ "none" \in Outs /\ << >> \in Seq(Entries) /\ 0 \in 0 .. MaxPages - 1
      /\ 0 \in 0 .. ReadAttempts
  BY OwnerAssumption DEF Places, Outs
<1>2. NoCoverage \in Coverages
  BY DEF NoCoverage, Coverage, Coverages
<1>3. [f \in Files |-> [epoch |-> 0, verdict |-> "none"]]
        \in [Files -> [epoch : Nat, verdict : {"none", "usable", "lacking", "moved"}]]
  OBVIOUS
<1> QED BY <1>1, <1>2, <1>3 DEF Fresh, Processes

\* The fields of a process that has ended.
LEMMA OverRecord ==
  ASSUME NEW c \in Commands \cup {NoCmd}, NEW o \in Outs, NEW why \in BOOLEAN
  PROVE  LET s == Over(c, o, why) IN
         /\ s \in Processes /\ s.cmd = c /\ s.pc = "done" /\ s.out = o /\ s.cause = why /\ s.head1 = 0
<1> DEFINE q == Fresh(c)
<1>1. q \in Processes /\ q.cmd = c /\ q.head1 = 0 /\ "done" \in Places
  BY FreshRecord DEF Places
<1> HIDE DEF q
<1>2. LET s == [q EXCEPT !.pc = "done", !.out = o, !.cause = why] IN
         /\ s \in Processes /\ s.cmd = c /\ s.pc = "done" /\ s.out = o /\ s.cause = why /\ s.head1 = 0
  BY <1>1 DEF Processes
<1> QED BY <1>2 DEF Over, q

\* A process takes a step that leaves the chain alone.
LEMMA ProcessStep ==
  ASSUME OwnerIInv, NEW p \in Procs, NEW q \in Processes, Go(p, q),
         UNCHANGED <<row, now, fin, head, open, height, have>>, menu' \subseteq Commands,
         tx' \in [Procs -> Txs], \A r \in Procs : r # p => tx'[r] = tx[r],
         OFits(q, tx'[p], now, head, have)
  PROVE  OwnerIInv'
<1>1. proc \in [Procs -> Processes]
  BY DEF OwnerIInv, OTypes
<1>2. proc' = [proc EXCEPT ![p] = q] /\ proc' \in [Procs -> Processes]
  BY <1>1 DEF Go
<1>3. OTypes'
  BY <1>2 DEF OwnerIInv, OTypes
<1>4. (ListOK(now.list) /\ ListOK(fin.list))'
  BY DEF OwnerIInv, ListOK
<1>5. ASSUME NEW r \in Procs PROVE OFits(proc[r], tx[r], now, head, have)'
  <2>1. CASE r = p
    <3>1. proc'[r] = q
      BY <1>1, <1>2, <2>1
    <3> QED BY <2>1, <3>1
  <2>2. CASE r # p
    <3>1. proc'[r] = proc[r] /\ tx'[r] = tx[r]
      BY <1>1, <1>2, <2>2
    <3> QED BY <3>1 DEF OwnerIInv
  <2> QED BY <2>1, <2>2
<1> QED BY <1>3, <1>4, <1>5 DEF OwnerIInv

\* What is known of a process.
LEMMA ProcessFacts ==
  ASSUME OwnerIInv, NEW p \in Procs
  PROVE  /\ proc[p] \in Processes /\ tx[p] \in Txs /\ OFits(proc[p], tx[p], now, head, have)
         /\ proc[p].pc # "idle" => proc[p].cmd \in Commands
         /\ now \in States /\ head \in Nat /\ ListOK(now.list)
  BY DEF OwnerIInv, OTypes, OFits, PlaceFits

\* A command ends.
LEMMA Ends ==
  ASSUME OwnerIInv, NEW p \in Procs, proc[p].pc # "idle", NEW o \in Outs, NEW why \in BOOLEAN,
         Go(p, Over(proc[p].cmd, o, why)),
         UNCHANGED <<row, now, fin, head, open, height, have, tx, menu>>,
         o \in {"not-listed", "complete"} => why,
         o = "ok" => tx[p].st = "finalized"
  PROVE  OwnerIInv'
<1> DEFINE s == Over(proc[p].cmd, o, why)
<1>1. /\ OFits(proc[p], tx[p], now, head, have) /\ proc[p].cmd \in Commands /\ head \in Nat
  BY ProcessFacts
<1>2. /\ s \in Processes /\ s.cmd = proc[p].cmd /\ s.pc = "done" /\ s.out = o /\ s.cause = why
      /\ s.head1 = 0
  BY <1>1, OverRecord
<1> HIDE DEF s
<1>4. PlaceFits(s) /\ ScanFits(s, now.list) /\ AuditFits(s, now, have)
  BY <1>1, <1>2 DEF PlaceFits, ScanFits, AuditFits
<1>5. TxFits(s, tx[p])
  BY <1>1, <1>2 DEF OFits, TxFits
<1>6. ReassignFits(s, now, head)
  BY <1>1, <1>2 DEF ReassignFits
<1>7. tx' \in [Procs -> Txs] /\ menu' \subseteq Commands
  BY DEF OwnerIInv, OTypes
<1> QED BY <1>2, <1>4, <1>5, <1>6, <1>7, ProcessStep DEF OFits, s

\* The same, for a record q of the process.
LEMMA EndsWith ==
  ASSUME OwnerIInv, NEW p \in Procs, proc[p].pc # "idle", NEW q \in Processes, NEW o \in Outs,
         End(p, q, o), q.cmd = proc[p].cmd,
         UNCHANGED <<row, now, fin, head, open, height, have, tx, menu>>,
         o \in {"not-listed", "complete"} => q.cause,
         o = "ok" => tx[p].st = "finalized"
  PROVE  OwnerIInv'
<1>1. PICK why \in BOOLEAN : why = q.cause
  BY DEF Processes
<1>2. Go(p, Over(proc[p].cmd, o, why))
  BY <1>1, Zenon DEF End, Over
<1> QED BY <1>1, <1>2, Ends

\* A command goes on, to a place where only PlaceFits says something.
LEMMA MovesOn ==
  ASSUME OwnerIInv, NEW p \in Procs, proc[p].pc \notin {"idle", "wait", "done"},
         NEW s \in Processes, Go(p, s), PlaceFits(s), s.cmd = proc[p].cmd, s.head1 = proc[p].head1,
         s.out = proc[p].out,
         s.pc \in {"pre", "row", "key", "own", "nonce", "expiry", "info", "params", "head1", "build",
                   "send"},
         s.cmd.op = "reassign" /\ s.pc \in {"build", "send"} => s.cause,
         UNCHANGED <<row, now, fin, head, open, height, have, tx, menu>>
  PROVE  OwnerIInv'
<1>1. /\ OFits(proc[p], tx[p], now, head, have) /\ head \in Nat /\ proc[p] \in Processes
  BY ProcessFacts
<1>2. s.out = "none" /\ proc[p].head1 <= head /\ tx[p].st = "none"
  BY <1>1 DEF OFits, PlaceFits, ReassignFits, TxFits
<1>3. ScanFits(s, now.list) /\ AuditFits(s, now, have)
  BY <1>2 DEF ScanFits, AuditFits
<1>4. TxFits(s, tx[p])
  BY <1>2 DEF TxFits
<1>5. ReassignFits(s, now, head)
  BY <1>2 DEF ReassignFits
<1>6. tx' \in [Procs -> Txs] /\ menu' \subseteq Commands
  BY DEF OwnerIInv, OTypes
<1> QED BY <1>3, <1>4, <1>5, <1>6, ProcessStep DEF OFits

\* s is q at place x, with nothing reported yet.
Onward(s, q, x) ==
  s.cmd = q.cmd /\ s.pc = x /\ s.tries = q.tries /\ s.entry = q.entry /\ s.out = "none"

\* The same, when only the place is new.
LEMMA OnlyMoves ==
  ASSUME OwnerIInv, NEW p \in Procs, proc[p].pc \notin {"idle", "wait", "done"},
         NEW x \in {"pre", "row", "key", "own", "nonce", "expiry", "info", "params", "head1", "build"},
         Go(p, [proc[p] EXCEPT !.pc = x]), Quiet,
         proc[p].cmd.op = "reassign" /\ x = "build" => proc[p].cause,
         \A s \in Processes : Onward(s, proc[p], x) => PlaceFits(s)
  PROVE  OwnerIInv'
<1> DEFINE s == [proc[p] EXCEPT !.pc = x]
<1>1. /\ OFits(proc[p], tx[p], now, head, have) /\ proc[p] \in Processes
  BY ProcessFacts
<1>2. proc[p].out = "none" /\ x \in Places
  BY <1>1 DEF OFits, PlaceFits, Places
<1>3. /\ s \in Processes /\ s.cmd = proc[p].cmd /\ s.head1 = proc[p].head1 /\ s.tries = proc[p].tries
      /\ s.out = proc[p].out /\ s.pc = x /\ s.cause = proc[p].cause /\ s.entry = proc[p].entry
  BY <1>1, <1>2 DEF Processes
<1>4. Go(p, s)
  OBVIOUS
<1> HIDE DEF s
<1>5. PlaceFits(s) /\ (s.cmd.op = "reassign" /\ s.pc \in {"build", "send"} => s.cause)
  BY <1>2, <1>3 DEF Onward
<1> QED BY <1>3, <1>4, <1>5, MovesOn DEF Quiet

---------------------------------------------------------------------------
(* The submission of a transaction. *)

\* The key on chain is read, whatever it is.
LEMMA PrecheckStep ==
  ASSUME OwnerIInv, NEW p \in Procs, Precheck(p)
  PROVE  OwnerIInv'
<1>1. proc[p].pc = "pre" /\ Go(p, [proc[p] EXCEPT !.pc = "nonce"]) /\ Quiet
  BY DEF Precheck
<1>2. PlaceFits(proc[p]) /\ proc[p].cmd \in Commands
  BY <1>1, ProcessFacts DEF OFits
<1>3. proc[p].cmd.op = "key"
  BY <1>1, <1>2 DEF PlaceFits
<1>4. \A s \in Processes : Onward(s, proc[p], "nonce") => PlaceFits(s)
  BY <1>2, <1>3 DEF PlaceFits, Sending, Onward
<1> QED BY <1>1, <1>3, <1>4, OnlyMoves

\* The nonce is read.
LEMMA NonceStep ==
  ASSUME OwnerIInv, NEW p \in Procs, GetNonce(p)
  PROVE  OwnerIInv'
<1> DEFINE s == [proc[p] EXCEPT !.pc = "send", !.nonce = now.nonce[proc[p].cmd.by]]
<1>1. proc[p].pc = "nonce" /\ Go(p, s) /\ Quiet
  BY DEF GetNonce
<1>2. PlaceFits(proc[p]) /\ proc[p].cmd \in Commands /\ proc[p] \in Processes /\ now \in States
  BY <1>1, ProcessFacts DEF OFits
<1>3. now.nonce[proc[p].cmd.by] \in Nat /\ "send" \in Places
  BY <1>2 DEF Commands, States, Places
<1>4. /\ s \in Processes /\ s.cmd = proc[p].cmd /\ s.head1 = proc[p].head1 /\ s.tries = proc[p].tries
      /\ s.out = proc[p].out /\ s.pc = "send" /\ s.entry = proc[p].entry
  BY <1>2, <1>3 DEF Processes
<1> HIDE DEF s
<1>5. PlaceFits(s) /\ s.cmd.op # "reassign"
  BY <1>1, <1>2, <1>4 DEF PlaceFits, Sending
<1> QED BY <1>1, <1>4, <1>5, MovesOn DEF Quiet

\* What a command signs: an entry wrapped for its account, an account that is not
\* the owner, or a file.
LEMMA PayloadFits ==
  ASSUME OwnerIInv, NEW p \in Procs, proc[p].pc = "send"
  PROVE  LET q == proc[p]
             t == [op |-> q.cmd.op, by |-> q.cmd.by, nonce |-> q.nonce, arg |-> Payload(q),
                   st |-> "pending"] IN
         /\ t \in Txs /\ t.op \in Sending /\ t.by \in Accounts /\ t.st = "pending"
         /\ t.op \in {"share", "update"} => t.arg \in Entries /\ t.arg.bundle = t.arg.who
         /\ t.op = "revoke" => t.arg \in Accounts \ {Owner}
         /\ t.op = "reassign" => t.arg \in Files
<1> DEFINE q == proc[p]
<1>1. PlaceFits(q) /\ q.cmd \in Commands /\ q \in Processes
  BY ProcessFacts DEF OFits
<1> HIDE DEF q
<1>2. /\ q.cmd.op \in Sending /\ q.cmd.by \in Accounts /\ q.cmd.who \in Accounts /\ q.nonce \in Nat
      /\ q.cmd.until \in Nat \cup {None} /\ q.cmd.file \in Files
  BY <1>1 DEF PlaceFits, Processes, Commands, q
<1>3. /\ q.cmd.op = "update" => q.cmd.until \in Nat /\ q.entry.bundle = q.cmd.who
      /\ q.cmd.op = "revoke" => q.cmd.who # Owner
  BY <1>1, <1>2 DEF PlaceFits, q
<1>4. /\ q.cmd.op = "share" => Payload(q) = Entry(q.cmd.who, Expiry(q.cmd.until), q.cmd.who)
      /\ q.cmd.op = "update" => Payload(q) = Entry(q.cmd.who, q.cmd.until, q.entry.bundle)
      /\ q.cmd.op = "revoke" => Payload(q) = q.cmd.who
      /\ q.cmd.op = "reassign" => Payload(q) = q.cmd.file
      /\ q.cmd.op \in {"key", "join"} => Payload(q) = None
  BY DEF Payload
<1>5. q.cmd.op \in {"share", "update"} => Payload(q) \in Entries /\ Payload(q).bundle = Payload(q).who
  BY <1>2, <1>3, <1>4 DEF Entry, Entries, Expiry
<1>6. Payload(q) \in Entries \cup Accounts \cup Files \cup {None}
  BY <1>2, <1>4, <1>5 DEF Sending
<1>7. q.cmd.op = "revoke" => Payload(q) \in Accounts \ {Owner}
  BY <1>2, <1>3, <1>4
<1>8. q.cmd.op = "reassign" => Payload(q) \in Files
  BY <1>2, <1>4
<1> QED BY <1>2, <1>5, <1>6, <1>7, <1>8 DEF Txs, Statuses, q

\* The transaction is sent, or refused by the pool.
LEMMA SendStep ==
  ASSUME OwnerIInv, NEW p \in Procs, Send(p)
  PROVE  OwnerIInv'
<1> DEFINE q == proc[p]
           t == [op |-> q.cmd.op, by |-> q.cmd.by, nonce |-> q.nonce, arg |-> Payload(q),
                 st |-> "pending"]
           s == [q EXCEPT !.pc = "wait"]
<1>1. /\ q.pc = "send" /\ UNCHANGED <<row, now, fin, head, open, height, menu, have, moves>>
      /\ \/ tx' = [tx EXCEPT ![p] = t] /\ Go(p, s)
         \/ End(p, q, "error") /\ UNCHANGED tx
  BY DEF Send
<1>2. OFits(q, tx[p], now, head, have) /\ q.cmd \in Commands /\ q \in Processes
  BY <1>1, ProcessFacts
<1>3. CASE tx' = [tx EXCEPT ![p] = t] /\ Go(p, s)
  <2>1. /\ t \in Txs /\ t.op \in Sending /\ t.by \in Accounts /\ t.st = "pending"
        /\ t.op \in {"share", "update"} => t.arg \in Entries /\ t.arg.bundle = t.arg.who
        /\ t.op = "revoke" => t.arg \in Accounts \ {Owner}
        /\ t.op = "reassign" => t.arg \in Files
    BY <1>1, PayloadFits
  <2>2. "wait" \in Places
    BY DEF Places
  <2>3. /\ s \in Processes /\ s.cmd = q.cmd /\ s.head1 = q.head1
        /\ s.out = q.out /\ s.pc = "wait" /\ s.cause = q.cause
    BY <1>2, <2>2 DEF Processes
  <2>4. tx \in [Procs -> Txs] /\ menu \subseteq Commands
    BY DEF OwnerIInv, OTypes
  <2> HIDE DEF t, s
  <2>5. tx' \in [Procs -> Txs] /\ tx'[p] = t /\ \A r \in Procs : r # p => tx'[r] = tx[r]
    BY <1>3, <2>1, <2>4
  <2>6. q.out = "none"
    BY <1>1, <1>2 DEF OFits, PlaceFits
  <2>7. PlaceFits(s)
    BY <1>1, <1>2, <2>3, <2>6 DEF OFits, PlaceFits
  <2>8. TxFits(s, t)
    BY <2>1, <2>3, <2>6 DEF TxFits
  <2>9. ScanFits(s, now.list) /\ AuditFits(s, now, have)
    BY <2>3, <2>6 DEF ScanFits, AuditFits
  <2>10. ReassignFits(s, now, head)
    BY <1>1, <1>2, <2>3 DEF OFits, ReassignFits
  <2> QED BY <1>1, <1>3, <2>3, <2>4, <2>5, <2>7, <2>8, <2>9, <2>10, ProcessStep DEF OFits
<1>4. CASE End(p, q, "error") /\ UNCHANGED tx
  <2>1. "error" \in Outs
    BY DEF Outs
  <2> QED BY <1>1, <1>2, <1>4, <2>1, EndsWith
<1> QED BY <1>1, <1>3, <1>4

\* A poll ends the wait, or its deadline.
LEMMA WaitStep ==
  ASSUME OwnerIInv, NEW p \in Procs, Poll(p) \/ Deadline(p)
  PROVE  OwnerIInv'
<1>1. proc[p].pc = "wait" /\ Quiet
  BY DEF Poll, Deadline
<1>2. PICK o \in Outs : /\ End(p, proc[p], o) /\ o \notin {"not-listed", "complete"}
                        /\ o = "ok" => tx[p].st = "finalized"
  BY DEF Poll, Deadline, Settled, Outs
<1>3. proc[p] \in Processes
  BY ProcessFacts
<1> QED BY <1>1, <1>2, <1>3, EndsWith DEF Quiet

\* An RPC fails and the command with it.
LEMMA FailsStep ==
  ASSUME OwnerIInv, NEW p \in Procs, Fails(p)
  PROVE  OwnerIInv'
<1>1. /\ proc[p].pc \in Reading
      /\ UNCHANGED <<row, now, fin, head, open, height, tx, menu, have, moves>>
      /\ proc[p].pc = "pre" => Go(p, [proc[p] EXCEPT !.pc = "nonce"])
      /\ proc[p].pc # "pre" => End(p, proc[p], "error")
  BY DEF Fails
<1>2. proc[p] \in Processes /\ PlaceFits(proc[p]) /\ proc[p].pc # "idle" /\ proc[p].cmd \in Commands
  BY <1>1, ProcessFacts DEF OFits, Reading
<1>3. CASE proc[p].pc = "pre"
  <2>1. proc[p].cmd.op = "key"
    BY <1>2, <1>3 DEF PlaceFits
  <2> DEFINE s == [proc[p] EXCEPT !.pc = "nonce"]
  <2>2. "nonce" \in Places
    BY DEF Places
  <2>3. /\ s \in Processes /\ s.cmd = proc[p].cmd /\ s.head1 = proc[p].head1 /\ s.out = proc[p].out
        /\ s.pc = "nonce"
    BY <1>2, <2>2 DEF Processes
  <2>4. Go(p, s)
    BY <1>1, <1>3
  <2> HIDE DEF s
  <2>5. PlaceFits(s)
    BY <1>2, <1>3, <2>1, <2>3 DEF PlaceFits, Sending
  <2> QED BY <1>1, <1>3, <2>1, <2>3, <2>4, <2>5, MovesOn
<1>4. CASE proc[p].pc # "pre"
  <2>1. "error" \in Outs
    BY DEF Outs
  <2> QED BY <1>1, <1>2, <1>4, <2>1, EndsWith
<1> QED BY <1>3, <1>4

---------------------------------------------------------------------------
(* The scan of the access list. *)

\* A nonempty set of naturals has a least element.
LEMMA LeastOf ==
  ASSUME NEW T \in SUBSET Nat, T # {}
  PROVE  \E n \in T : \A m \in T : n <= m
<1>1. PICK n \in T : \A m \in T : ~(<<m, n>> \in OpToRel(<, Nat))
  BY NatLessThanWellFounded, WFMin, Zenon
<1>2. \A m \in T : ~(m < n)
  BY <1>1 DEF OpToRel
<1> QED BY <1>2

\* EntryIn finds an entry of the account if the page has one.
LEMMA EntryFound ==
  ASSUME NEW page \in Seq(Entries), NEW w \in Accounts
  PROVE  /\ EntryIn(page, w) = NoEntry => \A i \in DOMAIN page : page[i].who # w
         /\ EntryIn(page, w) # NoEntry =>
              \E i \in DOMAIN page : EntryIn(page, w) = page[i] /\ page[i].who = w
<1> DEFINE at == {i \in DOMAIN page : page[i].who = w}
<1>1. CASE at = {}
  BY <1>1 DEF EntryIn
<1>2. CASE at # {}
  <2>1. at \in SUBSET Nat
    BY LenProperties
  <2>2. \E i \in at : \A j \in at : i <= j
    BY <1>2, <2>1, LeastOf
  <2> DEFINE k == CHOOSE i \in at : \A j \in at : i <= j
  <2>3. k \in at
    BY <2>2
  <2>4. EntryIn(page, w) = page[k]
    BY <1>2 DEF EntryIn
  <2>5. page[k] \in Entries /\ page[k].who = w /\ k \in DOMAIN page
    BY <2>3
  <2>6. NoEntry.who = None /\ None \notin Accounts
    BY OwnerAssumption DEF NoEntry, Entry
  <2>7. page[k] # NoEntry
    BY <2>5, <2>6
  <2> HIDE DEF k
  <2> QED BY <2>4, <2>5, <2>7
<1> QED BY <1>1, <1>2

\* A page is the part of the list after its offset, as long as it reaches.
LEMMA PageFacts ==
  ASSUME now \in States, NEW i \in Nat
  PROVE  /\ PageOf(i) \in Seq(Entries)
         /\ \A k \in DOMAIN PageOf(i) :
              i * PageSize + k \in DOMAIN now.list /\ PageOf(i)[k] = now.list[i * PageSize + k]
         /\ \A k \in DOMAIN now.list : i * PageSize < k /\ k <= i * PageSize + PageSize =>
              k - i * PageSize \in DOMAIN PageOf(i)
         /\ Len(now.list) >= i * PageSize + PageSize => ~Exhausted(PageOf(i))
<1>1. PICK from : from = i * PageSize
  OBVIOUS
<1>2. from \in Nat /\ PageSize \in Nat \ {0}
  BY <1>1, OwnerAssumption
<1>3. now.list \in Seq(Entries) /\ Len(now.list) \in Nat /\ DOMAIN now.list = 1 .. Len(now.list)
  BY LenProperties DEF States
<1> DEFINE left == IF from < Len(now.list) THEN Len(now.list) - from ELSE 0
           n == IF left < PageSize THEN left ELSE PageSize
           page == [k \in 1 .. n |-> now.list[from + k]]
<1>4. PageOf(i) = page
  BY <1>1 DEF PageOf
<1>5. n \in Nat /\ n <= PageSize /\ (n # 0 => from + n <= Len(now.list))
      /\ (Len(now.list) >= from + PageSize => n = PageSize)
      /\ (n < PageSize => from + n >= Len(now.list))
  BY <1>2, <1>3
<1> HIDE DEF n
<1>6. \A k \in 1 .. n : from + k \in DOMAIN now.list
  BY <1>2, <1>3, <1>5
<1>7. page \in [1 .. n -> Entries]
  BY <1>3, <1>6
<1>8. page \in Seq(Entries) /\ Len(page) = n /\ DOMAIN page = 1 .. n
  BY <1>5, <1>7
<1>9. \A k \in DOMAIN now.list : from < k /\ k <= from + PageSize => k - from \in 1 .. n
  BY <1>2, <1>3, <1>5
<1>10. Len(now.list) >= from + PageSize => ~Exhausted(page)
  BY <1>2, <1>5, <1>8 DEF Exhausted
<1> HIDE DEF page
<1>11. \A k \in DOMAIN page : from + k \in DOMAIN now.list /\ page[k] = now.list[from + k]
  BY <1>6, <1>8 DEF page
<1> QED BY <1>1, <1>4, <1>8, <1>9, <1>10, <1>11

\* An account that is within reach and after the offset is on the page, or the
\* page is full and the account is after the next offset.
LEMMA StillAhead ==
  ASSUME now \in States, NEW i \in 0 .. MaxPages - 1, NEW w \in Accounts,
         \E k \in DOMAIN now.list :
            i * PageSize < k /\ k <= MaxPages * PageSize /\ now.list[k].who = w,
         EntryIn(PageOf(i), w) = NoEntry
  PROVE  /\ ~Exhausted(PageOf(i)) /\ i + 1 < MaxPages
         /\ \E k \in DOMAIN now.list :
              (i + 1) * PageSize < k /\ k <= MaxPages * PageSize /\ now.list[k].who = w
<1>1. PICK k \in DOMAIN now.list :
            i * PageSize < k /\ k <= MaxPages * PageSize /\ now.list[k].who = w
  OBVIOUS
<1>2. now.list \in Seq(Entries) /\ Len(now.list) \in Nat /\ DOMAIN now.list = 1 .. Len(now.list)
  BY LenProperties DEF States
<1>3. /\ i \in Nat /\ MaxPages \in Nat /\ PageSize \in Nat \ {0} /\ i * PageSize \in Nat
      /\ MaxPages * PageSize \in Nat /\ (i + 1) * PageSize = i * PageSize + PageSize
  BY OwnerAssumption
<1>4. ~(k <= i * PageSize + PageSize)
  <2> SUFFICES ASSUME k <= i * PageSize + PageSize PROVE FALSE
    OBVIOUS
  <2>1. PICK j \in DOMAIN PageOf(i) : j = k - i * PageSize
    BY <1>1, <1>3, PageFacts
  <2>2. PageOf(i)[j] = now.list[i * PageSize + j]
    BY <1>3, PageFacts
  <2>3. i * PageSize + j = k
    BY <1>1, <1>2, <1>3, <2>1
  <2>4. PageOf(i)[j].who = w
    BY <1>1, <2>2, <2>3
  <2>5. PageOf(i) \in Seq(Entries)
    BY <1>3, PageFacts
  <2> QED BY <2>1, <2>4, <2>5, EntryFound
<1>5. k > i * PageSize + PageSize /\ Len(now.list) >= i * PageSize + PageSize
  BY <1>1, <1>2, <1>3, <1>4
<1>6. ~Exhausted(PageOf(i))
  BY <1>3, <1>5, PageFacts
<1>7. i + 1 < MaxPages
  <2> SUFFICES ASSUME ~(i + 1 < MaxPages) PROVE FALSE
    OBVIOUS
  <2>1. i + 1 = MaxPages
    BY <1>3
  <2>2. MaxPages * PageSize = i * PageSize + PageSize
    BY <1>3, <2>1
  <2> QED BY <1>1, <1>2, <1>3, <1>5, <2>2
<1> QED BY <1>1, <1>3, <1>5, <1>6, <1>7

\* What a scan returns: nothing only for a cause, or an entry of the account
\* with a bundle it opens.
LEMMA FoundStep ==
  ASSUME OwnerIInv, NEW p \in Procs, proc[p].pc \in {"row", "page"}, NEW q \in Processes,
         q.cmd = proc[p].cmd, q.out = proc[p].out, q.head1 = proc[p].head1, q.tries = proc[p].tries,
         q.cmd.op \in {"share", "revoke", "update", "open"},
         q.cmd.op = "update" => q.cmd.until # None,
         q.cmd.op = "revoke" => q.cmd.who # Owner,
         NEW e, e = NoEntry => q.cause,
         e # NoEntry => e \in Entries /\ e.bundle = q.cmd.who,
         Found(p, q, e), Quiet
  PROVE  OwnerIInv'
<1>1. /\ OFits(proc[p], tx[p], now, head, have) /\ q.cmd \in Commands /\ q.out = "none"
      /\ PlaceFits(proc[p])
  BY ProcessFacts DEF OFits, PlaceFits
<1>2. \/ \E o \in Outs : End(p, q, o) /\ o \notin {"ok", "complete"} /\ (o = "not-listed" => q.cause)
      \/ q.cmd.op = "share" /\ Go(p, [q EXCEPT !.pc = "key"])
      \/ q.cmd.op = "revoke" /\ Go(p, [q EXCEPT !.pc = "nonce"])
      \/ q.cmd.op = "update" /\ e # NoEntry /\ Go(p, [q EXCEPT !.pc = "nonce", !.entry = e])
      \/ q.cmd.op = "open" /\ e # NoEntry /\ Go(p, [q EXCEPT !.pc = "expiry", !.entry = e])
  <2>1. CASE q.cmd.op = "share"
    BY <2>1 DEF Found, ShareFound, Outs
  <2>2. CASE q.cmd.op = "revoke"
    BY <2>2 DEF Found, RevokeFound, Outs
  <2>3. CASE q.cmd.op = "update"
    BY <2>3 DEF Found, UpdateFound, Outs
  <2>4. CASE q.cmd.op = "open"
    BY <2>4 DEF Found, OpenFound, Outs
  <2> QED BY <2>1, <2>2, <2>3, <2>4
<1>3. CASE \E o \in Outs : End(p, q, o) /\ o \notin {"ok", "complete"} /\ (o = "not-listed" => q.cause)
  BY <1>3, EndsWith DEF Quiet
<1>4. CASE q.cmd.op \in {"share", "revoke"} /\ \E x \in {"key", "nonce"} :
             Go(p, [q EXCEPT !.pc = x]) /\ (x = "key" => q.cmd.op = "share")
  <2>1. PICK x \in {"key", "nonce"} : Go(p, [q EXCEPT !.pc = x]) /\ (x = "key" => q.cmd.op = "share")
    BY <1>4
  <2> DEFINE s == [q EXCEPT !.pc = x]
  <2>2. x \in Places
    BY DEF Places
  <2>3. /\ s \in Processes /\ s.cmd = q.cmd /\ s.head1 = q.head1 /\ s.out = q.out /\ s.pc = x
    BY <2>2 DEF Processes
  <2>4. Go(p, s)
    BY <2>1
  <2> HIDE DEF s
  <2>5. PlaceFits(s)
    BY <1>1, <1>4, <2>1, <2>3 DEF PlaceFits, Sending
  <2> QED BY <1>4, <2>3, <2>4, <2>5, MovesOn DEF Quiet
<1>5. CASE e # NoEntry /\ \E x \in {"nonce", "expiry"} :
             /\ Go(p, [q EXCEPT !.pc = x, !.entry = e])
             /\ q.cmd.op = IF x = "nonce" THEN "update" ELSE "open"
  <2>1. PICK x \in {"nonce", "expiry"} :
             /\ Go(p, [q EXCEPT !.pc = x, !.entry = e])
             /\ q.cmd.op = IF x = "nonce" THEN "update" ELSE "open"
    BY <1>5
  <2> DEFINE s == [q EXCEPT !.pc = x, !.entry = e]
  <2>2. x \in Places /\ e \in Entries
    BY <1>5 DEF Places
  <2>3. /\ s \in Processes /\ s.cmd = q.cmd /\ s.head1 = q.head1 /\ s.out = q.out /\ s.pc = x
        /\ s.entry = e
    BY <2>2 DEF Processes
  <2>4. Go(p, s)
    BY <2>1
  <2> HIDE DEF s
  <2>5. PlaceFits(s)
    BY <1>1, <1>5, <2>1, <2>2, <2>3 DEF PlaceFits, Sending
  <2> QED BY <2>1, <2>3, <2>4, <2>5, MovesOn DEF Quiet
<1> QED BY <1>2, <1>3, <1>4, <1>5

\* A page is read: the entry is found, the scan goes on, or it ends without it.
LEMMA ScanStep ==
  ASSUME OwnerIInv, NEW p \in Procs, proc[p].pc \in {"row", "page"}, NEW q \in Processes,
         q.cmd = proc[p].cmd, q.out = proc[p].out, q.head1 = proc[p].head1, q.tries = proc[p].tries,
         q.cmd.op \in {"share", "revoke", "update", "open"},
         q.cmd.op = "update" => q.cmd.until # None,
         q.cmd.op = "revoke" => q.cmd.who # Owner,
         NEW i \in 0 .. MaxPages - 1,
         ~q.cause => \E k \in DOMAIN now.list :
            i * PageSize < k /\ k <= MaxPages * PageSize /\ now.list[k].who = q.cmd.who,
         Scan(p, q, PageOf(i), i), Quiet
  PROVE  OwnerIInv'
<1> DEFINE e == EntryIn(PageOf(i), q.cmd.who)
           s == [q EXCEPT !.pc = "page", !.page = i + 1]
<1>1. /\ OFits(proc[p], tx[p], now, head, have) /\ q.cmd \in Commands /\ q.out = "none"
      /\ PlaceFits(proc[p]) /\ now \in States /\ head \in Nat /\ ListOK(now.list)
  BY ProcessFacts DEF OFits, PlaceFits
<1>2. q.cmd.who \in Accounts /\ i \in Nat /\ PageOf(i) \in Seq(Entries)
  BY <1>1, PageFacts DEF Commands
<1>3. e # NoEntry => e \in Entries /\ e.bundle = q.cmd.who
  <2> SUFFICES ASSUME e # NoEntry PROVE e \in Entries /\ e.bundle = q.cmd.who
    OBVIOUS
  <2>1. PICK k \in DOMAIN PageOf(i) : e = PageOf(i)[k] /\ PageOf(i)[k].who = q.cmd.who
    BY <1>2, EntryFound
  <2> HIDE DEF e
  <2>2. i * PageSize + k \in DOMAIN now.list /\ e = now.list[i * PageSize + k]
    BY <1>1, <1>2, <2>1, PageFacts
  <2>3. now.list \in Seq(Entries)
    BY <1>1 DEF States
  <2> QED BY <1>1, <2>1, <2>2, <2>3 DEF ListOK
<1>4. e = NoEntry /\ ~q.cause =>
        /\ ~Exhausted(PageOf(i)) /\ i + 1 < MaxPages
        /\ \E k \in DOMAIN now.list :
              (i + 1) * PageSize < k /\ k <= MaxPages * PageSize /\ now.list[k].who = q.cmd.who
  BY <1>1, <1>2, StillAhead
<1> HIDE DEF e
<1>5. CASE e # NoEntry \/ Exhausted(PageOf(i)) \/ i + 1 >= MaxPages
  <2>1. Found(p, q, e)
    BY <1>5 DEF Scan, e
  <2>2. i + 1 >= MaxPages => ~(i + 1 < MaxPages)
    BY OwnerAssumption
  <2>3. e = NoEntry => q.cause
    BY <1>4, <1>5, <2>2
  <2> QED BY <1>3, <2>1, <2>3, FoundStep
<1>6. CASE e = NoEntry /\ ~Exhausted(PageOf(i)) /\ ~(i + 1 >= MaxPages)
  <2>1. Go(p, s)
    BY <1>6 DEF Scan, e
  <2>2. "page" \in Places /\ i + 1 \in 0 .. MaxPages - 1
    BY <1>6, OwnerAssumption DEF Places
  <2>3. /\ s \in Processes /\ s.cmd = q.cmd /\ s.head1 = q.head1 /\ s.out = q.out /\ s.pc = "page"
        /\ s.page = i + 1 /\ s.cause = q.cause
    BY <2>2 DEF Processes
  <2> HIDE DEF s
  <2>4. tx[p].st = "none" /\ s.head1 <= head
    BY <1>1, <2>3 DEF OFits, TxFits, ReassignFits
  <2>5. PlaceFits(s)
    BY <1>1, <2>3 DEF PlaceFits
  <2>6. ScanFits(s, now.list)
    BY <1>1, <1>4, <1>6, <2>3 DEF ScanFits
  <2>7. TxFits(s, tx[p]) /\ AuditFits(s, now, have) /\ ReassignFits(s, now, head)
    BY <1>1, <2>3, <2>4 DEF TxFits, AuditFits, ReassignFits
  <2>8. tx' \in [Procs -> Txs] /\ menu' \subseteq Commands
    BY DEF OwnerIInv, OTypes, Quiet
  <2> QED BY <2>1, <2>3, <2>5, <2>6, <2>7, <2>8, ProcessStep DEF OFits, Quiet
<1> QED BY <1>5, <1>6

\* The checks before the first RPC.
LEMMA GateStep ==
  ASSUME OwnerIInv, NEW p \in Procs, Gate(p)
  PROVE  OwnerIInv'
<1>1. /\ proc[p].pc = "gate" /\ Quiet
      /\ \/ End(p, proc[p], "no-directive")
         \/ proc[p].cmd.op = "key" /\ Go(p, [proc[p] EXCEPT !.pc = "pre"])
         \/ /\ proc[p].cmd.op # "key" /\ ~(proc[p].cmd.op = "update" /\ proc[p].cmd.until = None)
            /\ Go(p, [proc[p] EXCEPT !.pc = "row"])
  BY DEF Gate
<1>2. PlaceFits(proc[p]) /\ proc[p].cmd \in Commands /\ proc[p] \in Processes
  BY <1>1, ProcessFacts DEF OFits
<1>3. CASE End(p, proc[p], "no-directive")
  <2>1. "no-directive" \in Outs
    BY DEF Outs
  <2> QED BY <1>1, <1>2, <1>3, <2>1, EndsWith DEF Quiet
<1>4. CASE proc[p].cmd.op = "key" /\ Go(p, [proc[p] EXCEPT !.pc = "pre"])
  <2>1. \A s \in Processes : Onward(s, proc[p], "pre") => PlaceFits(s)
    BY <1>2, <1>4 DEF PlaceFits, Onward
  <2> QED BY <1>1, <1>4, <2>1, OnlyMoves
<1>5. CASE /\ proc[p].cmd.op # "key" /\ ~(proc[p].cmd.op = "update" /\ proc[p].cmd.until = None)
           /\ Go(p, [proc[p] EXCEPT !.pc = "row"])
  <2>1. proc[p].cmd.op \in {"share", "revoke", "update"}
    BY <1>1, <1>2, <1>5 DEF PlaceFits
  <2>2. \A s \in Processes : Onward(s, proc[p], "row") => PlaceFits(s)
    BY <1>2, <1>5, <2>1 DEF PlaceFits, Onward
  <2> QED BY <1>1, <1>5, <2>1, <2>2, OnlyMoves
<1> QED BY <1>1, <1>3, <1>4, <1>5

\* The file row and the first page.
LEMMA RowStep ==
  ASSUME OwnerIInv, NEW p \in Procs, ReadRow(p)
  PROVE  OwnerIInv'
<1> DEFINE page == PageOf(0)
           q == [proc[p] EXCEPT !.seed = page, !.cause = ~InReach(now.list, proc[p].cmd.who)]
<1>1. PlaceFits(proc[p]) /\ proc[p] \in Processes /\ now \in States
  BY ProcessFacts DEF OFits
<1>2. page \in Seq(Entries)
  BY <1>1, PageFacts
<1> HIDE DEF page
<1>3. PICK c \in BOOLEAN : c = ~InReach(now.list, proc[p].cmd.who)
  BY DEF InReach
<1>4. LET z == [proc[p] EXCEPT !.seed = page, !.cause = c] IN
      /\ z \in Processes /\ z.cmd = proc[p].cmd /\ z.out = proc[p].out /\ z.pc = proc[p].pc
      /\ z.head1 = proc[p].head1 /\ z.tries = proc[p].tries /\ z.cause = c
  BY <1>1, <1>2 DEF Processes
<1>5. q = [proc[p] EXCEPT !.seed = page, !.cause = c]
  BY <1>3, Zenon
<1>6. /\ q \in Processes /\ q.cmd = proc[p].cmd /\ q.out = proc[p].out /\ q.pc = proc[p].pc
      /\ q.head1 = proc[p].head1 /\ q.tries = proc[p].tries /\ q.cause = c
  BY <1>4, <1>5
<1>7. /\ q.pc = "row" /\ Quiet
      /\ \/ \E o \in {"another-route", OwnerRefusal, "self-revoke"} :
              End(p, q, o) /\ (o = OwnerRefusal => OwnerRefusal # "none")
         \/ ~OwnerSelfRevoke(q) /\ Scan(p, q, PageOf(0), 0)
  BY DEF ReadRow, page
<1> HIDE DEF q
<1>8. CASE \E o \in {"another-route", OwnerRefusal, "self-revoke"} :
              End(p, q, o) /\ (o = OwnerRefusal => OwnerRefusal # "none")
  <2>1. {"another-route", OwnerRefusal, "self-revoke"} \subseteq Outs \ {"ok", "complete", "not-listed"}
    BY DEF Outs, OwnerRefusal
  <2> QED BY <1>6, <1>7, <1>8, <2>1, EndsWith DEF Quiet
<1>9. CASE ~OwnerSelfRevoke(q) /\ Scan(p, q, PageOf(0), 0)
  <2>1. proc[p].pc = "row"
    BY <1>6, <1>7
  <2>2. /\ q.cmd.op \in {"share", "revoke", "update", "open"}
        /\ q.cmd.op = "update" => q.cmd.until # None
    BY <1>1, <1>6, <2>1 DEF PlaceFits
  <2>3. q.cmd.op = "revoke" => q.cmd.who # Owner
    BY <1>9 DEF OwnerSelfRevoke
  <2>4. 0 \in 0 .. MaxPages - 1 /\ 0 * PageSize = 0
    BY OwnerAssumption
  <2>5. now.list \in Seq(Entries) /\ Len(now.list) \in Nat /\ DOMAIN now.list = 1 .. Len(now.list)
    BY <1>1, LenProperties DEF States
  <2>6. ~q.cause => \E k \in DOMAIN now.list :
            0 * PageSize < k /\ k <= MaxPages * PageSize /\ now.list[k].who = q.cmd.who
    <3>1. ~q.cause => InReach(now.list, proc[p].cmd.who)
      BY <1>3, <1>6, Zenon
    <3>2. InReach(now.list, proc[p].cmd.who) => \E k \in DOMAIN now.list :
            0 < k /\ k <= MaxPages * PageSize /\ now.list[k].who = proc[p].cmd.who
      BY <2>5 DEF InReach
    <3> QED BY <1>6, <2>4, <3>1, <3>2
  <2> QED BY <1>6, <1>7, <1>9, <2>1, <2>2, <2>3, <2>4, <2>6, ScanStep
<1> QED BY <1>7, <1>8, <1>9

\* A later page.
LEMMA PageStep ==
  ASSUME OwnerIInv, NEW p \in Procs, ReadPage(p)
  PROVE  OwnerIInv'
<1>1. proc[p].pc = "page" /\ Scan(p, proc[p], PageOf(proc[p].page), proc[p].page) /\ Quiet
  BY DEF ReadPage
<1>2. OFits(proc[p], tx[p], now, head, have) /\ proc[p] \in Processes
  BY ProcessFacts
<1>3. PICK i \in 0 .. MaxPages - 1 : i = proc[p].page
  BY <1>2 DEF Processes
<1>4. /\ proc[p].cmd.op \in {"share", "revoke", "update", "open"}
      /\ proc[p].cmd.op = "update" => proc[p].cmd.until # None
      /\ proc[p].cmd.op = "revoke" => proc[p].cmd.who # Owner
  BY <1>1, <1>2 DEF OFits, PlaceFits
<1>5. ~proc[p].cause => \E k \in DOMAIN now.list :
          i * PageSize < k /\ k <= MaxPages * PageSize /\ now.list[k].who = proc[p].cmd.who
  BY <1>1, <1>2, <1>3 DEF OFits, ScanFits
<1> QED BY <1>1, <1>2, <1>3, <1>4, <1>5, ScanStep

\* The recipient's encryption key is read.
LEMMA KeyStep ==
  ASSUME OwnerIInv, NEW p \in Procs, ReadKey(p)
  PROVE  OwnerIInv'
<1> DEFINE s == [proc[p] EXCEPT !.pc = "own", !.page = 0]
<1>1. proc[p].pc = "key" /\ Quiet /\ (End(p, proc[p], "no-key") \/ Go(p, s))
  BY DEF ReadKey
<1>2. PlaceFits(proc[p]) /\ proc[p].cmd \in Commands /\ proc[p] \in Processes
  BY <1>1, ProcessFacts DEF OFits
<1>3. CASE End(p, proc[p], "no-key")
  <2>1. "no-key" \in Outs
    BY DEF Outs
  <2> QED BY <1>1, <1>2, <1>3, <2>1, EndsWith DEF Quiet
<1>4. CASE Go(p, s)
  <2>1. "own" \in Places /\ 0 \in 0 .. MaxPages - 1
    BY OwnerAssumption DEF Places
  <2>2. /\ s \in Processes /\ s.cmd = proc[p].cmd /\ s.head1 = proc[p].head1 /\ s.out = proc[p].out
        /\ s.pc = "own"
    BY <1>2, <2>1 DEF Processes
  <2> HIDE DEF s
  <2>3. PlaceFits(s)
    BY <1>1, <1>2, <2>2 DEF PlaceFits
  <2> QED BY <1>1, <1>4, <2>2, <2>3, MovesOn DEF Quiet
<1> QED BY <1>1, <1>3, <1>4

\* The owner's own bundle is opened.
LEMMA OwnKeyStep ==
  ASSUME OwnerIInv, NEW p \in Procs, RecoverKey(p)
  PROVE  OwnerIInv'
<1> DEFINE s == [proc[p] EXCEPT !.page = proc[p].page + 1]
<1>1. /\ proc[p].pc = "own" /\ Quiet
      /\ \/ End(p, proc[p], "unwrap") \/ End(p, proc[p], "owner-missing")
         \/ Go(p, [proc[p] EXCEPT !.pc = "nonce"])
         \/ ~(proc[p].page + 1 >= MaxPages) /\ Go(p, s)
  BY DEF RecoverKey
<1>2. PlaceFits(proc[p]) /\ proc[p].cmd \in Commands /\ proc[p] \in Processes
  BY <1>1, ProcessFacts DEF OFits
<1>3. proc[p].cmd.op = "share"
  BY <1>1, <1>2 DEF PlaceFits
<1>4. CASE End(p, proc[p], "unwrap") \/ End(p, proc[p], "owner-missing")
  <2>1. "unwrap" \in Outs /\ "owner-missing" \in Outs
    BY DEF Outs
  <2> QED BY <1>1, <1>2, <1>4, <2>1, EndsWith DEF Quiet
<1>5. CASE Go(p, [proc[p] EXCEPT !.pc = "nonce"])
  <2>1. \A z \in Processes : Onward(z, proc[p], "nonce") => PlaceFits(z)
    BY <1>2, <1>3 DEF PlaceFits, Onward, Sending
  <2> QED BY <1>1, <1>3, <1>5, <2>1, OnlyMoves
<1>6. CASE ~(proc[p].page + 1 >= MaxPages) /\ Go(p, s)
  <2>1. proc[p].page \in 0 .. MaxPages - 1
    BY <1>2 DEF Processes
  <2>2. proc[p].page + 1 \in 0 .. MaxPages - 1
    BY <1>6, <2>1, OwnerAssumption
  <2>3. /\ s \in Processes /\ s.cmd = proc[p].cmd /\ s.head1 = proc[p].head1 /\ s.out = proc[p].out
        /\ s.pc = proc[p].pc
    BY <1>2, <2>2 DEF Processes
  <2> HIDE DEF s
  <2>4. PlaceFits(s)
    BY <1>1, <1>2, <1>3, <2>3 DEF PlaceFits
  <2> QED BY <1>1, <1>6, <2>3, <2>4, MovesOn DEF Quiet
<1> QED BY <1>1, <1>4, <1>5, <1>6

\* The expiry is compared with the finalized height.
LEMMA HeightStep ==
  ASSUME OwnerIInv, NEW p \in Procs, ReadHeight(p)
  PROVE  OwnerIInv'
<1>1. /\ proc[p].pc = "expiry" /\ Quiet
      /\ \E o \in {"expired", "opened", "unwrap"} : End(p, proc[p], o)
  BY DEF ReadHeight
<1>2. proc[p] \in Processes
  BY ProcessFacts
<1>3. {"expired", "opened", "unwrap"} \subseteq Outs
  BY DEF Outs
<1> QED BY <1>1, <1>2, <1>3, EndsWith DEF Quiet

---------------------------------------------------------------------------
(* Reassignment. *)

\* The file row and the chain parameters are read for a reassignment.
LEMMA InfoStep ==
  ASSUME OwnerIInv, NEW p \in Procs, ReadInfo(p) \/ ReadParams(p)
  PROVE  OwnerIInv'
<1>1. /\ proc[p].pc \in {"info", "params"} /\ Quiet
      /\ \/ \E o \in {"not-registered", "not-owner"} : End(p, proc[p], o)
         \/ proc[p].pc = "info" /\ Go(p, [proc[p] EXCEPT !.pc = "params"])
         \/ proc[p].pc = "params" /\ Go(p, [proc[p] EXCEPT !.pc = "head1"])
  BY DEF ReadInfo, ReadParams
<1>2. PlaceFits(proc[p]) /\ proc[p].cmd \in Commands /\ proc[p] \in Processes
  BY <1>1, ProcessFacts DEF OFits
<1>3. proc[p].cmd.op = "reassign" /\ proc[p].tries = 0
  BY <1>1, <1>2 DEF PlaceFits
<1>4. CASE \E o \in {"not-registered", "not-owner"} : End(p, proc[p], o)
  <2>1. {"not-registered", "not-owner"} \subseteq Outs
    BY DEF Outs
  <2> QED BY <1>1, <1>2, <1>4, <2>1, EndsWith DEF Quiet
<1>5. ASSUME NEW x \in {"params", "head1"}, Go(p, [proc[p] EXCEPT !.pc = x]) PROVE OwnerIInv'
  <2>1. \A z \in Processes : Onward(z, proc[p], x) => PlaceFits(z)
    BY <1>2, <1>3, OwnerAssumption DEF PlaceFits, Onward
  <2> QED BY <1>1, <1>5, <2>1, OnlyMoves
<1> QED BY <1>1, <1>4, <1>5

\* A reassignment reads on: the places, and what was read, say all there is to say.
LEMMA ReadsOn ==
  ASSUME OwnerIInv, NEW p \in Procs,
         proc[p].pc \in {"head1", "rows", "active", "rows2", "active2", "head2"},
         NEW s \in Processes, Go(p, s), s.cmd = proc[p].cmd, s.out = proc[p].out,
         s.pc \in {"head1", "rows", "active", "rows2", "active2", "head2"},
         s.pc = "head1" => s.tries < ReadAttempts, ReassignFits(s, now, head), Quiet
  PROVE  OwnerIInv'
<1>1. OFits(proc[p], tx[p], now, head, have) /\ proc[p].cmd \in Commands
  BY ProcessFacts
<1>2. proc[p].cmd.op = "reassign" /\ proc[p].out = "none" /\ tx[p].st = "none"
  BY <1>1 DEF OFits, PlaceFits, TxFits
<1>3. PlaceFits(s)
  BY <1>1, <1>2 DEF PlaceFits
<1>4. TxFits(s, tx[p]) /\ ScanFits(s, now.list) /\ AuditFits(s, now, have)
  BY <1>2 DEF TxFits, ScanFits, AuditFits
<1>5. tx' \in [Procs -> Txs] /\ menu' \subseteq Commands
  BY DEF OwnerIInv, OTypes, Quiet
<1> QED BY <1>3, <1>4, <1>5, ProcessStep DEF OFits, Quiet

\* The head is read before the coverage.
LEMMA Head1Step ==
  ASSUME OwnerIInv, NEW p \in Procs, ReadHead1(p)
  PROVE  OwnerIInv'
<1> DEFINE f == proc[p].cmd.file
<1>1. OFits(proc[p], tx[p], now, head, have) /\ proc[p] \in Processes /\ head \in Nat
  BY ProcessFacts
<1>2. PICK c \in BOOLEAN : c = DepartedAssignee(now, f)
  BY DEF DepartedAssignee
<1> DEFINE s == [proc[p] EXCEPT !.pc = "rows", !.head1 = head, !.tries = proc[p].tries + 1, !.cause = c]
<1>3. proc[p].pc = "head1" /\ Quiet /\ Go(p, s)
  BY <1>2, Zenon DEF ReadHead1
<1>4. "rows" \in Places /\ proc[p].tries + 1 \in 0 .. ReadAttempts
  <2>1. proc[p].tries \in 0 .. ReadAttempts
    BY <1>1 DEF Processes
  <2>2. proc[p].tries < ReadAttempts
    BY <1>1, <1>3 DEF OFits, PlaceFits
  <2> QED BY <2>1, <2>2, OwnerAssumption DEF Places
<1>5. /\ s \in Processes /\ s.cmd = proc[p].cmd /\ s.head1 = head /\ s.out = proc[p].out
      /\ s.pc = "rows" /\ s.cause = c
  BY <1>1, <1>4 DEF Processes
<1> HIDE DEF s
<1>6. DepartedAssignee(now, f) => s.cause
  BY <1>2, <1>5, Zenon
<1>7. ReassignFits(s, now, head)
  BY <1>1, <1>5, <1>6 DEF ReassignFits
<1> QED BY <1>3, <1>5, <1>7, ReadsOn

\* The epoch rows are read.
LEMMA RowsStep ==
  ASSUME OwnerIInv, NEW p \in Procs, ReadEpochRows(p)
  PROVE  OwnerIInv'
<1> DEFINE f == proc[p].cmd.file
<1>1. /\ OFits(proc[p], tx[p], now, head, have) /\ proc[p] \in Processes /\ head \in Nat
      /\ now \in States
  BY ProcessFacts
<1>2. proc[p].pc \in {"rows", "rows2"} /\ Quiet
  BY DEF ReadEpochRows
<1>3. f \in Files
  BY <1>2, ProcessFacts DEF Commands
<1>4. PICK n \in BOOLEAN : n = Needed(now, f)
  BY DEF Needed
<1>5. PICK x \in {"active", "active2"} :
        x = IF proc[p].pc = "rows" THEN "active" ELSE "active2"
  OBVIOUS
<1> DEFINE c == Coverage(RowsOf(f), {}, n)
           s == [proc[p] EXCEPT !.pc = x, !.saw = c]
<1>6. Go(p, s)
  BY <1>4, <1>5, Zenon DEF ReadEpochRows
<1>7. c \in Coverages /\ c.rows.snap = now.snap[f] /\ c.rows.epoch = now.epoch[f]
  <2>1. {} \in SUBSET Archives
    OBVIOUS
  <2>2. RowsOf(f) \in [snap : SUBSET Archives, epoch : Nat]
    BY <1>1, <1>3 DEF RowsOf, States
  <2>3. c \in Coverages /\ c.rows = RowsOf(f)
    BY <2>1, <2>2 DEF Coverage, Coverages
  <2> QED BY <2>3 DEF RowsOf
<1>8. x \in Places
  BY DEF Places
<1> HIDE DEF c
<1>9. /\ s \in Processes /\ s.cmd = proc[p].cmd /\ s.head1 = proc[p].head1 /\ s.out = proc[p].out
      /\ s.pc = x /\ s.cause = proc[p].cause /\ s.saw = c /\ s.cov = proc[p].cov
  BY <1>1, <1>7, <1>8 DEF Processes
<1> HIDE DEF s
<1>10. now.epoch[f] \in Nat /\ proc[p].cov.rows.epoch \in Nat
  BY <1>1, <1>3 DEF States, Processes, Coverages
<1>11. ReassignFits(proc[p], now, head)
  BY <1>1 DEF OFits
<1>12. x = "active2" => proc[p].pc = "rows2"
  BY <1>2, <1>5
<1>13. s.cmd.file = f
  BY <1>9
<1>14. ReassignFits(s, now, head)
  BY <1>2, <1>7, <1>9, <1>10, <1>11, <1>12 DEF ReassignFits
<1> QED BY <1>2, <1>6, <1>9, <1>14, ReadsOn

\* The active set is read: with the rows, a coverage.
LEMMA ActiveStep ==
  ASSUME OwnerIInv, NEW p \in Procs, ReadActive(p)
  PROVE  OwnerIInv'
<1> DEFINE f == proc[p].cmd.file
           g == now.gone \cap proc[p].saw.rows.snap
<1>1. /\ OFits(proc[p], tx[p], now, head, have) /\ proc[p] \in Processes /\ head \in Nat
      /\ now \in States
  BY ProcessFacts
<1>2. proc[p].pc \in {"active", "active2"} /\ Quiet
  BY DEF ReadActive
<1>3. f \in Files
  BY <1>2, ProcessFacts DEF Commands
<1>4. PICK n \in {proc[p].saw.needed, Needed(now, f)} :
        LET c == Coverage(proc[p].saw.rows, g, n) IN
        IF proc[p].pc = "active"
        THEN IF n THEN Go(p, [proc[p] EXCEPT !.pc = "rows2", !.cov = c])
                  ELSE End(p, proc[p], "not-needed")
        ELSE Go(p, [proc[p] EXCEPT !.pc = "head2", !.saw = c])
  BY DEF ReadActive
<1>5. n \in BOOLEAN /\ g \in SUBSET Archives /\ proc[p].saw \in Coverages
  <2>1. proc[p].saw \in Coverages
    BY <1>1 DEF Processes
  <2>2. proc[p].saw.needed \in BOOLEAN /\ Needed(now, f) \in BOOLEAN
    BY <2>1, Zenon DEF Coverages, Needed
  <2>3. proc[p].saw.rows.snap \in SUBSET Archives
    BY <2>1 DEF Coverages
  <2> QED BY <2>1, <2>2, <2>3
<1> DEFINE c == Coverage(proc[p].saw.rows, g, n)
<1>6. c \in Coverages /\ c.rows = proc[p].saw.rows /\ c.gone = g
  <2>1. proc[p].saw.rows \in [snap : SUBSET Archives, epoch : Nat]
    BY <1>5 DEF Coverages
  <2> HIDE DEF g
  <2> QED BY <1>5, <2>1 DEF Coverage, Coverages
<1>7. /\ proc[p].pc = "active" => \/ Go(p, [proc[p] EXCEPT !.pc = "rows2", !.cov = c])
                                 \/ End(p, proc[p], "not-needed")
      /\ proc[p].pc = "active2" => Go(p, [proc[p] EXCEPT !.pc = "head2", !.saw = c])
  BY <1>4
<1> HIDE DEF c
<1>8. now.epoch[f] \in Nat /\ proc[p].cov.rows.epoch \in Nat /\ proc[p].saw.rows.epoch \in Nat
  BY <1>1, <1>3 DEF States, Processes, Coverages
<1>9. ReassignFits(proc[p], now, head)
  BY <1>1 DEF OFits
<1>10. CASE proc[p].pc = "active" /\ Go(p, [proc[p] EXCEPT !.pc = "rows2", !.cov = c])
  <2> DEFINE s == [proc[p] EXCEPT !.pc = "rows2", !.cov = c]
  <2>1. "rows2" \in Places
    BY DEF Places
  <2>2. /\ s \in Processes /\ s.cmd = proc[p].cmd /\ s.head1 = proc[p].head1 /\ s.out = proc[p].out
        /\ s.pc = "rows2" /\ s.cause = proc[p].cause /\ s.cov = c
    BY <1>1, <1>6, <2>1 DEF Processes
  <2>3. Go(p, s)
    BY <1>10
  <2> HIDE DEF s
  <2>4. proc[p].head1 = head /\ c.rows.epoch = now.epoch[f] /\ Departed(f, c) # {} => DepartedAssignee(now, f)
    BY <1>6, <1>9, <1>10 DEF ReassignFits, Departed, DepartedAssignee
  <2>5. proc[p].head1 = head => c.rows.epoch <= now.epoch[f]
    BY <1>6, <1>9, <1>10 DEF ReassignFits
  <2>6. DepartedAssignee(now, f) => proc[p].cause
    BY <1>9, <1>10 DEF ReassignFits
  <2>7. proc[p].head1 = head /\ Departed(f, c) # {} /\ ~proc[p].cause => c.rows.epoch < now.epoch[f]
    BY <1>6, <1>8, <2>4, <2>5, <2>6
  <2>8. proc[p].head1 <= head
    BY <1>9 DEF ReassignFits
  <2>9. ReassignFits(s, now, head)
    BY <2>2, <2>6, <2>7, <2>8 DEF ReassignFits
  <2> QED BY <1>2, <2>2, <2>3, <2>9, ReadsOn
<1>11. CASE proc[p].pc = "active2" /\ Go(p, [proc[p] EXCEPT !.pc = "head2", !.saw = c])
  <2> DEFINE s == [proc[p] EXCEPT !.pc = "head2", !.saw = c]
  <2>1. "head2" \in Places
    BY DEF Places
  <2>2. /\ s \in Processes /\ s.cmd = proc[p].cmd /\ s.head1 = proc[p].head1 /\ s.out = proc[p].out
        /\ s.pc = "head2" /\ s.cause = proc[p].cause /\ s.saw = c /\ s.cov = proc[p].cov
    BY <1>1, <1>6, <2>1 DEF Processes
  <2>3. Go(p, s)
    BY <1>11
  <2> HIDE DEF s
  <2>4. ReassignFits(s, now, head)
    BY <1>6, <1>9, <1>11, <2>2 DEF ReassignFits
  <2> QED BY <1>2, <2>2, <2>3, <2>4, ReadsOn
<1>12. CASE End(p, proc[p], "not-needed")
  <2>1. "not-needed" \in Outs
    BY DEF Outs
  <2> QED BY <1>1, <1>2, <1>12, <2>1, EndsWith DEF Quiet
<1> QED BY <1>2, <1>7, <1>10, <1>11, <1>12

\* The head is read again: a departed archive with a chunk, in two equal coverages
\* of one head, was departed and assigned at one moment.
LEMMA Head2Step ==
  ASSUME OwnerIInv, NEW p \in Procs, ReadHead2(p)
  PROVE  OwnerIInv'
<1> DEFINE f == proc[p].cmd.file
           q == proc[p]
<1>1. /\ OFits(q, tx[p], now, head, have) /\ q \in Processes /\ head \in Nat /\ q.cmd \in Commands
  BY ProcessFacts DEF ReadHead2
<1>2. q.pc = "head2" /\ Quiet
  BY DEF ReadHead2
<1>3. \/ \E o \in {"unstable", "nobody-departed"} : End(p, q, o)
      \/ q.tries < ReadAttempts /\ Go(p, [q EXCEPT !.pc = "head1"])
      \/ Stable(q) /\ Departed(f, q.cov) # {} /\ Go(p, [q EXCEPT !.pc = "build"])
  BY DEF ReadHead2, Again
<1>4. q.cmd.op = "reassign"
  BY <1>1, <1>2 DEF OFits, PlaceFits
<1>5. CASE \E o \in {"unstable", "nobody-departed"} : End(p, q, o)
  <2>1. {"unstable", "nobody-departed"} \subseteq Outs
    BY DEF Outs
  <2> QED BY <1>1, <1>2, <1>5, <2>1, EndsWith DEF Quiet
<1>6. CASE q.tries < ReadAttempts /\ Go(p, [q EXCEPT !.pc = "head1"])
  <2>1. \A z \in Processes : Onward(z, q, "head1") => PlaceFits(z)
    BY <1>1, <1>4, <1>6 DEF PlaceFits, Onward
  <2> QED BY <1>2, <1>6, <2>1, OnlyMoves
<1>7. CASE Stable(q) /\ Departed(f, q.cov) # {} /\ Go(p, [q EXCEPT !.pc = "build"])
  <2>1. q.head1 = head /\ q.cov = q.saw
    BY <1>7 DEF Stable, SameReads
  <2>2. q.saw.rows.epoch \in Nat
    BY <1>1 DEF Processes, Coverages
  <2>3. ReassignFits(q, now, head)
    BY <1>1 DEF OFits
  <2>4. q.cause
    BY <1>2, <1>7, <2>1, <2>2, <2>3 DEF ReassignFits
  <2>5. \A z \in Processes : Onward(z, q, "build") => PlaceFits(z)
    BY <1>1, <1>4 DEF PlaceFits, Onward
  <2> QED BY <1>2, <1>7, <2>4, <2>5, OnlyMoves
<1> QED BY <1>3, <1>5, <1>6, <1>7

\* The transaction is built and checked, or nothing is signed.
LEMMA BuildStep ==
  ASSUME OwnerIInv, NEW p \in Procs, Unusable(p) \/ Build(p) \/ Mismatch(p)
  PROVE  OwnerIInv'
<1> DEFINE q == proc[p]
           s == [q EXCEPT !.pc = "send", !.nonce = now.nonce[q.cmd.by]]
<1>1. /\ q.pc \in {"head2", "build"}
      /\ UNCHANGED <<row, now, fin, head, open, height, tx, menu, have, moves>>
      /\ \/ \E o \in {"unusable", "dry-run", "mismatch"} : End(p, q, o)
         \/ q.pc = "build" /\ Go(p, s)
  BY DEF Unusable, Build, Mismatch, Quiet
<1>2. /\ OFits(q, tx[p], now, head, have) /\ q \in Processes /\ q.cmd \in Commands /\ now \in States
  BY <1>1, ProcessFacts
<1>3. CASE \E o \in {"unusable", "dry-run", "mismatch"} : End(p, q, o)
  <2>1. {"unusable", "dry-run", "mismatch"} \subseteq Outs
    BY DEF Outs
  <2> QED BY <1>1, <1>2, <1>3, <2>1, EndsWith
<1>4. CASE q.pc = "build" /\ Go(p, s)
  <2>1. now.nonce[q.cmd.by] \in Nat /\ "send" \in Places
    BY <1>2 DEF Commands, States, Places
  <2>2. /\ s \in Processes /\ s.cmd = q.cmd /\ s.head1 = q.head1 /\ s.out = q.out /\ s.pc = "send"
        /\ s.cause = q.cause
    BY <1>2, <2>1 DEF Processes
  <2>3. q.cause /\ q.cmd.op = "reassign"
    BY <1>2, <1>4 DEF OFits, ReassignFits, PlaceFits
  <2> HIDE DEF s
  <2>4. PlaceFits(s)
    BY <1>2, <1>4, <2>2, <2>3 DEF OFits, PlaceFits, Sending
  <2> QED BY <1>1, <1>4, <2>2, <2>3, <2>4, MovesOn
<1> QED BY <1>1, <1>3, <1>4

---------------------------------------------------------------------------
(* The audit. *)

\* An audit goes on: the places and what is reported say all there is to say.
LEMMA AuditsOn ==
  ASSUME OwnerIInv, NEW p \in Procs, proc[p].pc \in {"audit", "epoch", "answer", "recheck"},
         NEW s \in Processes, Go(p, s), s.cmd = proc[p].cmd, s.out = proc[p].out,
         s.head1 = proc[p].head1, s.entry = proc[p].entry,
         s.pc \in {"epoch", "answer", "recheck"}, AuditFits(s, now, have), Quiet
  PROVE  OwnerIInv'
<1>1. OFits(proc[p], tx[p], now, head, have) /\ proc[p].cmd \in Commands
  BY ProcessFacts
<1>2. proc[p].out = "none" /\ tx[p].st = "none" /\ proc[p].head1 <= head
  BY <1>1 DEF OFits, PlaceFits, TxFits, ReassignFits
<1>3. PlaceFits(s)
  BY <1>1, <1>2 DEF PlaceFits
<1>4. TxFits(s, tx[p]) /\ ScanFits(s, now.list) /\ ReassignFits(s, now, head)
  BY <1>2 DEF TxFits, ScanFits, ReassignFits
<1>5. tx' \in [Procs -> Txs] /\ menu' \subseteq Commands
  BY DEF OwnerIInv, OTypes, Quiet
<1> QED BY <1>3, <1>4, <1>5, ProcessStep DEF OFits, Quiet

\* The file rows are read for an audit.
LEMMA BeginStep ==
  ASSUME OwnerIInv, NEW p \in Procs, Begin(p)
  PROVE  OwnerIInv'
<1> DEFINE q == proc[p]
           s == [q EXCEPT !.pc = "epoch"]
<1>1. /\ q.pc = "audit" /\ Quiet
      /\ Go(p, s) \/ \E o \in {"audit-error", "nothing-assigned"} : End(p, q, o)
  BY DEF Begin
<1>2. OFits(q, tx[p], now, head, have) /\ q \in Processes
  BY ProcessFacts
<1>3. CASE \E o \in {"audit-error", "nothing-assigned"} : End(p, q, o)
  <2>1. {"audit-error", "nothing-assigned"} \subseteq Outs
    BY DEF Outs
  <2> QED BY <1>1, <1>2, <1>3, <2>1, EndsWith DEF Quiet
<1>4. CASE Go(p, s)
  <2>1. "epoch" \in Places
    BY DEF Places
  <2>2. /\ s \in Processes /\ s.cmd = q.cmd /\ s.head1 = q.head1 /\ s.out = q.out /\ s.pc = "epoch"
        /\ s.entry = q.entry /\ s.report = q.report /\ s.again = q.again
    BY <1>2, <2>1 DEF Processes
  <2>3. q.out = "none" /\ AuditFits(q, now, have)
    BY <1>1, <1>2 DEF OFits, PlaceFits
  <2> HIDE DEF s
  <2>4. AuditFits(s, now, have)
    BY <1>1, <2>2, <2>3 DEF AuditFits
  <2> QED BY <1>1, <1>4, <2>2, <2>4, AuditsOn
<1> QED BY <1>1, <1>3, <1>4

\* A file's epoch and snapshot are read.
LEMMA EpochStep ==
  ASSUME OwnerIInv, NEW p \in Procs, ReadEpoch(p)
  PROVE  OwnerIInv'
<1> DEFINE q == proc[p]
<1>1. PICK f \in Files : /\ q.pc = "epoch" /\ Quiet
                         /\ Go(p, [q EXCEPT !.pc = "answer", !.file = f, !.epoch = now.epoch[f],
                                            !.snap = now.snap[f]])
  BY DEF ReadEpoch
<1> DEFINE s == [q EXCEPT !.pc = "answer", !.file = f, !.epoch = now.epoch[f], !.snap = now.snap[f]]
<1>2. OFits(q, tx[p], now, head, have) /\ q \in Processes /\ now \in States
  BY ProcessFacts
<1>3. "answer" \in Places /\ now.epoch[f] \in Nat /\ now.snap[f] \in SUBSET Archives
  BY <1>2 DEF Places, States
<1>4. /\ s \in Processes /\ s.cmd = q.cmd /\ s.head1 = q.head1 /\ s.out = q.out /\ s.pc = "answer"
      /\ s.entry = q.entry /\ s.report = q.report /\ s.cause = q.cause /\ s.file = f
      /\ s.epoch = now.epoch[f] /\ s.snap = now.snap[f] /\ s.again = q.again
  BY <1>2, <1>3 DEF Processes
<1> HIDE DEF s
<1>5. AuditFits(s, now, have)
  <2>1. AuditFits(q, now, have)
    BY <1>2 DEF OFits
  <2> QED BY <1>1, <1>3, <1>4, <2>1 DEF AuditFits
<1> QED BY <1>1, <1>4, <1>5, AuditsOn DEF s

\* A read of an audit fails.
LEMMA FaultStep ==
  ASSUME OwnerIInv, NEW p \in Procs, Fault(p)
  PROVE  OwnerIInv'
<1>1. /\ proc[p].pc \in {"epoch", "answer", "recheck"} /\ End(p, proc[p], "audit-error")
      /\ UNCHANGED <<row, now, fin, head, open, height, tx, menu, have, moves>>
  BY DEF Fault
<1>2. proc[p] \in Processes /\ "audit-error" \in Outs
  BY ProcessFacts DEF Outs
<1> QED BY <1>1, <1>2, EndsWith

\* A file is evaluated with the chunks at hand.
LEMMA EvaluateStep ==
  ASSUME OwnerIInv, NEW p \in Procs, Evaluate(p)
  PROVE  OwnerIInv'
<1> DEFINE q == proc[p]
           last == Files \ Evaluated(q) = {q.file}
           all == \A f \in Files : Answerable(f, now.snap[f])
<1>1. q.pc = "answer" /\ Quiet
  BY DEF Evaluate
<1>2. OFits(q, tx[p], now, head, have) /\ q \in Processes /\ now \in States
  BY ProcessFacts
<1>3. AuditFits(q, now, have) /\ q.file \in Files /\ q.epoch \in Nat
  BY <1>1, <1>2 DEF OFits, AuditFits, Processes
<1>4. PICK v \in {"usable", "lacking"} : v = IF Answerable(q.file, q.snap) THEN "usable" ELSE "lacking"
  OBVIOUS
<1>5. PICK x \in {"recheck", "epoch"} : x = IF last THEN "recheck" ELSE "epoch"
  OBVIOUS
<1>6. PICK c \in BOOLEAN : c = (q.cause \/ (last /\ all))
  OBVIOUS
<1> DEFINE r == [epoch |-> q.epoch, verdict |-> v]
           s == [q EXCEPT !.pc = x, !.report[q.file] = r, !.cause = c]
<1>7. Go(p, s)
  BY <1>4, <1>5, <1>6, Zenon DEF Evaluate
<1>8. q.report \in [Files -> [epoch : Nat, verdict : {"none", "usable", "lacking", "moved"}]]
  BY <1>2 DEF Processes
<1>9. PICK R : R = [q.report EXCEPT ![q.file] = r]
  OBVIOUS
<1>10. /\ R \in [Files -> [epoch : Nat, verdict : {"none", "usable", "lacking", "moved"}]]
       /\ R[q.file].epoch = q.epoch /\ R[q.file].verdict = v
       /\ \A g \in Files : g # q.file => R[g] = q.report[g]
  BY <1>3, <1>4, <1>8, <1>9
<1>11. s = [q EXCEPT !.pc = x, !.report = R, !.cause = c]
  BY <1>9, Zenon
<1>12. x \in Places
  BY DEF Places
<1>13. /\ s \in Processes /\ s.cmd = q.cmd /\ s.head1 = q.head1 /\ s.out = q.out /\ s.pc = x
       /\ s.entry = q.entry /\ s.report = R /\ s.cause = c
       /\ s.again = q.again
  <2>1. LET z == [q EXCEPT !.pc = x, !.report = R, !.cause = c] IN
        /\ z \in Processes /\ z.cmd = q.cmd /\ z.head1 = q.head1 /\ z.out = q.out /\ z.pc = x
        /\ z.entry = q.entry /\ z.report = R /\ z.cause = c /\ z.again = q.again
    BY <1>2, <1>10, <1>12 DEF Processes
  <2> QED BY <1>11, <2>1
<1> HIDE DEF s
<1>14. ~s.cause => ~q.cause /\ (last => ~all)
  BY <1>6, <1>13, Zenon
<1>15. ASSUME ~s.cause, NEW g \in Files, R[g].verdict # "none"
       PROVE  /\ R[g].epoch <= now.epoch[g]
              /\ R[g].verdict = "usable" /\ R[g].epoch = now.epoch[g] => Answers(g, now.snap[g], have)
  <2>1. ~q.cause
    BY <1>14, <1>15
  <2>2. CASE g # q.file
    <3>1. R[g] = q.report[g]
      BY <1>10, <2>2
    <3> QED BY <1>1, <1>3, <1>15, <2>1, <3>1 DEF AuditFits
  <2>3. CASE g = q.file
    <3>1. q.epoch <= now.epoch[g] /\ (q.epoch = now.epoch[g] => q.snap = now.snap[g])
      BY <1>1, <1>3, <2>1, <2>3 DEF AuditFits
    <3>2. v = "usable" => Answerable(g, q.snap)
      BY <1>4, <2>3
    <3>3. R[g].epoch = q.epoch /\ R[g].verdict = v
      BY <1>10, <2>3
    <3> QED BY <3>1, <3>2, <3>3 DEF Answerable, Answers
  <2> QED BY <2>2, <2>3
<1>16. ASSUME x = "recheck", NEW g \in Files PROVE R[g].verdict # "none"
  <2>1. last
    BY <1>5, <1>16
  <2>2. CASE g = q.file
    BY <1>4, <1>10, <2>2
  <2>3. CASE g # q.file
    BY <1>10, <2>1, <2>3 DEF Evaluated
  <2> QED BY <2>2, <2>3
<1>17. ASSUME ~s.cause, s.pc = "recheck"
       PROVE  \E g \in Files : R[g].verdict # "usable" \/ (R[g].epoch < now.epoch[g] /\ g \notin s.again)
  <2>1. last /\ ~all
    BY <1>5, <1>13, <1>14, <1>17
  <2>2. PICK g \in Files : ~Answerable(g, now.snap[g])
    BY <2>1
  <2>3. R[g].verdict # "none"
    BY <1>13, <1>17, <1>16
  <2>4. R[g].epoch \in Nat /\ now.epoch[g] \in Nat
    BY <1>2, <1>10 DEF States
  <2>5. R[g].verdict = "usable" => R[g].epoch < now.epoch[g]
    BY <1>15, <1>17, <2>2, <2>3, <2>4 DEF Answerable, Answers
  <2>6. q.again = {}
    BY <1>1, <1>3 DEF AuditFits
  <2> QED BY <1>13, <2>5, <2>6
<1>18. q.out = "none" /\ q.again = {}
  BY <1>1, <1>2, <1>3 DEF OFits, PlaceFits, AuditFits
<1>19. AuditFits(s, now, have)
  BY <1>5, <1>13, <1>15, <1>16, <1>17, <1>18 DEF AuditFits
<1> QED BY <1>1, <1>7, <1>13, <1>19, AuditsOn

\* A file's epoch is read again.
LEMMA RecheckStep ==
  ASSUME OwnerIInv, NEW p \in Procs, Recheck(p)
  PROVE  OwnerIInv'
<1> DEFINE q == proc[p]
<1>1. PICK f \in Files \ q.again : LET v == IF now.epoch[f] = q.report[f].epoch
                                         THEN q.report[f].verdict ELSE "moved" IN
         Go(p, [q EXCEPT !.report[f].verdict = v, !.again = q.again \cup {f}])
  BY DEF Recheck
<1>2. q.pc = "recheck" /\ Quiet
  BY DEF Recheck
<1>3. OFits(q, tx[p], now, head, have) /\ q \in Processes /\ now \in States
  BY ProcessFacts
<1>4. /\ q.report \in [Files -> [epoch : Nat, verdict : {"none", "usable", "lacking", "moved"}]]
      /\ q.again \in SUBSET Files
  BY <1>3 DEF Processes
<1>5. PICK v : v = IF now.epoch[f] = q.report[f].epoch THEN q.report[f].verdict ELSE "moved"
  OBVIOUS
<1>6. PICK R : R = [q.report EXCEPT ![f].verdict = v]
  OBVIOUS
<1>7. /\ R \in [Files -> [epoch : Nat, verdict : {"none", "usable", "lacking", "moved"}]]
      /\ R[f].epoch = q.report[f].epoch /\ R[f].verdict = v
      /\ \A g \in Files : g # f => R[g] = q.report[g]
  <2>1. q.report[f] \in [epoch : Nat, verdict : {"none", "usable", "lacking", "moved"}]
    BY <1>4
  <2>2. v \in {"none", "usable", "lacking", "moved"}
    BY <1>5, <2>1
  <2> QED BY <1>4, <1>6, <2>1, <2>2
<1> DEFINE s == [q EXCEPT !.report = R, !.again = q.again \cup {f}]
<1>8. Go(p, s)
  BY <1>1, <1>5, <1>6, Zenon
<1>9. q.again \cup {f} \in SUBSET Files
  BY <1>4
<1>10. /\ s \in Processes /\ s.cmd = q.cmd /\ s.head1 = q.head1 /\ s.out = q.out /\ s.pc = q.pc
       /\ s.entry = q.entry /\ s.report = R /\ s.cause = q.cause /\ s.again = q.again \cup {f}
  BY <1>3, <1>7, <1>9 DEF Processes
<1> HIDE DEF s
<1>11. AuditFits(q, now, have) /\ q.out = "none" /\ now.epoch[f] \in Nat
  BY <1>2, <1>3 DEF OFits, PlaceFits, States
<1>12. ASSUME ~q.cause, NEW g \in Files, R[g].verdict # "none"
       PROVE  /\ R[g].epoch <= now.epoch[g]
              /\ R[g].verdict = "usable" /\ R[g].epoch = now.epoch[g] => Answers(g, now.snap[g], have)
  <2>1. CASE g # f
    <3>1. R[g] = q.report[g]
      BY <1>7, <2>1
    <3> QED BY <1>2, <1>11, <1>12, <3>1 DEF AuditFits
  <2>2. CASE g = f
    <3>1. q.report[f].verdict # "none" =>
            /\ q.report[f].epoch <= now.epoch[f]
            /\ q.report[f].verdict = "usable" /\ q.report[f].epoch = now.epoch[f]
                 => Answers(f, now.snap[f], have)
      BY <1>2, <1>11, <1>12 DEF AuditFits
    <3>2. q.report[f].verdict # "none"
      BY <1>2, <1>3, <2>2 DEF OFits, AuditFits
    <3> QED BY <1>5, <1>7, <2>2, <3>1, <3>2
  <2> QED BY <2>1, <2>2
<1>13. ASSUME ~q.cause
       PROVE  \E g \in Files : R[g].verdict # "usable" \/ (R[g].epoch < now.epoch[g] /\ g \notin s.again)
  <2>1. PICK g \in Files : \/ q.report[g].verdict # "usable"
                           \/ q.report[g].epoch < now.epoch[g] /\ g \notin q.again
    BY <1>2, <1>11, <1>13 DEF AuditFits
  <2>2. CASE g # f
    <3>1. R[g] = q.report[g]
      BY <1>7, <2>2
    <3> QED BY <1>10, <2>1, <2>2, <3>1
  <2>3. CASE g = f
    <3>1. q.report[f].epoch \in Nat
      BY <1>4
    <3>2. q.report[f].verdict # "usable" \/ v = "moved"
      BY <1>5, <1>11, <2>1, <2>3, <3>1
    <3> QED BY <1>5, <1>7, <2>3, <3>2
  <2> QED BY <2>2, <2>3
<1>14. \A g \in Files : R[g].verdict # "none"
  <2>1. \A g \in Files : q.report[g].verdict # "none"
    BY <1>2, <1>11 DEF AuditFits
  <2> QED BY <1>5, <1>7, <2>1
<1>15. AuditFits(s, now, have)
  BY <1>2, <1>10, <1>11, <1>12, <1>13, <1>14 DEF AuditFits
<1> QED BY <1>2, <1>8, <1>10, <1>15, AuditsOn

\* The verdict, when every epoch was read again.
LEMMA VerdictStep ==
  ASSUME OwnerIInv, NEW p \in Procs, Verdict(p)
  PROVE  OwnerIInv'
<1> DEFINE q == proc[p]
           o == IF \A f \in Files : q.report[f].verdict = "usable" THEN "complete" ELSE "incomplete"
<1>1. q.pc = "recheck" /\ q.again = Files /\ Quiet /\ End(p, q, o)
  BY DEF Verdict
<1>2. OFits(q, tx[p], now, head, have) /\ q \in Processes
  BY ProcessFacts
<1>3. o \in Outs /\ o \notin {"ok", "not-listed"}
  BY DEF Outs
<1>4. o = "complete" => q.cause
  BY <1>1, <1>2 DEF OFits, AuditFits
<1> HIDE DEF o
<1> QED BY <1>1, <1>2, <1>3, <1>4, EndsWith DEF Quiet

\* A command is started.
LEMMA StartStep ==
  ASSUME OwnerIInv, NEW p \in Procs, Start(p)
  PROVE  OwnerIInv'
<1>1. PICK c \in menu :
        /\ menu' = menu \ {c}
        /\ Go(p, [Fresh(c) EXCEPT !.pc =
             CASE c.op = "reassign" -> "info" [] c.op = "audit" -> "audit"
               [] c.op = "join" -> "nonce" [] c.op = "open" -> "row" [] OTHER -> "gate"])
  BY DEF Start
<1>2. /\ proc[p].pc = "idle" /\ UNCHANGED <<row, now, fin, head, open, height, tx, have, moves, mishaps>>
  BY DEF Start
<1>3. /\ OFits(proc[p], tx[p], now, head, have) /\ c \in Commands /\ head \in Nat
      /\ tx \in [Procs -> Txs] /\ menu \subseteq Commands
  BY ProcessFacts DEF OwnerIInv, OTypes
<1>4. PICK x \in Places : /\ x = CASE c.op = "reassign" -> "info" [] c.op = "audit" -> "audit"
                                  [] c.op = "join" -> "nonce" [] c.op = "open" -> "row" [] OTHER -> "gate"
                          /\ x \in {"info", "audit", "nonce", "row", "gate"}
                          /\ x = "info" => c.op = "reassign"
                          /\ x = "nonce" => c.op = "join"
                          /\ x = "row" => c.op = "open"
                          /\ x = "gate" => c.op \in {"share", "revoke", "update", "key"}
  BY <1>3 DEF Places, Commands
<1> DEFINE s == [Fresh(c) EXCEPT !.pc = x]
<1>5. Go(p, s)
  BY <1>1, <1>4, Zenon
<1>6. /\ Fresh(c) \in Processes /\ Fresh(c).cmd = c /\ Fresh(c).out = "none" /\ Fresh(c).tries = 0
      /\ Fresh(c).head1 = 0 /\ Fresh(c).again = {}
      /\ \A f \in Files : Fresh(c).report[f].verdict = "none"
  BY <1>3, FreshRecord
<1> HIDE DEF s
<1>7. /\ s \in Processes /\ s.cmd = c /\ s.out = "none" /\ s.tries = 0 /\ s.head1 = 0 /\ s.pc = x
      /\ s.report = Fresh(c).report /\ s.again = {}
  <2>1. ASSUME NEW y \in Processes
        PROVE  LET z == [y EXCEPT !.pc = x] IN
               /\ z \in Processes /\ z.cmd = y.cmd /\ z.out = y.out /\ z.tries = y.tries
               /\ z.head1 = y.head1 /\ z.pc = x /\ z.report = y.report /\ z.again = y.again
    BY DEF Processes
  <2> QED BY <1>6, <2>1 DEF s
<1>8. PlaceFits(s)
  BY <1>3, <1>4, <1>7 DEF PlaceFits, Sending
<1>9. tx[p].st = "none"
  BY <1>2, <1>3 DEF OFits, TxFits
<1>10. TxFits(s, tx[p]) /\ ScanFits(s, now.list)
  BY <1>4, <1>7, <1>9 DEF TxFits, ScanFits
<1>11. ReassignFits(s, now, head)
  BY <1>3, <1>4, <1>7 DEF ReassignFits
<1>12. AuditFits(s, now, have)
  BY <1>4, <1>6, <1>7 DEF AuditFits
<1>13. menu' \subseteq Commands /\ tx' = tx
  BY <1>1, <1>2, <1>3
<1> QED BY <1>2, <1>3, <1>5, <1>7, <1>8, <1>10, <1>11, <1>12, <1>13, ProcessStep DEF OFits

---------------------------------------------------------------------------
(* The chain's steps. *)

\* r is q but for a cause it may have gained.
Carried(q, r) ==
  /\ r.pc = q.pc /\ r.cmd = q.cmd /\ r.out = q.out /\ r.page = q.page /\ r.entry = q.entry
  /\ r.tries = q.tries /\ r.head1 = q.head1 /\ r.cov = q.cov /\ r.saw = q.saw
  /\ r.file = q.file /\ r.epoch = q.epoch /\ r.snap = q.snap /\ r.again = q.again
  /\ r.report = q.report /\ (q.cause => r.cause)

\* Epochs only grow, each with one snapshot.
Grows(s, z) ==
  \A g \in Files : s.epoch[g] <= z.epoch[g] /\ (s.epoch[g] = z.epoch[g] => s.snap[g] = z.snap[g])

\* What the chain may do to the rows a command reads, unless it has a cause.
ListGoesOn(r, s, z) ==
  r.pc = "page" /\ ~r.cause =>
    s.list = z.list \/ (~MovedUp(r.cmd.who, s.list, z.list) /\ InReach(z.list, r.cmd.who))
\* The file looked at has no departed assignee now, or that is the cause.
RowsGoOn(r, z) ==
  r.pc \in {"rows", "active", "rows2", "active2", "head2"} /\ DepartedAssignee(z, r.cmd.file) => r.cause

\* The fields of a process that gained a cause.
LEMMA CarriedRecord ==
  ASSUME NEW q \in Processes, NEW c \in BOOLEAN, q.cause => c
  PROVE  LET r == [q EXCEPT !.cause = c] IN r \in Processes /\ Carried(q, r) /\ r.cause = c
  BY DEF Processes, Carried

\* The parts of OFits are carried over a step of the chain, one by one.
LEMMA PlaceCarried ==
  ASSUME NEW q \in Processes, NEW r \in Processes, Carried(q, r), PlaceFits(q)
  PROVE  PlaceFits(r)
  BY DEF PlaceFits, Carried

\* What was sent is still what was asked for.
LEMMA TxCarried ==
  ASSUME NEW q \in Processes, NEW r \in Processes, Carried(q, r), NEW t \in Txs, TxFits(q, t)
  PROVE  TxFits(r, t)
  BY DEF TxFits, Carried

\* The account looked for is still ahead: it did not move up and is in reach.
LEMMA ScanCarried ==
  ASSUME NEW q \in Processes, NEW r \in Processes, Carried(q, r), NEW s \in States, NEW z \in States,
         ScanFits(q, s.list), ListGoesOn(r, s, z)
  PROVE  ScanFits(r, z.list)
<1>1. r.out = "not-listed" => r.cause
  BY DEF ScanFits, Carried
<1>2. ASSUME r.pc = "page", ~r.cause
      PROVE  \E k \in DOMAIN z.list :
               r.page * PageSize < k /\ k <= MaxPages * PageSize /\ z.list[k].who = r.cmd.who
  <2>1. PICK k \in DOMAIN s.list :
          q.page * PageSize < k /\ k <= MaxPages * PageSize /\ s.list[k].who = q.cmd.who
    BY <1>2 DEF ScanFits, Carried
  <2>2. r.page = q.page /\ r.cmd.who = q.cmd.who
    BY DEF Carried
  <2>3. CASE s.list = z.list
    BY <2>1, <2>2, <2>3
  <2>4. CASE ~MovedUp(r.cmd.who, s.list, z.list) /\ InReach(z.list, r.cmd.who)
    <3>1. PICK i \in DOMAIN z.list : i <= MaxPages * PageSize /\ z.list[i].who = r.cmd.who
      BY <2>4 DEF InReach
    <3>2. ~(i < k)
      BY <2>1, <2>2, <2>4, <3>1 DEF MovedUp
    <3>3. i \in Nat /\ k \in Nat /\ r.page \in Nat /\ PageSize \in Nat
      <4>1. s.list \in Seq(Entries) /\ z.list \in Seq(Entries)
        BY DEF States
      <4>2. r.page \in 0 .. MaxPages - 1
        BY DEF Processes
      <4> QED BY <4>1, <4>2, OwnerAssumption
    <3>4. PICK b \in Nat : b = r.page * PageSize
      BY <3>3
    <3>5. b < i
      BY <2>1, <2>2, <3>2, <3>3, <3>4
    <3> QED BY <3>1, <3>4, <3>5
  <2> QED BY <1>2, <2>3, <2>4 DEF ListGoesOn
<1> QED BY <1>1, <1>2 DEF ScanFits

\* Under one head epochs grow, so a mixed coverage stays of an old epoch.
LEMMA ReassignCarried ==
  ASSUME NEW q \in Processes, NEW r \in Processes, Carried(q, r), q.pc # "idle" => q.cmd \in Commands,
         NEW s \in States, NEW z \in States, NEW h \in Nat, NEW k \in {h, h + 1},
         ReassignFits(q, s, h), RowsGoOn(r, z), k = h => Grows(s, z)
  PROVE  ReassignFits(r, z, k)
<1> DEFINE f == q.cmd.file
<1>1. /\ q.head1 \in Nat /\ q.saw.rows.epoch \in Nat /\ q.cov.rows.epoch \in Nat
  BY DEF Processes, Coverages
<1>2. r.head1 = q.head1 /\ q.head1 <= h /\ r.head1 <= k /\ (r.head1 = k => k = h)
  BY <1>1 DEF Carried, ReassignFits
<1>3. /\ r.pc = q.pc /\ r.cmd = q.cmd /\ r.cov = q.cov /\ r.saw = q.saw /\ (q.cause => r.cause)
  BY DEF Carried
<1>4. ASSUME q.pc # "idle", k = h
      PROVE  /\ f \in Files /\ s.epoch[f] \in Nat /\ z.epoch[f] \in Nat /\ s.epoch[f] <= z.epoch[f]
             /\ s.epoch[f] = z.epoch[f] => s.snap[f] = z.snap[f]
  BY <1>4 DEF Commands, States, Grows
<1>5. r.pc \in {"active", "active2"} /\ r.head1 = k =>
        /\ r.saw.rows.epoch <= z.epoch[f]
        /\ r.saw.rows.epoch = z.epoch[f] => r.saw.rows.snap = z.snap[f]
  BY <1>1, <1>2, <1>3, <1>4 DEF ReassignFits
<1>6. r.pc \in {"rows2", "active2", "head2"} /\ r.head1 = k /\ Departed(f, r.cov) # {} /\ ~r.cause =>
        r.cov.rows.epoch < z.epoch[f]
  BY <1>1, <1>2, <1>3, <1>4 DEF ReassignFits
<1>7. r.pc \in {"active2", "head2"} /\ r.head1 = k /\ Departed(f, r.cov) # {} /\ ~r.cause =>
        r.cov.rows.epoch < r.saw.rows.epoch
  BY <1>1, <1>2, <1>3 DEF ReassignFits
<1>8. r.cmd.op = "reassign" /\ r.pc \in {"build", "send", "wait"} => r.cause
  BY <1>3 DEF ReassignFits
<1> QED BY <1>2, <1>3, <1>5, <1>6, <1>7, <1>8 DEF ReassignFits, RowsGoOn

\* What was reported usable still answers if its epoch is the latest.
LEMMA AuditCarried ==
  ASSUME NEW q \in Processes, NEW r \in Processes, Carried(q, r), NEW s \in States, NEW z \in States,
         NEW hv, NEW hw, hv \subseteq hw, AuditFits(q, s, hv),
         r.pc \in {"epoch", "answer", "recheck"} /\ ~r.cause => Grows(s, z)
  PROVE  AuditFits(r, z, hw)
<1>1. /\ r.pc = q.pc /\ r.out = q.out /\ r.file = q.file /\ r.epoch = q.epoch /\ r.snap = q.snap
      /\ r.again = q.again /\ r.report = q.report /\ (q.cause => r.cause)
  BY DEF Carried
<1>2. /\ q.epoch \in Nat /\ \A g \in Files : q.report[g].epoch \in Nat
      /\ \A g \in Files : s.epoch[g] \in Nat /\ z.epoch[g] \in Nat
  BY DEF Processes, States
<1>3. \A g \in Files : Answers(g, s.snap[g], hv) /\ s.snap[g] = z.snap[g] => Answers(g, z.snap[g], hw)
  BY DEF Answers
<1>4. ASSUME r.pc \in {"epoch", "answer", "recheck"}, ~r.cause, NEW g \in Files,
             r.report[g].verdict # "none"
      PROVE  /\ r.report[g].epoch <= z.epoch[g]
             /\ r.report[g].verdict = "usable" /\ r.report[g].epoch = z.epoch[g] => Answers(g, z.snap[g], hw)
  <2>1. /\ q.report[g].epoch <= s.epoch[g]
        /\ q.report[g].verdict = "usable" /\ q.report[g].epoch = s.epoch[g] => Answers(g, s.snap[g], hv)
    BY <1>1, <1>4 DEF AuditFits
  <2>2. s.epoch[g] <= z.epoch[g] /\ (s.epoch[g] = z.epoch[g] => s.snap[g] = z.snap[g])
    BY <1>4 DEF Grows
  <2>3. q.report[g].epoch \in Nat /\ s.epoch[g] \in Nat /\ z.epoch[g] \in Nat
    BY <1>2
  <2>4. r.report[g] = q.report[g]
    BY <1>1
  <2>5. r.report[g].epoch <= z.epoch[g]
    BY <2>1, <2>2, <2>3, <2>4
  <2>6. r.report[g].epoch = z.epoch[g] => q.report[g].epoch = s.epoch[g] /\ s.epoch[g] = z.epoch[g]
    BY <2>1, <2>2, <2>3, <2>4
  <2> QED BY <1>3, <2>1, <2>2, <2>4, <2>5, <2>6
<1>5. r.pc = "answer" =>
        /\ r.file \in Files
        /\ ~r.cause => /\ r.epoch <= z.epoch[r.file]
                       /\ r.epoch = z.epoch[r.file] => r.snap = z.snap[r.file]
  <2> SUFFICES ASSUME r.pc = "answer"
               PROVE  /\ r.file \in Files
                      /\ ~r.cause => /\ r.epoch <= z.epoch[r.file]
                                     /\ r.epoch = z.epoch[r.file] => r.snap = z.snap[r.file]
    OBVIOUS
  <2>1. q.file \in Files /\ s.epoch[q.file] \in Nat /\ z.epoch[q.file] \in Nat
    BY <1>1, <1>2 DEF AuditFits
  <2>2. ~r.cause => /\ q.epoch <= s.epoch[q.file]
                    /\ q.epoch = s.epoch[q.file] => q.snap = s.snap[q.file]
    BY <1>1 DEF AuditFits
  <2>3. ~r.cause => /\ s.epoch[q.file] <= z.epoch[q.file]
                    /\ s.epoch[q.file] = z.epoch[q.file] => s.snap[q.file] = z.snap[q.file]
    BY <1>1, <2>1 DEF Grows
  <2> QED BY <1>1, <1>2, <2>1, <2>2, <2>3
<1>6. r.pc = "recheck" /\ ~r.cause =>
        \E g \in Files : \/ r.report[g].verdict # "usable"
                         \/ r.report[g].epoch < z.epoch[g] /\ g \notin r.again
  <2> SUFFICES ASSUME r.pc = "recheck", ~r.cause
               PROVE  \E g \in Files : \/ r.report[g].verdict # "usable"
                                       \/ r.report[g].epoch < z.epoch[g] /\ g \notin r.again
    OBVIOUS
  <2>1. PICK g \in Files : \/ q.report[g].verdict # "usable"
                           \/ q.report[g].epoch < s.epoch[g] /\ g \notin q.again
    BY <1>1 DEF AuditFits
  <2>2. s.epoch[g] <= z.epoch[g]
    BY DEF Grows
  <2>3. q.report[g].epoch \in Nat /\ s.epoch[g] \in Nat /\ z.epoch[g] \in Nat
    BY <1>2
  <2> QED BY <1>1, <2>1, <2>2, <2>3
<1>7. /\ r.pc = "recheck" => \A g \in Files : r.report[g].verdict # "none"
      /\ r.pc = "audit" => \A g \in Files : r.report[g].verdict = "none"
      /\ r.pc \in {"audit", "epoch", "answer"} => r.again = {}
      /\ r.out = "complete" => r.cause
  BY <1>1 DEF AuditFits
<1> QED BY <1>4, <1>5, <1>6, <1>7 DEF AuditFits

\* A command is carried over a step of the chain.
LEMMA CarriedFits ==
  ASSUME NEW q \in Processes, NEW r \in Processes, Carried(q, r), NEW t \in Txs, NEW u \in Txs,
         NEW s \in States, NEW z \in States, NEW h \in Nat, NEW k \in {h, h + 1},
         NEW hv, NEW hw, hv \subseteq hw, OFits(q, t, s, h, hv), TxFits(q, u),
         ListGoesOn(r, s, z), RowsGoOn(r, z), k = h => Grows(s, z),
         r.pc \in {"epoch", "answer", "recheck"} /\ ~r.cause => Grows(s, z)
  PROVE  OFits(r, u, z, k, hw)
<1>1. PlaceFits(q) /\ ScanFits(q, s.list) /\ ReassignFits(q, s, h) /\ AuditFits(q, s, hv)
  BY DEF OFits
<1>2. q.pc # "idle" => q.cmd \in Commands
  BY <1>1 DEF PlaceFits
<1>3. PlaceFits(r) /\ TxFits(r, u) /\ ScanFits(r, z.list)
  BY <1>1, PlaceCarried, TxCarried, ScanCarried
<1>4. ReassignFits(r, z, k)
  BY <1>1, <1>2, ReassignCarried
<1>5. AuditFits(r, z, hw)
  BY <1>1, AuditCarried
<1> QED BY <1>3, <1>4, <1>5 DEF OFits

\* What a step of the chain does to a command, its transaction and the rows.
Carries(q, r, u, s, z) ==
  /\ Carried(q, r) /\ TxFits(q, u) /\ ListGoesOn(r, s, z) /\ RowsGoOn(r, z)
  /\ r.pc \in {"epoch", "answer", "recheck"} /\ ~r.cause => Grows(s, z)

\* A step of the chain keeps the invariant if it carries every command over.
LEMMA ChainMoves ==
  ASSUME OwnerIInv, now' \in States, ListOK(now'.list), fin' \in States, ListOK(fin'.list),
         head' \in {head, head + 1}, head' <= MaxBlocks, open' \in BOOLEAN,
         open' => head' < MaxBlocks, height' \in Nat, UNCHANGED <<row, menu>>,
         tx' \in [Procs -> Txs], have \subseteq have', have' \subseteq Files,
         \A a \in Accounts : fin'.nonce[a] <= now'.nonce[a],
         proc' \in [Procs -> Processes], head' = head => Grows(now, now'),
         \A p \in Procs : Carries(proc[p], proc'[p], tx'[p], now, now')
  PROVE  OwnerIInv'
<1>1. head \in Nat /\ MaxBlocks \in Nat
  BY OwnerAssumption DEF OwnerIInv, OTypes
<1>2. OTypes'
  BY <1>1 DEF OwnerIInv, OTypes
<1>3. ASSUME NEW p \in Procs PROVE OFits(proc[p], tx[p], now, head, have)'
  <2>1. /\ proc[p] \in Processes /\ tx[p] \in Txs /\ OFits(proc[p], tx[p], now, head, have)
        /\ now \in States
    BY ProcessFacts
  <2>2. proc'[p] \in Processes /\ tx'[p] \in Txs
    OBVIOUS
  <2>3. /\ Carried(proc[p], proc'[p]) /\ TxFits(proc[p], tx'[p]) /\ ListGoesOn(proc'[p], now, now')
        /\ RowsGoOn(proc'[p], now')
        /\ proc'[p].pc \in {"epoch", "answer", "recheck"} /\ ~proc'[p].cause => Grows(now, now')
    BY DEF Carries
  <2>4. OFits(proc'[p], tx'[p], now', head', have')
    BY <1>1, <2>1, <2>2, <2>3, CarriedFits
  <2> QED BY <2>4
<1> QED BY <1>2, <1>3 DEF OwnerIInv, ListOK

\* A command that the step does not touch.
LEMMA StaysPut ==
  ASSUME OwnerIInv, NEW p \in Procs, NEW u, TxFits(proc[p], u)
  PROVE  Carries(proc[p], proc[p], u, now, now)
<1>1. OFits(proc[p], tx[p], now, head, have) /\ now \in States
  BY ProcessFacts
<1>2. Grows(now, now)
  BY <1>1 DEF Grows, States
<1>3. RowsGoOn(proc[p], now)
  BY <1>1 DEF OFits, ReassignFits, RowsGoOn
<1> QED BY <1>2, <1>3 DEF Carries, Carried, ListGoesOn

\* A transaction's status changes, once it was sent.
LEMMA StatusMoves ==
  ASSUME NEW q, NEW t \in Txs, TxFits(q, t), t.st # "none", NEW st \in Statuses,
         q.out = "ok" => st = "finalized"
  PROVE  [t EXCEPT !.st = st] \in Txs /\ TxFits(q, [t EXCEPT !.st = st])
<1> DEFINE u == [t EXCEPT !.st = st]
<1>1. u \in Txs /\ u.op = t.op /\ u.by = t.by /\ u.arg = t.arg /\ u.st = st
  BY DEF Txs
<1> HIDE DEF u
<1>2. TxFits(q, u)
  BY <1>1 DEF TxFits
<1> QED BY <1>1, <1>2 DEF u

\* The ghosts of Witness.
LEMMA WitnessStep ==
  ASSUME OwnerIInv, NEW p \in Procs, NEW z \in States, TxFits(proc[p], tx'[p]),
         proc[p].pc \in {"epoch", "answer", "recheck"} => Grows(now, z)
  PROVE  Witness(z)[p] \in Processes /\ Carries(proc[p], Witness(z)[p], tx'[p], now, z)
<1> DEFINE q == proc[p]
           r == Witness(z)[p]
<1>1. q \in Processes
  BY ProcessFacts
<1>2. CASE q.pc = "page"
  <2>1. PICK c \in BOOLEAN : c = (q.cause \/ MovedUp(q.cmd.who, now.list, z.list)
                                          \/ ~InReach(z.list, q.cmd.who))
    OBVIOUS
  <2>2. r = [q EXCEPT !.cause = c]
    <3>1. r = [q EXCEPT !.cause = q.cause \/ MovedUp(q.cmd.who, now.list, z.list)
                                          \/ ~InReach(z.list, q.cmd.who)]
      BY <1>2 DEF Witness
    <3> QED BY <2>1, <3>1, Zenon
  <2>3. q.cause => c
    BY <2>1, Zenon
  <2>4. r \in Processes /\ Carried(q, r) /\ r.cause = c
    BY <1>1, <2>2, <2>3, CarriedRecord
  <2> HIDE DEF r
  <2>5. ~r.cause => ~MovedUp(q.cmd.who, now.list, z.list) /\ InReach(z.list, q.cmd.who)
    BY <2>1, <2>4, Zenon
  <2>6. r.pc = "page" /\ r.cmd = q.cmd
    BY <1>2, <2>4 DEF Carried
  <2>7. ListGoesOn(r, now, z) /\ RowsGoOn(r, z)
    BY <2>5, <2>6 DEF ListGoesOn, RowsGoOn
  <2> QED BY <2>4, <2>6, <2>7 DEF Carries, r
<1>3. CASE q.pc \in {"rows", "active", "rows2", "active2", "head2"}
  <2>1. PICK c \in BOOLEAN : c = (q.cause \/ DepartedAssignee(z, q.cmd.file))
    OBVIOUS
  <2>2. r = [q EXCEPT !.cause = c]
    <3>1. r = [q EXCEPT !.cause = q.cause \/ DepartedAssignee(z, q.cmd.file)]
      BY <1>3 DEF Witness
    <3> QED BY <2>1, <3>1, Zenon
  <2>3. q.cause => c
    BY <2>1, Zenon
  <2>4. r \in Processes /\ Carried(q, r) /\ r.cause = c
    BY <1>1, <2>2, <2>3, CarriedRecord
  <2> HIDE DEF r
  <2>5. DepartedAssignee(z, q.cmd.file) => r.cause
    BY <2>1, <2>4, Zenon
  <2>6. r.pc = q.pc /\ r.cmd = q.cmd
    BY <2>4 DEF Carried
  <2>7. ListGoesOn(r, now, z) /\ RowsGoOn(r, z)
    BY <1>3, <2>5, <2>6 DEF ListGoesOn, RowsGoOn
  <2> QED BY <1>3, <2>4, <2>6, <2>7 DEF Carries, r
<1>4. CASE q.pc \notin {"page", "rows", "active", "rows2", "active2", "head2"}
  <2>1. r = q
    BY <1>4 DEF Witness
  <2>2. Carried(q, q)
    BY DEF Carried
  <2>3. ListGoesOn(q, now, z) /\ RowsGoOn(q, z)
    BY <1>4 DEF ListGoesOn, RowsGoOn
  <2> HIDE DEF r
  <2> QED BY <1>1, <2>1, <2>2, <2>3 DEF Carries, r
<1> QED BY <1>2, <1>3, <1>4

---------------------------------------------------------------------------

\* The block in execution is stored: the head that was read is no longer the latest.
LEMMA SealStep ==
  ASSUME OwnerIInv, Seal
  PROVE  OwnerIInv'
<1>1. /\ open /\ open' = FALSE /\ head' = head + 1
      /\ UNCHANGED <<row, now, fin, height, tx, menu, proc, have, moves, mishaps>>
  BY DEF Seal
<1>2. OTypes /\ ListOK(now.list) /\ ListOK(fin.list)
  BY DEF OwnerIInv
<1>3. head \in Nat /\ head + 1 <= MaxBlocks /\ head' # head
  BY <1>1, <1>2, OwnerAssumption DEF OTypes
<1>4. \A p \in Procs : Carries(proc[p], proc'[p], tx'[p], now, now')
  BY <1>1, StaysPut, ProcessFacts DEF OFits
<1> QED BY <1>1, <1>2, <1>3, <1>4, ChainMoves DEF OTypes

\* The blocks become final, with the transactions in them.
LEMMA FinalizeStep ==
  ASSUME OwnerIInv, Finalize
  PROVE  OwnerIInv'
<1>1. /\ fin' = now /\ height' = height + 1
      /\ tx' = [p \in Procs |-> IF tx[p].st = "included" THEN [tx[p] EXCEPT !.st = "finalized"]
                                                         ELSE tx[p]]
      /\ UNCHANGED <<row, now, head, open, menu, proc, have, moves, mishaps>>
  BY DEF Finalize
<1>2. OTypes /\ ListOK(now.list) /\ ListOK(fin.list)
  BY DEF OwnerIInv
<1>3. ASSUME NEW p \in Procs PROVE tx'[p] \in Txs /\ TxFits(proc[p], tx'[p])
  <2>1. tx[p] \in Txs /\ TxFits(proc[p], tx[p]) /\ "finalized" \in Statuses
    BY ProcessFacts DEF OFits, Statuses
  <2>2. tx'[p] = IF tx[p].st = "included" THEN [tx[p] EXCEPT !.st = "finalized"] ELSE tx[p]
    BY <1>1
  <2> QED BY <2>1, <2>2, StatusMoves
<1>4. \A p \in Procs : Carries(proc[p], proc'[p], tx'[p], now, now')
  BY <1>1, <1>3, StaysPut
<1>5. Grows(now, now')
  BY <1>1, <1>2 DEF OTypes, States, Grows
<1>6. tx' \in [Procs -> Txs]
  BY <1>1, <1>3
<1>7. \A a \in Accounts : fin'.nonce[a] <= now'.nonce[a]
  BY <1>1, <1>2 DEF OTypes, States
<1>8. head' \in {head, head + 1} /\ head' <= MaxBlocks /\ (open' => head' < MaxBlocks)
  BY <1>1, <1>2, OwnerAssumption DEF OTypes
<1>9. height' \in Nat /\ now' \in States /\ open' \in BOOLEAN /\ have' \subseteq Files
      /\ proc' \in [Procs -> Processes]
  BY <1>1, <1>2 DEF OTypes
<1> QED BY <1>1, <1>2, <1>4, <1>5, <1>6, <1>7, <1>8, <1>9, ChainMoves

\* A transaction falls out of the pool.
LEMMA EvictStep ==
  ASSUME OwnerIInv, NEW p \in Procs, Evict(p)
  PROVE  OwnerIInv'
<1>1. /\ tx[p].st = "pending" /\ tx' = [tx EXCEPT ![p].st = "dropped"]
      /\ UNCHANGED <<row, now, fin, head, open, height, menu, proc, have, moves>>
  BY DEF Evict
<1>2. OTypes /\ ListOK(now.list) /\ ListOK(fin.list)
  BY DEF OwnerIInv
<1>3. ASSUME NEW r \in Procs PROVE tx'[r] \in Txs /\ TxFits(proc[r], tx'[r])
  <2>1. tx[r] \in Txs /\ TxFits(proc[r], tx[r]) /\ "dropped" \in Statuses
    BY ProcessFacts DEF OFits, Statuses
  <2>2. tx'[r] = IF r = p THEN [tx[r] EXCEPT !.st = "dropped"] ELSE tx[r]
    BY <1>1, <1>2 DEF OTypes
  <2>3. r = p => proc[r].out # "ok"
    BY <1>1, <2>1 DEF TxFits
  <2> QED BY <1>1, <2>1, <2>2, <2>3, StatusMoves
<1>4. \A r \in Procs : Carries(proc[r], proc'[r], tx'[r], now, now')
  BY <1>1, <1>3, StaysPut
<1>5. Grows(now, now')
  BY <1>1, <1>2 DEF OTypes, States, Grows
<1>6. tx' \in [Procs -> Txs]
  BY <1>1, <1>2, <1>3 DEF OTypes
<1>8. head' \in {head, head + 1} /\ head' <= MaxBlocks /\ (open' => head' < MaxBlocks)
  BY <1>1, <1>2, OwnerAssumption DEF OTypes
<1> QED BY <1>1, <1>2, <1>4, <1>5, <1>6, <1>8, ChainMoves DEF OTypes

\* Chunks arrive at the audited archive.
LEMMA ArriveStep ==
  ASSUME OwnerIInv, Arrive
  PROVE  OwnerIInv'
<1>1. /\ \E f \in Files \ have : have' = have \cup {f}
      /\ UNCHANGED <<row, now, fin, head, open, height, tx, menu, proc, moves, mishaps>>
  BY DEF Arrive
<1>2. OTypes /\ ListOK(now.list) /\ ListOK(fin.list)
  BY DEF OwnerIInv
<1>3. have' \subseteq Files /\ have \subseteq have'
  BY <1>1, <1>2 DEF OTypes
<1>4. \A p \in Procs : Carries(proc[p], proc'[p], tx'[p], now, now')
  BY <1>1, StaysPut, ProcessFacts DEF OFits
<1>5. Grows(now, now')
  BY <1>1, <1>2 DEF OTypes, States, Grows
<1>8. head' \in {head, head + 1} /\ head' <= MaxBlocks /\ (open' => head' < MaxBlocks)
  BY <1>1, <1>2, OwnerAssumption DEF OTypes
<1> QED BY <1>1, <1>2, <1>3, <1>4, <1>5, <1>8, ChainMoves DEF OTypes

\* The blocks that are not final are undone.
LEMMA ReorgStep ==
  ASSUME OwnerIInv, Reorg
  PROVE  OwnerIInv'
<1>1. PICK st \in {"pending", "dropped"} :
        tx' = [p \in Procs |-> IF tx[p].st = "included" THEN [tx[p] EXCEPT !.st = st] ELSE tx[p]]
  BY DEF Reorg
<1>2. /\ ~open /\ head < MaxBlocks /\ head' = head + 1 /\ now' = fin
      /\ proc' = [p \in Procs |-> IF proc[p].pc \in {"epoch", "answer", "recheck"}
                                  THEN [proc[p] EXCEPT !.cause = TRUE] ELSE Witness(fin)[p]]
      /\ UNCHANGED <<row, fin, open, height, menu, have, moves, mishaps>>
  BY DEF Reorg
<1>3. OTypes /\ ListOK(now.list) /\ ListOK(fin.list)
  BY DEF OwnerIInv
<1>4. ASSUME NEW p \in Procs PROVE tx'[p] \in Txs /\ TxFits(proc[p], tx'[p])
  <2>1. tx[p] \in Txs /\ TxFits(proc[p], tx[p]) /\ st \in Statuses
    BY ProcessFacts DEF OFits, Statuses
  <2>2. tx'[p] = IF tx[p].st = "included" THEN [tx[p] EXCEPT !.st = st] ELSE tx[p]
    BY <1>1
  <2>3. tx[p].st = "included" => proc[p].out # "ok"
    BY <2>1 DEF TxFits
  <2> QED BY <2>1, <2>2, <2>3, StatusMoves
<1>5. ASSUME NEW p \in Procs
      PROVE  proc'[p] \in Processes /\ Carries(proc[p], proc'[p], tx'[p], now, now')
  <2>1. fin \in States /\ proc[p] \in Processes
    BY <1>3 DEF OTypes
  <2>2. CASE proc[p].pc \in {"epoch", "answer", "recheck"}
    <3>1. proc'[p] = [proc[p] EXCEPT !.cause = TRUE]
      BY <1>2, <2>2
    <3>2. proc'[p] \in Processes /\ Carried(proc[p], proc'[p]) /\ proc'[p].cause
      BY <2>1, <3>1, CarriedRecord
    <3>3. proc'[p].pc = proc[p].pc
      BY <3>2 DEF Carried
    <3>4. ListGoesOn(proc'[p], now, now') /\ RowsGoOn(proc'[p], now')
      BY <3>2 DEF ListGoesOn, RowsGoOn
    <3> QED BY <1>4, <3>2, <3>4 DEF Carries
  <2>3. CASE proc[p].pc \notin {"epoch", "answer", "recheck"}
    <3>1. proc'[p] = Witness(fin)[p]
      BY <1>2, <2>3
    <3> QED BY <1>2, <1>4, <2>1, <2>3, <3>1, WitnessStep
  <2> QED BY <2>2, <2>3
<1>6. tx' \in [Procs -> Txs]
  BY <1>1, <1>4
<1>7. proc' \in [Procs -> Processes]
  BY <1>2, <1>5
<1>8. head \in Nat /\ head + 1 <= MaxBlocks /\ head' # head /\ (open' => head' < MaxBlocks)
  BY <1>2, <1>3, OwnerAssumption DEF OTypes
<1>9. \A a \in Accounts : fin'.nonce[a] <= now'.nonce[a]
  BY <1>2, <1>3 DEF OTypes, States
<1> QED BY <1>2, <1>3, <1>5, <1>6, <1>7, <1>8, <1>9, ChainMoves DEF OTypes

\* A step of the block in execution: new rows, the head is the same.
LEMMA Executes ==
  ASSUME OwnerIInv, NEW z \in States, ListOK(z.list), Grows(now, z), now' = z, proc' = Witness(z),
         \A a \in Accounts : now.nonce[a] <= z.nonce[a],
         head < MaxBlocks, open' = TRUE, UNCHANGED <<row, fin, head, height, menu, have>>,
         tx' \in [Procs -> Txs], \A p \in Procs : TxFits(proc[p], tx'[p])
  PROVE  OwnerIInv'
<1>1. OTypes /\ ListOK(now.list) /\ ListOK(fin.list)
  BY DEF OwnerIInv
<1>2. \A p \in Procs : proc'[p] \in Processes /\ Carries(proc[p], proc'[p], tx'[p], now, now')
  BY WitnessStep
<1>3. proc' \in [Procs -> Processes]
  BY <1>2 DEF Witness
<1>4. \A a \in Accounts : fin'.nonce[a] <= now'.nonce[a]
  <2>1. \A a \in Accounts : fin.nonce[a] \in Nat /\ now.nonce[a] \in Nat /\ z.nonce[a] \in Nat
    BY <1>1 DEF OTypes, States
  <2>2. \A a \in Accounts : fin.nonce[a] <= now.nonce[a]
    BY <1>1 DEF OTypes
  <2> QED BY <2>1, <2>2
<1>5. head \in Nat /\ head <= MaxBlocks
  BY <1>1, OwnerAssumption DEF OTypes
<1> QED BY <1>1, <1>2, <1>3, <1>4, <1>5, ChainMoves DEF OTypes

\* An archive leaves.
LEMMA LeaveStep ==
  ASSUME OwnerIInv, Leave
  PROVE  OwnerIInv'
<1>1. /\ head < MaxBlocks /\ open' = TRUE
      /\ UNCHANGED <<row, fin, head, height, tx, menu, have, mishaps>>
  BY DEF Leave
<1>2. PICK a \in Archives \ now.gone : now' = [now EXCEPT !.gone = @ \cup {a}] /\ proc' = Witness(now')
  BY DEF Leave
<1>3. OTypes /\ ListOK(now.list)
  BY DEF OwnerIInv
<1>4. /\ now' \in States /\ now'.list = now.list /\ now'.nonce = now.nonce /\ now'.epoch = now.epoch
      /\ now'.snap = now.snap
  <2>1. now \in States
    BY <1>3 DEF OTypes
  <2> QED BY <1>2, <2>1 DEF States
<1>5. Grows(now, now') /\ \A b \in Accounts : now.nonce[b] <= now'.nonce[b]
  BY <1>3, <1>4 DEF Grows, OTypes, States
<1>6. tx' \in [Procs -> Txs] /\ \A p \in Procs : TxFits(proc[p], tx'[p])
  BY <1>1, <1>3, ProcessFacts DEF OTypes, OFits
<1>7. ListOK(now'.list)
  BY <1>3, <1>4
<1> QED BY <1>1, <1>2, <1>4, <1>5, <1>6, <1>7, Executes

---------------------------------------------------------------------------
(* The effect of a transaction. *)

\* A share appends an entry for an account that has none.
LEMMA ShareList ==
  ASSUME NEW list \in Seq(Entries), ListOK(list), NEW e \in Entries, e.bundle = e.who,
         ~Listed(list, e.who)
  PROVE  Append(list, e) \in Seq(Entries) /\ ListOK(Append(list, e))
<1> DEFINE new == Append(list, e)
<1>1. /\ new \in Seq(Entries) /\ Len(new) = Len(list) + 1 /\ Len(list) \in Nat
      /\ \A i \in 1 .. Len(list) : new[i] = list[i]
      /\ new[Len(list) + 1] = e
  BY AppendProperties, LenProperties
<1>2. DOMAIN list = 1 .. Len(list) /\ DOMAIN new = 1 .. Len(list) + 1
  BY <1>1, LenProperties
<1> HIDE DEF new
<1>3. \A i \in DOMAIN list : list[i].who # e.who
  BY DEF Listed
<1>4. \A i \in DOMAIN new : i \in DOMAIN list \/ i = Len(list) + 1
  BY <1>1, <1>2
<1>5. \A i, j \in DOMAIN new : new[i].who = new[j].who => i = j
  BY <1>1, <1>2, <1>3, <1>4 DEF ListOK
<1>6. \A i \in DOMAIN new : new[i].bundle = new[i].who
  BY <1>1, <1>2, <1>4 DEF ListOK
<1>7. \E i \in DOMAIN new : new[i].who = Owner
  BY <1>1, <1>2 DEF ListOK
<1> QED BY <1>1, <1>5, <1>6, <1>7 DEF ListOK, new

\* A revoke removes the one entry of an account that is not the owner's.
LEMMA RevokeList ==
  ASSUME NEW list \in Seq(Entries), ListOK(list), NEW w \in Accounts \ {Owner}, Listed(list, w)
  PROVE  Removed(list, w) \in Seq(Entries) /\ ListOK(Removed(list, w))
<1> DEFINE k == CHOOSE i \in DOMAIN list : list[i].who = w
           n == Len(list)
           new == Removed(list, w)
<1>1. n \in Nat /\ DOMAIN list = 1 .. n
  BY LenProperties
<1>2. k \in 1 .. n /\ list[k].who = w
  BY <1>1 DEF Listed
<1>3. new = [j \in 1 .. n - 1 |-> list[IF j < k THEN j ELSE j + 1]]
  BY DEF Removed
<1> HIDE DEF k, new, n
<1>4. \A j \in 1 .. n - 1 : /\ j \in Nat /\ (IF j < k THEN j ELSE j + 1) \in 1 .. n
                            /\ (IF j < k THEN j ELSE j + 1) # k
                            /\ new[j] = list[IF j < k THEN j ELSE j + 1]
  BY <1>1, <1>2, <1>3
<1>5. new \in Seq(Entries) /\ DOMAIN new = 1 .. n - 1
  <2>1. \A j \in 1 .. n - 1 : list[IF j < k THEN j ELSE j + 1] \in Entries
    BY <1>1, <1>4
  <2>2. n - 1 \in Nat
    BY <1>1, <1>2
  <2>3. new \in [1 .. n - 1 -> Entries]
    BY <1>3, <2>1
  <2> QED BY <2>2, <2>3
<1>6. \A i, j \in DOMAIN new : new[i].who = new[j].who => i = j
  <2> SUFFICES ASSUME NEW i \in 1 .. n - 1, NEW j \in 1 .. n - 1, new[i].who = new[j].who PROVE i = j
    BY <1>5
  <2>1. (IF i < k THEN i ELSE i + 1) = (IF j < k THEN j ELSE j + 1)
    BY <1>1, <1>4 DEF ListOK
  <2> QED BY <1>1, <1>2, <2>1
<1>7. \A i \in DOMAIN new : new[i].bundle = new[i].who
  <2> SUFFICES ASSUME NEW i \in 1 .. n - 1 PROVE new[i].bundle = new[i].who
    BY <1>5
  <2>1. PICK j \in DOMAIN list : new[i] = list[j]
    BY <1>1, <1>4
  <2> QED BY <2>1 DEF ListOK
<1>8. \E i \in DOMAIN new : new[i].who = Owner
  <2>1. PICK i \in 1 .. n : list[i].who = Owner
    BY <1>1 DEF ListOK
  <2>2. i # k
    BY <1>2, <2>1
  <2>3. CASE i < k
    BY <1>1, <1>2, <1>4, <1>5, <2>1, <2>3
  <2>4. CASE k < i
    <3>1. i - 1 \in 1 .. n - 1 /\ ~(i - 1 < k) /\ i - 1 + 1 = i
      BY <1>1, <1>2, <2>4
    <3> QED BY <1>4, <1>5, <2>1, <3>1
  <2> QED BY <1>1, <1>2, <2>2, <2>3, <2>4
<1> QED BY <1>5, <1>6, <1>7, <1>8 DEF ListOK, new

\* An update replaces an entry by one its account opens.
LEMMA UpdateList ==
  ASSUME NEW list \in Seq(Entries), ListOK(list), NEW e \in Entries, e.bundle = e.who
  PROVE  Updated(list, e) \in Seq(Entries) /\ ListOK(Updated(list, e))
<1> DEFINE new == Updated(list, e)
<1>1. Len(list) \in Nat /\ DOMAIN list = 1 .. Len(list) /\ \A i \in DOMAIN list : list[i] \in Entries
  BY LenProperties
<1>2. new = [i \in DOMAIN list |-> IF list[i].who = e.who THEN e ELSE list[i]]
  BY DEF Updated
<1> HIDE DEF new
<1>3. new \in Seq(Entries) /\ DOMAIN new = DOMAIN list
  <2>1. new \in [1 .. Len(list) -> Entries]
    BY <1>1, <1>2
  <2> QED BY <1>1, <2>1
<1>4. \A i \in DOMAIN list : new[i].who = list[i].who /\ new[i].bundle = new[i].who
  BY <1>2 DEF ListOK
<1> QED BY <1>3, <1>4 DEF ListOK, new

\* An accepted transaction leaves the list usable, and an epoch its snapshot.
LEMMA EffectKeeps ==
  ASSUME NEW s \in States, ListOK(s.list), NEW q, NEW t \in Txs, TxFits(q, t), t.st # "none",
         Accepts(s, t)
  PROVE  /\ Effect(s, t) \in States /\ ListOK(Effect(s, t).list) /\ Grows(s, Effect(s, t))
         /\ Effect(s, t).nonce = s.nonce
<1> DEFINE z == Effect(s, t)
<1>1. /\ t.op \in Sending /\ t.by \in Accounts
      /\ t.op \in {"share", "update"} => t.arg \in Entries /\ t.arg.bundle = t.arg.who
      /\ t.op = "revoke" => t.arg \in Accounts \ {Owner}
      /\ t.op = "reassign" => t.arg \in Files
  BY DEF TxFits
<1>2. /\ s.list \in Seq(Entries) /\ \A g \in Files : s.epoch[g] \in Nat
  BY DEF States
<1>3. ASSUME NEW L \in Seq(Entries), ListOK(L), z = [s EXCEPT !.list = L]
      PROVE  z \in States /\ ListOK(z.list) /\ Grows(s, z) /\ z.nonce = s.nonce
  <2>1. z \in States /\ z.list = L /\ z.nonce = s.nonce /\ z.epoch = s.epoch /\ z.snap = s.snap
    BY <1>3 DEF States
  <2> HIDE DEF z
  <2> QED BY <1>2, <1>3, <2>1 DEF Grows
<1>4. CASE t.op = "share"
  <2>1. Append(s.list, t.arg) \in Seq(Entries) /\ ListOK(Append(s.list, t.arg))
    <3>1. ~Listed(s.list, t.arg.who)
      BY <1>4 DEF Accepts
    <3> QED BY <1>1, <1>2, <1>4, <3>1, ShareList
  <2>2. z = [s EXCEPT !.list = Append(s.list, t.arg)]
    BY <1>4 DEF Effect
  <2> QED BY <1>3, <2>1, <2>2
<1>5. CASE t.op = "revoke"
  <2>1. Removed(s.list, t.arg) \in Seq(Entries) /\ ListOK(Removed(s.list, t.arg))
    <3>1. Listed(s.list, t.arg)
      BY <1>5 DEF Accepts
    <3> QED BY <1>1, <1>2, <1>5, <3>1, RevokeList
  <2>2. z = [s EXCEPT !.list = Removed(s.list, t.arg)]
    BY <1>5 DEF Effect
  <2> QED BY <1>3, <2>1, <2>2
<1>6. CASE t.op = "update"
  <2>1. Updated(s.list, t.arg) \in Seq(Entries) /\ ListOK(Updated(s.list, t.arg))
    BY <1>1, <1>2, <1>6, UpdateList
  <2>2. z = [s EXCEPT !.list = Updated(s.list, t.arg)]
    BY <1>6 DEF Effect
  <2> QED BY <1>3, <2>1, <2>2
<1>7. CASE t.op = "reassign"
  <2>1. z = [s EXCEPT !.snap[t.arg] = Archives \ s.gone, !.epoch[t.arg] = @ + 1]
    BY <1>7 DEF Effect
  <2>2. PICK S : S = [s.snap EXCEPT ![t.arg] = Archives \ s.gone]
    OBVIOUS
  <2>3. PICK E : E = [s.epoch EXCEPT ![t.arg] = s.epoch[t.arg] + 1]
    OBVIOUS
  <2>4. z = [s EXCEPT !.snap = S, !.epoch = E]
    BY <2>1, <2>2, <2>3, Zenon
  <2>5. S \in [Files -> SUBSET Archives] /\ E \in [Files -> Nat]
    BY <1>1, <1>7, <2>2, <2>3 DEF States
  <2>6. z \in States /\ z.list = s.list /\ z.nonce = s.nonce /\ z.epoch = E /\ z.snap = S
    BY <2>4, <2>5 DEF States
  <2> HIDE DEF z
  <2>7. ASSUME NEW g \in Files
        PROVE  s.epoch[g] <= z.epoch[g] /\ (s.epoch[g] = z.epoch[g] => s.snap[g] = z.snap[g])
    <3>1. CASE g = t.arg
      <4>1. E[g] = s.epoch[g] + 1
        BY <2>3, <3>1 DEF States
      <4> QED BY <1>2, <2>6, <4>1
    <3>2. CASE g # t.arg
      <4>1. E[g] = s.epoch[g] /\ S[g] = s.snap[g]
        BY <2>2, <2>3, <3>2 DEF States
      <4> QED BY <1>2, <2>6, <4>1
    <3> QED BY <3>1, <3>2
  <2> QED BY <2>6, <2>7 DEF Grows, z
<1>8. CASE t.op = "key"
  <2>1. z = [s EXCEPT !.keyed = s.keyed \cup {t.by}]
    BY <1>8 DEF Effect
  <2>2. z \in States /\ z.list = s.list /\ z.nonce = s.nonce /\ z.epoch = s.epoch /\ z.snap = s.snap
    BY <1>1, <2>1 DEF States
  <2> HIDE DEF z
  <2> QED BY <1>2, <2>2 DEF Grows, z
<1>9. CASE t.op = "join"
  <2>1. z = [s EXCEPT !.gone = s.gone \ {t.by}]
    BY <1>9 DEF Effect
  <2>2. z \in States /\ z.list = s.list /\ z.nonce = s.nonce /\ z.epoch = s.epoch /\ z.snap = s.snap
    BY <2>1 DEF States
  <2> HIDE DEF z
  <2> QED BY <1>2, <2>2 DEF Grows, z
<1> QED BY <1>1, <1>4, <1>5, <1>6, <1>7, <1>8, <1>9 DEF Sending

\* A transaction is executed, accepted or refused.
LEMMA IncludeStep ==
  ASSUME OwnerIInv, NEW p \in Procs, Include(p)
  PROVE  OwnerIInv'
<1> DEFINE t == tx[p]
<1>1. /\ t.st = "pending" /\ head < MaxBlocks /\ open' = TRUE
      /\ UNCHANGED <<row, fin, head, height, menu, have, moves, mishaps>>
  BY DEF Include
<1>2. PICK s : s = IF Accepts(now, t) THEN Effect(now, t) ELSE now
  OBVIOUS
<1>3. PICK st \in {"included", "failed"} : st = IF Accepts(now, t) THEN "included" ELSE "failed"
  OBVIOUS
<1>4. /\ now' = [s EXCEPT !.nonce[t.by] = @ + 1] /\ proc' = Witness(now')
      /\ tx' = [tx EXCEPT ![p].st = st]
  BY <1>2, <1>3, Zenon DEF Include
<1>5. OTypes /\ ListOK(now.list)
  BY DEF OwnerIInv
<1>6. /\ t \in Txs /\ TxFits(proc[p], t) /\ now \in States
  BY ProcessFacts DEF OFits
<1>7. t.by \in Accounts /\ proc[p].out # "ok"
  BY <1>1, <1>6 DEF TxFits
<1>8. s \in States /\ ListOK(s.list) /\ Grows(now, s) /\ s.nonce = now.nonce
  <2>1. CASE Accepts(now, t)
    BY <1>1, <1>2, <1>5, <1>6, <2>1, EffectKeeps
  <2>2. CASE ~Accepts(now, t)
    BY <1>2, <1>5, <1>6, <2>2 DEF Grows, States
  <2> QED BY <2>1, <2>2
<1>9. PICK N : N = [s.nonce EXCEPT ![t.by] = s.nonce[t.by] + 1]
  OBVIOUS
<1>10. now' = [s EXCEPT !.nonce = N]
  BY <1>4, <1>9, Zenon
<1>11. N \in [Accounts -> Nat] /\ \A a \in Accounts : now.nonce[a] <= N[a]
  <2>1. s.nonce \in [Accounts -> Nat]
    BY <1>8 DEF States
  <2> QED BY <1>7, <1>8, <1>9, <2>1
<1>12. now' \in States /\ now'.list = s.list /\ now'.nonce = N /\ now'.epoch = s.epoch
       /\ now'.snap = s.snap
  BY <1>8, <1>10, <1>11 DEF States
<1>13. ListOK(now'.list) /\ Grows(now, now') /\ \A a \in Accounts : now.nonce[a] <= now'.nonce[a]
  BY <1>8, <1>11, <1>12 DEF Grows
<1>14. ASSUME NEW r \in Procs PROVE tx'[r] \in Txs /\ TxFits(proc[r], tx'[r])
  <2>1. tx[r] \in Txs /\ TxFits(proc[r], tx[r]) /\ st \in Statuses
    BY ProcessFacts DEF OFits, Statuses
  <2>2. tx'[r] = IF r = p THEN [tx[r] EXCEPT !.st = st] ELSE tx[r]
    BY <1>4, <1>5 DEF OTypes
  <2> QED BY <1>1, <1>7, <2>1, <2>2, StatusMoves
<1>15. tx' \in [Procs -> Txs]
  BY <1>4, <1>5, <1>14 DEF OTypes
<1> QED BY <1>1, <1>4, <1>12, <1>13, <1>14, <1>15, Executes

---------------------------------------------------------------------------

\* The invariant holds at first.
LEMMA OwnerStarts ==
  ASSUME OwnerInit
  PROVE  OwnerIInv
<1>1. PICK m \in Menus : menu = m.cmds /\ row \in m.rows
                         /\ have \in IF m.leaves > 0 THEN {{}, Files} ELSE {Files}
  BY DEF OwnerInit
<1>2. menu \subseteq Commands /\ row \in Rows /\ have \subseteq Files
  BY <1>1, OwnerAssumption
<1>3. /\ now = FirstRows /\ fin = FirstRows /\ head = 0 /\ open = FALSE /\ height = 0
      /\ tx = [p \in Procs |-> NoTx]
      /\ proc = [p \in Procs |-> [Fresh(NoCmd) EXCEPT !.pc = "idle"]]
  BY DEF OwnerInit
<1>4. FirstList \in Seq(Entries) /\ ListOK(FirstList)
  BY OwnerAssumption DEF ListOK
<1>5. FirstRows \in States /\ FirstRows.list = FirstList
  <2>1. {e.who : e \in ToSet(FirstList)} \in SUBSET Accounts
    <3>1. \A i \in DOMAIN FirstList : FirstList[i] \in Entries
      BY <1>4, LenProperties
    <3>2. ToSet(FirstList) = {FirstList[i] : i \in DOMAIN FirstList}
      BY DEF ToSet
    <3> QED BY <3>1, <3>2 DEF Entries
  <2> QED BY <1>4, <2>1 DEF FirstRows, States
<1>6. NoTx \in Txs /\ NoTx.st = "none"
  BY DEF NoTx, Txs, Statuses
<1> DEFINE q == [Fresh(NoCmd) EXCEPT !.pc = "idle"]
<1>7. q \in Processes /\ q.pc = "idle" /\ q.cmd = NoCmd /\ q.out = "none" /\ q.head1 = 0
  <2>1. Fresh(NoCmd) \in Processes /\ Fresh(NoCmd).cmd = NoCmd /\ Fresh(NoCmd).out = "none"
        /\ Fresh(NoCmd).head1 = 0 /\ "idle" \in Places
    BY FreshRecord DEF Places
  <2>2. ASSUME NEW y \in Processes
        PROVE  LET z == [y EXCEPT !.pc = "idle"] IN
               /\ z \in Processes /\ z.cmd = y.cmd /\ z.out = y.out /\ z.head1 = y.head1 /\ z.pc = "idle"
    BY <2>1 DEF Processes
  <2> QED BY <2>1, <2>2
<1> HIDE DEF q
<1>8. OTypes
  <2>1. \A a \in Accounts : fin.nonce[a] <= now.nonce[a]
    BY <1>3 DEF FirstRows
  <2>2. tx \in [Procs -> Txs] /\ proc \in [Procs -> Processes]
    BY <1>3, <1>6, <1>7 DEF q
  <2>3. head \in 0 .. MaxBlocks /\ open \in BOOLEAN /\ ~open /\ height \in Nat
    <3>1. open = FALSE /\ head = 0 /\ height = 0
      BY <1>3
    <3>2. open \in BOOLEAN /\ ~open
      BY <3>1, Zenon
    <3> QED BY <3>1, <3>2, OwnerAssumption
  <2>4. now \in States /\ fin \in States
    BY <1>3, <1>5
  <2> QED BY <1>2, <2>1, <2>2, <2>3, <2>4 DEF OTypes
<1>9. ASSUME NEW p \in Procs PROVE OFits(proc[p], tx[p], now, head, have)
  <2>1. proc[p] = q /\ tx[p] = NoTx
    BY <1>3 DEF q
  <2>2. PlaceFits(q)
    BY <1>7 DEF PlaceFits, NoCmd
  <2>3. TxFits(q, NoTx) /\ ScanFits(q, now.list) /\ AuditFits(q, now, have)
    BY <1>6, <1>7 DEF TxFits, ScanFits, AuditFits
  <2>4. ReassignFits(q, now, head)
    BY <1>3, <1>7 DEF ReassignFits
  <2> QED BY <2>1, <2>2, <2>3, <2>4 DEF OFits
<1> QED BY <1>3, <1>4, <1>5, <1>8, <1>9 DEF OwnerIInv

\* Every step keeps the invariant.
LEMMA OwnerSteps ==
  ASSUME OwnerIInv, [OwnerNext]_ownerVars
  PROVE  OwnerIInv'
<1>1. CASE UNCHANGED ownerVars
  <2>1. UNCHANGED <<row, now, fin, head, open, height, tx, menu, proc, have>>
    BY <1>1 DEF ownerVars
  <2>2. OTypes'
    BY <2>1 DEF OwnerIInv, OTypes
  <2>3. (ListOK(now.list) /\ ListOK(fin.list))'
    BY <2>1 DEF OwnerIInv, ListOK
  <2>4. ASSUME NEW p \in Procs PROVE OFits(proc[p], tx[p], now, head, have)'
    BY <2>1 DEF OwnerIInv
  <2> QED BY <2>2, <2>3, <2>4 DEF OwnerIInv
<1>2. CASE ChainStep
  BY <1>2, IncludeStep, EvictStep, LeaveStep, SealStep, FinalizeStep, ReorgStep, ArriveStep
     DEF ChainStep
<1>3. ASSUME NEW p \in Procs, Start(p) \/ Fails(p) \/ Step(p) PROVE OwnerIInv'
  <2>1. CASE Start(p) \/ Fails(p)
    BY <2>1, StartStep, FailsStep
  <2>2. CASE SubmitStep(p)
    BY <2>2, PrecheckStep, NonceStep, SendStep, WaitStep DEF SubmitStep
  <2>3. CASE AccessStep(p)
    BY <2>3, GateStep, RowStep, PageStep, KeyStep, OwnKeyStep, HeightStep DEF AccessStep
  <2>4. CASE ReassignStep(p)
    BY <2>4, InfoStep, Head1Step, RowsStep, ActiveStep, Head2Step, BuildStep DEF ReassignStep
  <2>5. CASE AuditStep(p)
    BY <2>5, BeginStep, EpochStep, EvaluateStep, FaultStep, RecheckStep, VerdictStep DEF AuditStep
  <2> QED BY <1>3, <2>1, <2>2, <2>3, <2>4, <2>5 DEF Step
<1> QED BY <1>1, <1>2, <1>3 DEF OwnerNext

\* The invariant of the operator commands (share, revoke, update-access, open,
\* register-encryption-key, register-node, reassign, repush-audit) holds always:
\* for any accounts, files, placement, menus of commands and number of processes,
\* page sizes, page and retry limits, and with blocks undone at any moment.
THEOREM OwnerInvariant == OwnerSpec => []OwnerIInv
<1>1. OwnerInit => OwnerIInv
  BY OwnerStarts
<1>2. OwnerIInv /\ [OwnerNext]_ownerVars => OwnerIInv'
  BY OwnerSteps
<1> QED BY <1>1, <1>2, PTL DEF OwnerSpec

\* Whatever access commands of access.rs run at once and whatever the chain undoes,
\* the owner keeps an entry with a bundle it opens, every listed account opens the
\* bundle of its entry, and a scan that says "not listed" has a cause: the account
\* was out of reach or moved up the list while the pages were read.
THEOREM AccessUsable == OwnerSpec => []AccessStaysUsable
<1>1. OwnerIInv => AccessStaysUsable
  <2> SUFFICES ASSUME OwnerIInv PROVE AccessStaysUsable
    OBVIOUS
  <2>1. OwnerKeepsKey
    BY DEF OwnerIInv, ListOK, OwnerKeepsKey
  <2>2. BundlesOpen
    BY DEF OwnerIInv, ListOK, BundlesOpen
  <2>3. NotListedHasCause
    BY DEF OwnerIInv, OFits, ScanFits, NotListedHasCause
  <2> QED BY <2>1, <2>2, <2>3 DEF AccessStaysUsable
<1> QED BY <1>1, OwnerInvariant, PTL

\* A success of submit_and_wait is on the finalized chain; a reassignment is signed
\* only for a file that had a departed archive with a chunk of it between the two
\* reads of the head (read_stable_coverage); and an audit that reports complete
\* could answer for every assigned chunk when the last file was evaluated, unless
\* blocks were undone meanwhile.
THEOREM VerdictsTrue == OwnerSpec => []VerdictsHold
<1>1. OwnerIInv => VerdictsHold
  <2> SUFFICES ASSUME OwnerIInv PROVE VerdictsHold
    OBVIOUS
  <2>1. OTypes /\ \A p \in Procs : OFits(proc[p], tx[p], now, head, have)
    BY DEF OwnerIInv
  <2>2. ASSUME NEW s \in {now, fin}
        PROVE  /\ \A i \in DOMAIN s.list : s.list[i].who \in Accounts /\ s.list[i].until \in Nat
               /\ \A i, j \in DOMAIN s.list : s.list[i].who = s.list[j].who => i = j
               /\ s.gone \subseteq Archives
               /\ \A f \in Files : s.snap[f] \subseteq Archives
    <3>1. s \in States /\ ListOK(s.list)
      BY DEF OwnerIInv, OTypes
    <3>2. \A i \in DOMAIN s.list : s.list[i] \in Entries
      BY <3>1, LenProperties DEF States
    <3>3. s.gone \subseteq Archives /\ \A f \in Files : s.snap[f] \subseteq Archives
      BY <3>1 DEF States
    <3> QED BY <3>1, <3>2, <3>3 DEF ListOK, Entries
  <2>3. ASSUME NEW p \in Procs
        PROVE  /\ tx[p].st \in Statuses
               /\ tx[p].st # "none" => proc[p].pc \in {"wait", "done"}
               /\ proc[p].page \in 0 .. MaxPages - 1 /\ proc[p].tries \in 0 .. ReadAttempts
    <3>1. tx[p] \in Txs /\ proc[p] \in Processes /\ TxFits(proc[p], tx[p])
      BY <2>1 DEF OTypes, OFits
    <3>2. tx[p].st \in Statuses /\ (tx[p].st # "none" => proc[p].pc \in {"wait", "done"})
      BY <3>1 DEF Txs, TxFits
    <3> QED BY <3>1, <3>2 DEF Processes
  <2>4. OwnerTypeOK
    BY <2>1, <2>2, <2>3, OwnerAssumption DEF OTypes, OwnerTypeOK
  <2>5. SuccessIsFinal /\ ReassignIsJustified /\ CompleteAuditHolds
    BY <2>1 DEF OFits, TxFits, ReassignFits, AuditFits, SuccessIsFinal, ReassignIsJustified,
       CompleteAuditHolds
  <2> QED BY <2>4, <2>5 DEF VerdictsHold
<1> QED BY <1>1, OwnerInvariant, PTL
=============================================================================
