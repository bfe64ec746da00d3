-------------------------- MODULE ConnectionsProofs --------------------------
(***************************************************************************)
(* Proofs about Connections, for any allow-list, any peers and addresses   *)
(* heard of, and any bounds: IInv is inductive; the properties follow.     *)
(*                                                                         *)
(* Then about ClientSide (peer discovery, the V1 upload and the CLI's      *)
(* commands), for any peers, uploads, scenarios and number of faults:      *)
(* ClientIInv is inductive.  The two share no variable.                    *)
(***************************************************************************)
EXTENDS Connections, ClientSide, FiniteSetTheorems, SequenceTheorems,
        WellFoundedInduction, TLAPS

\* Where the circuits are listened on.
ListenAddrs == {CircuitListenAddr(a, p) : a \in Addrs, p \in Peers}

Records ==
  [peer : Peers \cup {None}, via : Addrs, at : Peers \cup {None}, relayed : BOOLEAN]

Types ==
  /\ shared \subseteq Peers \X Addrs
  /\ explicit \subseteq Peers
  /\ relays \in [Peers -> [addrs : SUBSET Addrs, confirmed : BOOLEAN]]
  /\ nat \in {"unknown", "public", "private"}
  /\ reservation \in [state : {"pending", "active"}, peer : Peers] \cup {Idle}
  /\ listeners \subseteq [peer : Peers, addr : ListenAddrs, id : Nat, accepted : BOOLEAN]
  /\ opened \in Nat /\ \A l \in listeners : l.id < opened
  /\ dialing \subseteq Addrs
  /\ incoming \subseteq [local : Addrs, remote : Addrs]
  /\ conns \in [1 .. MaxConns -> Records]
  /\ direct \in [Peers -> Nat]

\* The entry of the allow-list a connection to via, with peer at, is open by.
Listed(via, at) ==
  \E e \in Allow :
    \/ /\ e.kind = "network"
       /\ via[1].p = "ip"
       /\ via[1].v \in e.addr .. e.addr + e.size - 1
    \/ /\ e.kind = "prefix"
       /\ SubSeq(via, 1, Len(e.components)) = e.components
       /\ e.peer \in {None, at}

\* The direct connections to a peer.
DirectTo(p) == {i \in 1 .. MaxConns : conns[i].peer = p /\ ~conns[i].relayed}

IInv ==
  Types /\ DirectIsExact /\ ActiveIsReachable /\ ContactsAreListed /\ NoRefusedAddressKept

---------------------------------------------------------------------------
(* Addresses. *)

\* A nonempty set of naturals has a least element.
LEMMA LeastOf ==
  ASSUME NEW T \in SUBSET Nat, T # {}
  PROVE  \E n \in T : \A m \in T : n <= m
<1>1. PICK n \in T : \A m \in T : ~(<<m, n>> \in OpToRel(<, Nat))
  BY NatLessThanWellFounded, WFMin, Zenon
<1>2. \A m \in T : ~(m < n)
  BY <1>1 DEF OpToRel
<1> QED BY <1>2

\* An address with a component of a protocol has a first one.
LEMMA FirstOf ==
  ASSUME NEW a \in Addrs, NEW q, Has(a, q)
  PROVE  \E i \in 1 .. Len(a) : a[i].p = q /\ \A j \in 1 .. i - 1 : a[j].p # q
<1> DEFINE T == {i \in 1 .. Len(a) : a[i].p = q}
<1>0. Len(a) \in Nat
  BY LenProperties DEF Addrs
<1>1. T \in SUBSET Nat /\ T # {}
  BY <1>0 DEF Has
<1>2. PICK n \in T : \A m \in T : n <= m
  BY <1>1, LeastOf
<1>3. \A j \in 1 .. n - 1 : a[j].p # q
  BY <1>0, <1>2
<1> QED BY <1>2, <1>3

\* A part of an address is one.
LEMMA PartOf ==
  ASSUME NEW a \in Addrs, NEW n \in Int, n <= Len(a)
  PROVE  SubSeq(a, 1, n) \in Addrs
<1>1. Len(a) \in Nat /\ \A i \in 1 .. n : a[i] \in Components
  BY LenProperties, ElementOfSeq DEF Addrs
<1> QED BY <1>1, SubSeqProperties DEF Addrs

\* The near part of an address is an address.
LEMMA SegmentType ==
  ASSUME NEW a \in Addrs
  PROVE  Segment(a) \in Addrs
<1>1. CASE ~Has(a, "circuit")
  BY <1>1 DEF Segment
<1>2. CASE Has(a, "circuit")
  <2> DEFINE n == CHOOSE i \in 1 .. Len(a) :
                    /\ a[i].p = "circuit"
                    /\ \A j \in 1 .. i - 1 : a[j].p # "circuit"
  <2>1. Len(a) \in Nat
    BY LenProperties DEF Addrs
  <2>2. \E i \in 1 .. Len(a) :
          a[i].p = "circuit" /\ \A j \in 1 .. i - 1 : a[j].p # "circuit"
    BY <1>2, FirstOf
  <2>3. n \in 1 .. Len(a)
    BY <2>2
  <2> HIDE DEF n
  <2>4. SubSeq(a, 1, n - 1) \in Addrs
    BY <2>1, <2>3, PartOf
  <2> QED BY <1>2, <2>4 DEF Segment, n
<1> QED BY <1>1, <1>2

\* The transport part of an address is an address, and it names a peer or none.
LEMMA TransportType ==
  ASSUME NEW a \in Addrs
  PROVE  /\ Transport(a) \in Addrs
         /\ \A h \in Peers \cup {None} : PeerOf(a, h) \in Peers \cup {None}
<1> DEFINE seg == Segment(a)
<1>1. seg \in Addrs
  BY SegmentType
<1> HIDE DEF seg
<1>2. Len(seg) \in Nat
  BY <1>1, LenProperties DEF Addrs
<1>3. SubSeq(seg, 1, Len(seg) - 1) \in Addrs
  BY <1>1, <1>2, PartOf
<1>4. ASSUME Named(seg) PROVE seg[Len(seg)].v \in Peers
  <2>1. Len(seg) \in 1 .. Len(seg)
    BY <1>1, <1>2, <1>4, EmptySeq DEF Named, Addrs
  <2>2. seg[Len(seg)] \in Components
    BY <1>1, <2>1, ElementOfSeq DEF Addrs
  <2> QED BY <1>4, <2>2 DEF Named, Components
<1> QED BY <1>1, <1>3, <1>4 DEF Transport, PeerOf, seg

\* decide() admits an address only if an entry names where it goes.
LEMMA DecideIsListed ==
  ASSUME NEW a \in Addrs, NEW h \in Peers \cup {None}, Decide(a, h, "enforce")
  PROVE  Listed(Transport(a), PeerOf(a, h))
<1> DEFINE t == Transport(a)
           at == PeerOf(a, h)
<1>1. t \in Addrs
  BY TransportType
<1>2. t # << >> /\ \E e \in Allow : Matches(e, t, at, "enforce")
  BY DEF Decide
<1> HIDE DEF t, at
<1>3. PICK e \in Allow : Matches(e, t, at, "enforce")
  BY <1>2
<1>4. Len(t) \in Nat \ {0} /\ t[1] \in Components
  BY <1>1, <1>2, EmptySeq, ElementOfSeq DEF Addrs
<1>5. CASE e \in [kind : {"network"}, addr : Nat, size : Nat \ {0}]
  <2>1. e.kind = "network" /\ e.addr \in Nat /\ e.size \in Nat \ {0}
    BY <1>5
  <2>2. t[1].p = "ip" /\ Mask(t[1].v, e.size) = e.addr
    BY <1>3, <2>1 DEF Matches
  <2>3. t[1].v \in Nat
    BY <1>4, <2>2 DEF Components
  <2>4. t[1].v \in e.addr .. e.addr + e.size - 1
    BY <2>1, <2>2, <2>3 DEF Mask
  <2> QED BY <2>1, <2>2, <2>4 DEF Listed, t, at
<1>6. CASE e \in [kind : {"prefix"}, components : Addrs, peer : Peers \cup {None}]
  <2>1. e.kind = "prefix" /\ e.components \in Addrs
    BY <1>6
  <2>2. /\ Len(e.components) <= Len(t)
        /\ \A i \in 1 .. Len(e.components) : e.components[i] = t[i]
        /\ e.peer = None \/ e.peer = at
    BY <1>3, <2>1 DEF Matches
  <2>3. Len(e.components) \in Nat
    BY <2>1, LenProperties DEF Addrs
  <2>4. \A i \in 1 .. Len(e.components) : t[i] \in Components
    BY <1>1, <1>4, <2>2, <2>3, ElementOfSeq DEF Addrs
  <2> DEFINE s == SubSeq(t, 1, Len(e.components))
  <2>5. /\ s \in Seq(Components)
        /\ Len(s) = Len(e.components)
        /\ \A i \in 1 .. Len(e.components) : s[i] = t[i]
    BY <2>3, <2>4, SubSeqProperties
  <2> HIDE DEF s
  <2>6. s = e.components
    BY <2>1, <2>2, <2>5, SeqEqual DEF Addrs
  <2> QED BY <2>1, <2>2, <2>6 DEF Listed, t, at, s
<1> QED BY <1>5, <1>6, AllowAssumption

---------------------------------------------------------------------------
(* Connections open and close. *)

\* The connections of a peer are finitely many, at most MaxConns.
LEMMA DirectToIsFinite ==
  ASSUME NEW p
  PROVE  /\ IsFiniteSet(DirectTo(p))
         /\ Cardinality(DirectTo(p)) \in 0 .. MaxConns
<1>1. MaxConns \in Nat
  BY OutsideAssumption
<1>2. IsFiniteSet(1 .. MaxConns) /\ Cardinality(1 .. MaxConns) = MaxConns
  BY <1>1, FS_Interval
<1>3. DirectTo(p) \in SUBSET (1 .. MaxConns)
  BY DEF DirectTo
<1>4. IsFiniteSet(DirectTo(p)) /\ Cardinality(DirectTo(p)) <= MaxConns
  BY <1>2, <1>3, FS_Subset
<1> QED BY <1>1, <1>4, FS_CardinalityType

\* A connection that opens in a free place is counted if it is direct, and is
\* to a listed machine if the others are.
LEMMA OpenKeeps ==
  ASSUME Types, DirectIsExact, ContactsAreListed,
         NEW i \in FreeSlots, NEW r \in Records, r.peer \in Peers,
         Restricted => Listed(r.via, r.at),
         conns' = [conns EXCEPT ![i] = r],
         direct' = [direct EXCEPT ![r.peer] = IF r.relayed THEN @ ELSE @ + 1]
  PROVE  /\ conns' \in [1 .. MaxConns -> Records] /\ direct' \in [Peers -> Nat]
         /\ DirectIsExact' /\ ContactsAreListed'
<1>0. i \in 1 .. MaxConns /\ conns[i].peer = None /\ None \notin Peers
  BY OutsideAssumption DEF FreeSlots
<1>1. conns' \in [1 .. MaxConns -> Records] /\ direct' \in [Peers -> Nat]
  BY <1>0 DEF Types
<1>2. ASSUME NEW p \in Peers
      PROVE  direct'[p] = Cardinality(DirectTo(p)')
  <2>1. direct[p] = Cardinality(DirectTo(p)) /\ direct[p] \in Nat
    BY DEF DirectIsExact, DirectTo, Types
  <2>2. i \notin DirectTo(p)
    BY <1>0 DEF DirectTo
  <2>3. CASE p = r.peer /\ ~r.relayed
    <3>1. DirectTo(p)' = DirectTo(p) \cup {i}
      BY <1>0, <2>3 DEF DirectTo, Types
    <3>2. direct'[p] = direct[p] + 1
      BY <2>3 DEF Types
    <3>3. IsFiniteSet(DirectTo(p))
      BY DirectToIsFinite
    <3>4. Cardinality(DirectTo(p) \cup {i}) = Cardinality(DirectTo(p)) + 1
      BY <2>2, <3>3, FS_AddElement
    <3> QED BY <2>1, <3>1, <3>2, <3>4
  <2>4. CASE ~(p = r.peer /\ ~r.relayed)
    <3>1. DirectTo(p)' = DirectTo(p)
      BY <1>0, <2>4 DEF DirectTo, Types
    <3>2. direct'[p] = direct[p]
      BY <2>4 DEF Types
    <3> QED BY <2>1, <3>1, <3>2
  <2> QED BY <2>3, <2>4
<1>3. DirectIsExact'
  BY <1>2 DEF DirectIsExact, DirectTo
<1>4. ContactsAreListed'
  <2> SUFFICES ASSUME Restricted, NEW j \in 1 .. MaxConns, conns'[j].peer # None
               PROVE  Listed(conns'[j].via, conns'[j].at)
    BY DEF ContactsAreListed, Listed
  <2>1. CASE j = i
    BY <1>0, <2>1 DEF Types
  <2>2. CASE j # i
    <3>1. conns'[j] = conns[j]
      BY <1>0, <2>2 DEF Types
    <3> QED BY <3>1 DEF ContactsAreListed, Listed
  <2> QED BY <2>1, <2>2
<1> QED BY <1>1, <1>3, <1>4

\* A connection that closes is counted down if it was direct.
LEMMA CloseKeeps ==
  ASSUME Types, DirectIsExact, ContactsAreListed,
         NEW i \in 1 .. MaxConns, ConnectionClosed(i)
  PROVE  /\ conns' \in [1 .. MaxConns -> Records] /\ direct' \in [Peers -> Nat]
         /\ DirectIsExact' /\ ContactsAreListed'
<1> DEFINE q == conns[i].peer
<1>0. /\ None \notin Peers /\ NoConn \in Records /\ q \in Peers
      /\ conns' = [conns EXCEPT ![i] = NoConn]
  <2>1. << >> \in Addrs
    BY EmptySeq DEF Addrs
  <2> QED BY <2>1, OutsideAssumption DEF ConnectionClosed, Types, Records, NoConn
<1>1. \A p \in Peers : direct'[p] = IF p = q /\ ~conns[i].relayed /\ direct[p] # 0
                                    THEN direct[p] - 1 ELSE direct[p]
  BY <1>0 DEF ConnectionClosed, Types, Records
<1>2. conns' \in [1 .. MaxConns -> Records] /\ direct' \in [Peers -> Nat]
  BY <1>0, <1>1 DEF ConnectionClosed, Types
<1>3. ASSUME NEW p \in Peers
      PROVE  direct'[p] = Cardinality(DirectTo(p)')
  <2>1. direct[p] = Cardinality(DirectTo(p)) /\ direct[p] \in Nat
    BY DEF DirectIsExact, DirectTo, Types
  <2>2. CASE p = q /\ ~conns[i].relayed
    <3>1. DirectTo(p)' = DirectTo(p) \ {i} /\ i \in DirectTo(p)
      BY <1>0, <2>2 DEF DirectTo, Types, NoConn
    <3>2. Cardinality(DirectTo(p)') = direct[p] - 1
      BY <2>1, <3>1, DirectToIsFinite, FS_RemoveElement
    <3>3. direct[p] # 0
      BY <2>1, <3>1, DirectToIsFinite, FS_EmptySet
    <3> QED BY <1>1, <2>2, <3>2, <3>3
  <2>3. CASE ~(p = q /\ ~conns[i].relayed)
    <3>1. DirectTo(p)' = DirectTo(p)
      BY <1>0, <2>3 DEF DirectTo, Types, NoConn
    <3> QED BY <1>1, <2>1, <2>3, <3>1
  <2> QED BY <2>2, <2>3
<1>4. DirectIsExact'
  BY <1>3 DEF DirectIsExact, DirectTo
<1>5. ContactsAreListed'
  <2> SUFFICES ASSUME Restricted, NEW j \in 1 .. MaxConns, conns'[j].peer # None
               PROVE  Listed(conns'[j].via, conns'[j].at)
    BY DEF ContactsAreListed, Listed
  <2>1. j # i /\ conns'[j] = conns[j]
    BY <1>0 DEF Types, NoConn
  <2> QED BY <2>1 DEF ContactsAreListed, Listed
<1> QED BY <1>2, <1>4, <1>5

---------------------------------------------------------------------------
(* Addresses and relay candidates only accumulate. *)

\* The connections are none of a step's business.
LEMMA ConnectionsUntouched ==
  ASSUME DirectIsExact, ContactsAreListed, UNCHANGED <<conns, direct>>
  PROVE  DirectIsExact' /\ ContactsAreListed'
BY DEF DirectIsExact, ContactsAreListed

\* What the reservation and the listeners rest on is kept when the relay
\* candidates are.
LEMMA RelaysUntouched ==
  ASSUME ActiveIsReachable, NoRefusedAddressKept,
         UNCHANGED <<shared, relays, reservation, listeners>>
  PROVE  ActiveIsReachable' /\ NoRefusedAddressKept'
BY DEF ActiveIsReachable, NoRefusedAddressKept

\* Admitted addresses of a peer join the address book and its candidates.
LEMMA LearnKeeps ==
  ASSUME Types, ActiveIsReachable, NoRefusedAddressKept,
         NEW p \in Peers, NEW A \in SUBSET Addrs, NEW B \in SUBSET Addrs,
         NEW c \in BOOLEAN,
         \A a \in A \cup B : Allows(a, p),
         shared' = shared \cup {<<p, a>> : a \in A},
         AddRelayAddrs(p, B, c) \/ UNCHANGED relays,
         UNCHANGED <<reservation, listeners>>
  PROVE  /\ shared' \subseteq Peers \X Addrs
         /\ relays' \in [Peers -> [addrs : SUBSET Addrs, confirmed : BOOLEAN]]
         /\ ActiveIsReachable' /\ NoRefusedAddressKept'
<1>1. shared' \subseteq Peers \X Addrs
  BY DEF Types
<1>2. \A s \in shared' : Allows(s[2], s[1])
  BY DEF NoRefusedAddressKept
<1>3. /\ relays' \in [Peers -> [addrs : SUBSET Addrs, confirmed : BOOLEAN]]
      /\ \A q \in Peers :
           /\ relays[q].addrs \subseteq relays'[q].addrs
           /\ relays[q].confirmed => relays'[q].confirmed
           /\ \A a \in relays'[q].addrs : a \in relays[q].addrs \/ (q = p /\ a \in B)
  <2>1. CASE UNCHANGED relays
    BY <2>1 DEF Types
  <2>2. CASE AddRelayAddrs(p, B, c)
    <3> DEFINE new == [addrs |-> relays[p].addrs \cup {a \in B : DialableOverWan(a)},
                       confirmed |-> relays[p].confirmed \/ c]
    <3>1. relays' = [relays EXCEPT ![p] = new]
      BY <2>2 DEF AddRelayAddrs
    <3>2. relays[p].addrs \in SUBSET Addrs /\ relays[p].confirmed \in BOOLEAN
      BY DEF Types
    <3>3. new \in [addrs : SUBSET Addrs, confirmed : BOOLEAN]
      BY <3>2
    <3>4. /\ relays[p].addrs \subseteq new.addrs
          /\ relays[p].confirmed => new.confirmed
          /\ \A a \in new.addrs : a \in relays[p].addrs \/ a \in B
      OBVIOUS
    <3> HIDE DEF new
    <3> QED BY <3>1, <3>3, <3>4 DEF Types
  <2> QED BY <2>1, <2>2
<1>4. \A q \in Peers : \A a \in relays'[q].addrs : Allows(a, q)
  <2> SUFFICES ASSUME NEW q \in Peers, NEW a \in relays'[q].addrs PROVE Allows(a, q)
    OBVIOUS
  <2>1. CASE a \in relays[q].addrs
    BY <2>1, Zenon DEF NoRefusedAddressKept
  <2>2. CASE q = p /\ a \in B
    BY <2>2
  <2> QED BY <1>3, <2>1, <2>2, Zenon
<1>5. \A l \in listeners :
        \E a \in relays'[l.peer].addrs :
          Allows(a, l.peer) /\ l.addr = CircuitListenAddr(a, l.peer)
  <2> SUFFICES ASSUME NEW l \in listeners
               PROVE  \E a \in relays'[l.peer].addrs :
                        Allows(a, l.peer) /\ l.addr = CircuitListenAddr(a, l.peer)
    OBVIOUS
  <2>1. l.peer \in Peers
    BY DEF Types
  <2>2. PICK a \in relays[l.peer].addrs :
          Allows(a, l.peer) /\ l.addr = CircuitListenAddr(a, l.peer)
    BY Zenon DEF NoRefusedAddressKept
  <2>3. a \in relays'[l.peer].addrs
    BY <1>3, <2>1, <2>2, Zenon
  <2> QED BY <2>2, <2>3, Zenon
<1>6. NoRefusedAddressKept'
  BY <1>2, <1>4, <1>5 DEF NoRefusedAddressKept
<1>7. ActiveIsReachable'
  <2>1. reservation # Idle => reservation.peer \in Peers
    BY DEF Types
  <2> QED BY <1>3, <2>1, Zenon DEF ActiveIsReachable
<1> QED BY <1>1, <1>3, <1>6, <1>7

\* A dial is of an address.
LEMMA DialKeeps ==
  ASSUME Types, NEW a \in Addrs, StartDial(a)
  PROVE  dialing' \subseteq Addrs
BY DEF StartDial, Types

\* Naming the peer in an address gives an address.
LEMMA WithPeerType ==
  ASSUME NEW a \in Addrs, NEW p \in Peers
  PROVE  WithPeer(a, p) \in Addrs
<1>1. P2p(p) \in Components
  BY DEF P2p, Components
<1> QED BY <1>1, AppendProperties DEF WithPeer, Addrs

\* An address bootstrap is given names a peer.
LEMMA BootstrapPeer ==
  ASSUME NEW a \in Bootstrap
  PROVE  a[CHOOSE i \in 1 .. Len(a) :
             a[i].p = "p2p" /\ \A j \in 1 .. i - 1 : a[j].p # "p2p"].v \in Peers
<1> DEFINE n == CHOOSE i \in 1 .. Len(a) :
                  a[i].p = "p2p" /\ \A j \in 1 .. i - 1 : a[j].p # "p2p"
<1>1. a \in Addrs /\ Has(a, "p2p")
  BY OutsideAssumption DEF Has
<1>2. \E i \in 1 .. Len(a) : a[i].p = "p2p" /\ \A j \in 1 .. i - 1 : a[j].p # "p2p"
  BY <1>1, FirstOf
<1>3. n \in 1 .. Len(a) /\ a[n].p = "p2p"
  BY <1>2
<1> HIDE DEF n
<1>4. a[n] \in Components
  BY <1>1, <1>3, ElementOfSeq DEF Addrs
<1>5. a[n].v \in Peers
  BY <1>3, <1>4 DEF Components
<1> QED BY <1>5 DEF n

---------------------------------------------------------------------------
(* The steps. *)

\* At the start nothing is known and nothing is open.
LEMMA InitIInv == Init => IInv
<1> SUFFICES ASSUME Init PROVE IInv
  OBVIOUS
<1>1. NoConn \in Records
  <2>1. << >> \in Addrs
    BY EmptySeq DEF Addrs
  <2> QED BY <2>1 DEF Records, NoConn
<1>2. conns = [i \in 1 .. MaxConns |-> NoConn]
  BY DEF Init
<1>3. Types
  BY <1>1 DEF Init, Types
<1>4. DirectIsExact
  <2> SUFFICES ASSUME NEW p \in Peers PROVE direct[p] = Cardinality(DirectTo(p))
    BY DEF DirectIsExact, DirectTo
  <2>1. DirectTo(p) = {}
    BY <1>2, OutsideAssumption DEF DirectTo, NoConn
  <2> QED BY <2>1, FS_EmptySet DEF Init
<1>5. ContactsAreListed
  BY <1>2 DEF ContactsAreListed, NoConn
<1>6. ActiveIsReachable /\ NoRefusedAddressKept
  BY DEF Init, ActiveIsReachable, NoRefusedAddressKept, Idle
<1> QED BY <1>3, <1>4, <1>5, <1>6 DEF IInv

\* Bootstrap learns and dials an admitted address.
LEMMA BootstrapStep ==
  ASSUME IInv, NEW a \in Bootstrap, BootstrapKademlia(a)
  PROVE  IInv'
<1> DEFINE p == a[CHOOSE i \in 1 .. Len(a) :
                    a[i].p = "p2p" /\ \A j \in 1 .. i - 1 : a[j].p # "p2p"].v
<1>1. p \in Peers
  BY BootstrapPeer
<1>2. /\ Allows(a, p)
      /\ shared' = shared \cup {<<p, a>>}
      /\ AddRelayAddrs(p, {a}, FALSE)
      /\ StartDial(a)
      /\ UNCHANGED <<explicit, nat, reservation, listeners, opened, incoming,
                     conns, direct>>
  BY DEF BootstrapKademlia
<1> HIDE DEF p
<1>3. a \in Addrs
  BY OutsideAssumption
<1>4. /\ shared' \subseteq Peers \X Addrs
      /\ relays' \in [Peers -> [addrs : SUBSET Addrs, confirmed : BOOLEAN]]
      /\ ActiveIsReachable' /\ NoRefusedAddressKept'
  <2>1. {<<p, b>> : b \in {a}} = {<<p, a>>}
    OBVIOUS
  <2>2. {a} \in SUBSET Addrs /\ \A b \in {a} \cup {a} : Allows(b, p)
    BY <1>2, <1>3
  <2>3. shared' = shared \cup {<<p, b>> : b \in {a}}
    BY <1>2, <2>1
  <2> QED BY <1>1, <1>2, <2>2, <2>3, LearnKeeps DEF IInv
<1>5. dialing' \subseteq Addrs
  BY <1>2, <1>3, DialKeeps DEF IInv
<1>6. Types'
  BY <1>2, <1>4, <1>5 DEF IInv, Types
<1> QED BY <1>2, <1>4, <1>6, ConnectionsUntouched DEF IInv

\* A peer is dialed by an address of the book.
LEMMA DialPeerStep ==
  ASSUME IInv, NEW p \in Peers, DialPeer(p)
  PROVE  IInv'
<1>1. PICK s \in shared : StartDial(WithPeer(s[2], p))
  BY DEF DialPeer
<1>2. WithPeer(s[2], p) \in Addrs
  BY WithPeerType DEF IInv, Types
<1>3. dialing' \subseteq Addrs
  BY <1>1, <1>2, DialKeeps DEF IInv
<1>4. UNCHANGED <<shared, explicit, relays, nat, reservation, listeners, opened,
                  incoming,
                     conns, direct>>
  BY DEF DialPeer
<1>5. Types'
  BY <1>3, <1>4 DEF IInv, Types
<1> QED BY <1>4, <1>5, ConnectionsUntouched, RelaysUntouched DEF IInv

\* A dial ends in a connection that was checked again with the peer known.
LEMMA EstablishedStep ==
  ASSUME IInv, NEW a \in dialing, NEW p \in Peers, Established(a, p)
  PROVE  IInv'
<1> DEFINE r == [peer |-> p, via |-> Transport(a), at |-> PeerOf(a, p),
                 relayed |-> Has(a, "circuit")]
<1>1. a \in Addrs
  BY DEF IInv, Types
<1>2. r \in Records
  <2>1. Has(a, "circuit") \in BOOLEAN
    BY DEF Has
  <2> QED BY <1>1, <2>1, TransportType DEF Records
<1>3. Restricted => Listed(r.via, r.at)
  <2>1. Allows(a, p)
    BY DEF Established
  <2> QED BY <1>1, <2>1, DecideIsListed DEF Allows
<1>4. PICK i \in FreeSlots : conns' = [conns EXCEPT ![i] = r]
  BY DEF Established, Contact
<1>5. direct' = [direct EXCEPT ![r.peer] = IF r.relayed THEN @ ELSE @ + 1]
  BY DEF Established, Contact
<1>6. r.peer \in Peers
  OBVIOUS
<1> HIDE DEF r
<1>7. /\ conns' \in [1 .. MaxConns -> Records] /\ direct' \in [Peers -> Nat]
      /\ DirectIsExact' /\ ContactsAreListed'
  BY <1>2, <1>3, <1>4, <1>5, <1>6, OpenKeeps DEF IInv
<1>8. /\ dialing' \subseteq dialing
      /\ UNCHANGED <<shared, explicit, relays, nat, reservation, listeners, opened,
                     incoming>>
  BY DEF Established
<1>9. Types'
  BY <1>7, <1>8 DEF IInv, Types
<1> QED BY <1>7, <1>8, <1>9, RelaysUntouched DEF IInv

\* An inbound connection is admitted by its relay or by where it comes from.
LEMMA EstablishedInboundStep ==
  ASSUME IInv, NEW in \in incoming, NEW p \in Peers, EstablishedInbound(in, p)
  PROVE  IInv'
<1> DEFINE relayed == Has(in.local, "circuit")
           from == IF relayed THEN in.local ELSE in.remote
           r == [peer |-> p, via |-> Transport(from), at |-> PeerOf(from, p),
                 relayed |-> relayed]
<1>1. in.local \in Addrs /\ in.remote \in Addrs /\ from \in Addrs
  BY DEF IInv, Types
<1>2. /\ incoming' \subseteq incoming
      /\ UNCHANGED <<shared, explicit, relays, nat, reservation, listeners, opened,
                     dialing>>
  BY DEF EstablishedInbound
<1>3. CASE UNCHANGED <<conns, direct>>
  <2>1. Types'
    BY <1>2, <1>3 DEF IInv, Types
  <2> QED BY <1>2, <1>3, <2>1, ConnectionsUntouched, RelaysUntouched DEF IInv
<1>4. CASE /\ InboundAllowed(in.local, in.remote, p)
           /\ \E i \in FreeSlots : conns' = [conns EXCEPT ![i] = r]
           /\ direct' = [direct EXCEPT ![p] = IF relayed THEN @ ELSE @ + 1]
  <2>1. relayed \in BOOLEAN
    BY DEF Has
  <2>2. r \in Records
    BY <1>1, <2>1, TransportType DEF Records
  <2>3. Restricted => Listed(r.via, r.at)
    <3> SUFFICES ASSUME Restricted PROVE Listed(r.via, r.at)
      OBVIOUS
    <3>1. CASE relayed
      <4>1. Decide(in.local, None, "enforce")
        BY <1>4, <3>1 DEF InboundAllowed
      <4>2. PeerOf(in.local, None) = PeerOf(in.local, p)
        BY <3>1 DEF PeerOf
      <4> QED BY <1>1, <3>1, <4>1, <4>2, DecideIsListed
    <3>2. CASE ~relayed
      <4>1. Decide(in.remote, p, "enforce")
        BY <1>4, <3>2, OutsideAssumption DEF InboundAllowed
      <4> QED BY <1>1, <3>2, <4>1, DecideIsListed
    <3> QED BY <3>1, <3>2
  <2>4. PICK i \in FreeSlots : conns' = [conns EXCEPT ![i] = r]
    BY <1>4
  <2>5. direct' = [direct EXCEPT ![r.peer] = IF r.relayed THEN @ ELSE @ + 1]
    BY <1>4
  <2>6. r.peer \in Peers
    OBVIOUS
  <2> HIDE DEF r
  <2>7. /\ conns' \in [1 .. MaxConns -> Records] /\ direct' \in [Peers -> Nat]
        /\ DirectIsExact' /\ ContactsAreListed'
    BY <2>2, <2>3, <2>4, <2>5, <2>6, OpenKeeps DEF IInv
  <2>8. Types'
    BY <1>2, <2>7 DEF IInv, Types
  <2> QED BY <1>2, <2>7, <2>8, RelaysUntouched DEF IInv
<1> QED BY <1>3, <1>4 DEF EstablishedInbound

\* What a peer says of itself is kept and dialed as far as it is admitted.
LEMMA IdentifyStep ==
  ASSUME IInv, NEW p \in Peers, NEW A \in SUBSET AddrsOf(p), IdentifyReceived(p, A)
  PROVE  IInv'
<1> DEFINE B == {a \in A : Allows(a, p)}
<1>1. A \in SUBSET Addrs /\ B \in SUBSET Addrs /\ \A a \in B \cup B : Allows(a, p)
  BY OutsideAssumption DEF AddrsOf
<1>2. /\ AddRelayAddrs(p, B, TRUE) \/ UNCHANGED relays
      /\ shared' = shared \cup {<<p, a>> : a \in B}
      /\ UNCHANGED <<explicit, nat, reservation, listeners, opened, incoming,
                     conns, direct>>
  BY DEF IdentifyReceived, Publish
<1>3. \/ \E a \in DirectCandidates(B, p) : StartDial(a)
      \/ UNCHANGED dialing
  BY DEF IdentifyReceived
<1> HIDE DEF B
<1>4. /\ shared' \subseteq Peers \X Addrs
      /\ relays' \in [Peers -> [addrs : SUBSET Addrs, confirmed : BOOLEAN]]
      /\ ActiveIsReachable' /\ NoRefusedAddressKept'
  BY <1>1, <1>2, LearnKeeps DEF IInv
<1>5. dialing' \subseteq Addrs
  <2>1. CASE UNCHANGED dialing
    BY <2>1 DEF IInv, Types
  <2>2. CASE \E a \in DirectCandidates(B, p) : StartDial(a)
    <3>1. PICK a \in DirectCandidates(B, p) : StartDial(a)
      BY <2>2
    <3>2. a \in Addrs
      BY <1>1, <3>1, WithPeerType DEF DirectCandidates
    <3> QED BY <3>1, <3>2, DialKeeps DEF IInv
  <2> QED BY <1>3, <2>1, <2>2
<1>6. Types'
  BY <1>2, <1>4, <1>5 DEF IInv, Types
<1> QED BY <1>2, <1>4, <1>6, ConnectionsUntouched DEF IInv

\* mDNS publishes what is admitted.
LEMMA MdnsStep ==
  ASSUME IInv, NEW o \in Offers, MdnsDiscovered(o[1], o[2])
  PROVE  IInv'
<1> DEFINE p == o[1]
           B == {a \in {o[2]} : Allows(a, p)}
<1>1. p \in Peers /\ B \in SUBSET Addrs /\ \A a \in B \cup B : Allows(a, p)
  BY OutsideAssumption
<1>2. /\ shared' = shared \cup {<<p, a>> : a \in B}
      /\ explicit' \subseteq explicit \cup {p}
      /\ UNCHANGED <<relays, nat, reservation, listeners, opened, dialing, incoming,
                     conns, direct>>
  BY DEF MdnsDiscovered, Publish
<1> HIDE DEF B, p
<1>3. /\ shared' \subseteq Peers \X Addrs
      /\ relays' \in [Peers -> [addrs : SUBSET Addrs, confirmed : BOOLEAN]]
      /\ ActiveIsReachable' /\ NoRefusedAddressKept'
  <2>1. TRUE \in BOOLEAN
    OBVIOUS
  <2> QED BY <1>1, <1>2, <2>1, LearnKeeps DEF IInv
<1>4. Types'
  BY <1>1, <1>2, <1>3 DEF IInv, Types
<1> QED BY <1>2, <1>3, <1>4, ConnectionsUntouched DEF IInv

\* A circuit is listened on by way of a candidate's address.
LEMMA PrivateStep ==
  ASSUME IInv, StatusPrivate
  PROVE  IInv'
<1>1. /\ nat' = "private"
      /\ UNCHANGED <<shared, explicit, relays, dialing, incoming,
                     conns, direct>>
  BY DEF StatusPrivate
<1>2. DirectIsExact' /\ ContactsAreListed'
  BY <1>1, ConnectionsUntouched DEF IInv
<1>3. CASE UNCHANGED <<reservation, listeners, opened>>
  <2>1. Types'
    BY <1>1, <1>3 DEF IInv, Types
  <2> QED BY <1>1, <1>2, <1>3, <2>1, RelaysUntouched DEF IInv
<1>4. CASE \E p \in Candidates : \E base \in relays[p].addrs :
             /\ reservation' = [state |-> "pending", peer |-> p]
             /\ listeners' = listeners \cup
                  {[peer |-> p, addr |-> CircuitListenAddr(base, p), id |-> opened,
                    accepted |-> FALSE]}
             /\ opened' = opened + 1
  <2>0. PICK p \in Candidates : \E base \in relays[p].addrs :
             /\ reservation' = [state |-> "pending", peer |-> p]
             /\ listeners' = listeners \cup
                  {[peer |-> p, addr |-> CircuitListenAddr(base, p), id |-> opened,
                    accepted |-> FALSE]}
             /\ opened' = opened + 1
    BY <1>4
  <2>1. PICK base \in relays[p].addrs :
             /\ reservation' = [state |-> "pending", peer |-> p]
             /\ listeners' = listeners \cup
                  {[peer |-> p, addr |-> CircuitListenAddr(base, p), id |-> opened,
                    accepted |-> FALSE]}
             /\ opened' = opened + 1
    BY <2>0
  <2> DEFINE new == [peer |-> p, addr |-> CircuitListenAddr(base, p), id |-> opened,
                     accepted |-> FALSE]
  <2>2. p \in Peers /\ relays[p].confirmed /\ base \in Addrs
    BY DEF Candidates, IInv, Types
  <2>3. Allows(base, p)
    BY <2>2, Zenon DEF IInv, NoRefusedAddressKept
  <2>4. CircuitListenAddr(base, p) \in ListenAddrs
    BY <2>2 DEF ListenAddrs
  <2>5. /\ new \in [peer : Peers, addr : ListenAddrs, id : Nat, accepted : BOOLEAN]
        /\ new.peer = p /\ new.addr = CircuitListenAddr(base, p) /\ new.id = opened
    BY <2>2, <2>4 DEF IInv, Types
  <2>6. listeners' = listeners \cup {new}
    BY <2>1
  <2> HIDE DEF new
  <2>7. Types'
    BY <1>1, <2>1, <2>2, <2>5, <2>6 DEF IInv, Types
  <2>8. ActiveIsReachable'
    BY <1>1, <2>1, <2>2, <2>5, <2>6 DEF ActiveIsReachable
  <2>9. NoRefusedAddressKept'
    <3>1. \A l \in listeners' :
            \E a \in relays[l.peer].addrs :
              Allows(a, l.peer) /\ l.addr = CircuitListenAddr(a, l.peer)
      BY <2>3, <2>5, <2>6, Zenon DEF IInv, NoRefusedAddressKept
    <3> QED BY <1>1, <3>1 DEF IInv, NoRefusedAddressKept
  <2> QED BY <1>2, <2>7, <2>8, <2>9 DEF IInv
<1> QED BY <1>3, <1>4 DEF StatusPrivate

\* A reservation becomes active with a listener that was accepted.
LEMMA AcceptedStep ==
  ASSUME IInv, NEW l \in listeners, ReservationAccepted(l)
  PROVE  IInv'
<1> DEFINE new == [l EXCEPT !.accepted = TRUE]
<1>1. l \in [peer : Peers, addr : ListenAddrs, id : Nat, accepted : BOOLEAN]
  BY DEF IInv, Types
<1>2. /\ new \in [peer : Peers, addr : ListenAddrs, id : Nat, accepted : BOOLEAN]
      /\ new.peer = l.peer /\ new.addr = l.addr /\ new.id = l.id /\ new.accepted
  BY <1>1
<1>3. /\ listeners' = (listeners \ {l}) \cup {new}
      /\ UNCHANGED <<shared, explicit, relays, nat, opened, dialing, incoming,
                     conns, direct>>
  BY DEF ReservationAccepted
<1> HIDE DEF new
<1>4. /\ reservation' \in [state : {"pending", "active"}, peer : Peers] \cup {Idle}
      /\ reservation' # Idle => reservation # Idle /\ reservation'.peer = reservation.peer
      /\ reservation'.state = "active" =>
           reservation.state = "active" \/ reservation'.peer = l.peer
  <2>1. CASE reservation = [state |-> "pending", peer |-> l.peer]
    <3>1. reservation' = [state |-> "active", peer |-> l.peer]
      BY <2>1 DEF ReservationAccepted
    <3> QED BY <1>1, <2>1, <3>1 DEF Idle
  <2>2. CASE reservation # [state |-> "pending", peer |-> l.peer]
    BY <2>2 DEF ReservationAccepted, IInv, Types
  <2> QED BY <2>1, <2>2
<1>5. Types'
  BY <1>2, <1>3, <1>4 DEF IInv, Types
<1>6. ActiveIsReachable'
  <2>1. reservation' # Idle => relays'[reservation'.peer].confirmed
    BY <1>3, <1>4 DEF IInv, ActiveIsReachable
  <2>2. ASSUME reservation'.state = "active"
        PROVE  \E m \in listeners' : m.peer = reservation'.peer /\ m.accepted
    <3>1. CASE reservation'.peer = l.peer
      BY <1>2, <1>3, <3>1
    <3>2. CASE reservation'.peer # l.peer
      <4>1. reservation' # Idle /\ reservation'.peer = reservation.peer /\ reservation.state = "active"
        BY <1>4, <2>2, <3>2 DEF Idle
      <4>2. PICK m \in listeners : m.peer = reservation.peer /\ m.accepted
        BY <4>1 DEF IInv, ActiveIsReachable
      <4> QED BY <1>3, <3>2, <4>1, <4>2
    <3> QED BY <3>1, <3>2
  <2> QED BY <2>1, <2>2 DEF ActiveIsReachable
<1>7. NoRefusedAddressKept'
  <2>1. \A m \in listeners' :
          \E a \in relays[m.peer].addrs :
            Allows(a, m.peer) /\ m.addr = CircuitListenAddr(a, m.peer)
    BY <1>2, <1>3, Zenon DEF IInv, NoRefusedAddressKept
  <2> QED BY <1>3, <2>1 DEF IInv, NoRefusedAddressKept
<1> QED BY <1>3, <1>5, <1>6, <1>7, ConnectionsUntouched DEF IInv

\* A listener that closes takes an active reservation with it, unless another
\* accepted one is open on its relay.
LEMMA ClosedStep ==
  ASSUME IInv, NEW l \in listeners, ListenerClosed(l)
  PROVE  IInv'
<1>1. /\ listeners' = listeners \ {l}
      /\ reservation' = IF l.accepted THEN Idle ELSE reservation
      /\ UNCHANGED <<shared, explicit, relays, nat, opened, dialing, incoming, conns,
                     direct>>
  BY DEF ListenerClosed
<1>2. Types'
  BY <1>1 DEF IInv, Types
<1>3. NoRefusedAddressKept'
  BY <1>1 DEF IInv, NoRefusedAddressKept
<1>4. ActiveIsReachable'
  <2>1. CASE l.accepted
    <3>1. reservation' = Idle
      BY <1>1, <2>1
    <3> QED BY <3>1 DEF ActiveIsReachable, Idle
  <2>2. CASE ~l.accepted
    <3>1. reservation' = reservation
      BY <1>1, <2>2
    <3> QED BY <1>1, <2>2, <3>1 DEF IInv, ActiveIsReachable
  <2> QED BY <2>1, <2>2
<1> QED BY <1>1, <1>2, <1>3, <1>4, ConnectionsUntouched DEF IInv

\* IInv is inductive.
LEMMA NextIInv == IInv /\ [Next]_vars => IInv'
<1> SUFFICES ASSUME IInv, [Next]_vars PROVE IInv'
  OBVIOUS
<1>1. CASE UNCHANGED vars
  <2>1. UNCHANGED <<shared, explicit, relays, nat, reservation, listeners, opened,
                    dialing, incoming,
                     conns, direct>>
    BY <1>1 DEF vars
  <2>2. Types'
    BY <2>1 DEF IInv, Types
  <2> QED BY <2>1, <2>2, ConnectionsUntouched, RelaysUntouched DEF IInv
<1>2. CASE \E a \in Bootstrap : BootstrapKademlia(a)
  BY <1>2, BootstrapStep
<1>3. CASE \E p \in Peers : DialPeer(p)
  BY <1>3, DialPeerStep
<1>4. CASE \E a \in dialing, p \in Peers : Established(a, p)
  BY <1>4, EstablishedStep
<1>5. CASE \E a \in dialing : DialFails(a)
  <2>1. /\ dialing' \subseteq dialing
        /\ UNCHANGED <<shared, explicit, relays, nat, reservation, listeners, opened,
                       incoming,
                     conns, direct>>
    BY <1>5 DEF DialFails
  <2>2. Types'
    BY <2>1 DEF IInv, Types
  <2> QED BY <2>1, <2>2, ConnectionsUntouched, RelaysUntouched DEF IInv
<1>6. CASE \E l \in Locals, r \in Remotes : PendingInbound(l, r)
  <2>1. PICK l \in Locals, r \in Remotes : PendingInbound(l, r)
    BY <1>6
  <2>2. l \in Addrs /\ r \in Addrs
    BY OutsideAssumption DEF Locals
  <2>3. /\ incoming' = {[local |-> l, remote |-> r]}
        /\ UNCHANGED <<shared, explicit, relays, nat, reservation, listeners, opened,
                       dialing, conns, direct>>
    BY <2>1 DEF PendingInbound
  <2>4. Types'
    BY <2>2, <2>3 DEF IInv, Types
  <2> QED BY <2>3, <2>4, ConnectionsUntouched, RelaysUntouched DEF IInv
<1>7. CASE \E i \in incoming, p \in Peers : EstablishedInbound(i, p)
  BY <1>7, EstablishedInboundStep
<1>8. CASE \E i \in 1 .. MaxConns : ConnectionClosed(i)
  <2>1. PICK i \in 1 .. MaxConns : ConnectionClosed(i)
    BY <1>8
  <2>2. /\ conns' \in [1 .. MaxConns -> Records] /\ direct' \in [Peers -> Nat]
        /\ DirectIsExact' /\ ContactsAreListed'
    BY <2>1, CloseKeeps DEF IInv
  <2>3. UNCHANGED <<shared, explicit, relays, nat, reservation, listeners, opened,
                    dialing, incoming>>
    BY <2>1 DEF ConnectionClosed
  <2>4. Types'
    BY <2>2, <2>3 DEF IInv, Types
  <2> QED BY <2>2, <2>3, <2>4, RelaysUntouched DEF IInv
<1>9. CASE \E o \in Offers : MdnsDiscovered(o[1], o[2])
  BY <1>9, MdnsStep
<1>10. CASE \E p \in Peers : MdnsExpired(p) \/ RoutingUpdated(p)
  <2>1. PICK p \in Peers : MdnsExpired(p) \/ RoutingUpdated(p)
    BY <1>10
  <2>2. /\ explicit' \subseteq explicit \cup {p}
        /\ UNCHANGED <<shared, relays, nat, reservation, listeners, opened, dialing,
                       incoming,
                     conns, direct>>
    BY <2>1 DEF MdnsExpired, RoutingUpdated
  <2>3. Types'
    BY <2>2 DEF IInv, Types
  <2> QED BY <2>2, <2>3, ConnectionsUntouched, RelaysUntouched DEF IInv
<1>11. CASE \E p \in Peers : \E A \in SUBSET AddrsOf(p) : IdentifyReceived(p, A)
  BY <1>11, IdentifyStep
<1>12. CASE StatusPublic \/ StatusUnknown
  <2>1. /\ nat' \in {"unknown", "public", "private"}
        /\ reservation' = reservation \/ reservation' = Idle
        /\ UNCHANGED <<shared, explicit, relays, listeners, opened, dialing, incoming,
                       conns, direct>>
    BY <1>12 DEF StatusPublic, StatusUnknown
  <2>2. Types'
    BY <2>1 DEF IInv, Types
  <2>3. ActiveIsReachable' /\ NoRefusedAddressKept'
    BY <2>1 DEF IInv, ActiveIsReachable, NoRefusedAddressKept, Idle
  <2> QED BY <2>1, <2>2, <2>3, ConnectionsUntouched DEF IInv
<1>13. CASE StatusPrivate
  BY <1>13, PrivateStep
<1>14. CASE \E l \in listeners : ReservationAccepted(l)
  BY <1>14, AcceptedStep
<1>15. CASE \E l \in listeners : ListenerClosed(l)
  BY <1>15, ClosedStep
<1> QED BY <1>1, <1>2, <1>3, <1>4, <1>5, <1>6, <1>7, <1>8, <1>9, <1>10, <1>11, <1>12,
           <1>13, <1>14, <1>15 DEF Next

\* The direct connections are exactly the ones counted.
LEMMA IInvIsExact == IInv => BooksAreExact
<1> SUFFICES ASSUME IInv PROVE BooksAreExact
  OBVIOUS
<1>1. direct \in [Peers -> 0 .. MaxConns]
  <2>1. ASSUME NEW p \in Peers PROVE direct[p] \in 0 .. MaxConns
    BY DirectToIsFinite DEF IInv, DirectIsExact, DirectTo
  <2> QED BY <2>1 DEF IInv, Types
<1>2. \A i \in 1 .. MaxConns : conns[i].peer \in Peers \cup {None}
  BY DEF IInv, Types, Records
<1>3. \A l \in listeners : l.peer \in Peers /\ l.id < opened
  BY DEF IInv, Types
<1>4. TypeOK
  BY <1>1, <1>2, <1>3 DEF IInv, Types, TypeOK
<1> QED BY <1>4 DEF IInv, BooksAreExact

\* IInv holds in every reachable state.
THEOREM Invariance == Spec => []IInv
<1> QED BY InitIInv, NextIInv, PTL DEF Spec

\* Whatever order connections open, close and upgrade in, the count that decides
\* about a direct dial is the number of open direct connections, and a
\* reservation counts as active only while an accepted listener on its confirmed
\* relay is open (swarm.rs, nat.rs).
THEOREM BooksExact == Spec => []BooksAreExact
<1> QED BY Invariance, IInvIsExact, PTL

\* Whatever is heard from whomever, every open connection is to a machine the
\* allow-list names and every kept address is one it admits (policy.rs, gate.rs).
THEOREM PolicyKept == Spec => []PolicyHolds
<1>1. IInv => PolicyHolds
  BY DEF IInv, PolicyHolds
<1> QED BY <1>1, Invariance, PTL

---------------------------------------------------------------------------
(* Discovery. *)

\* While a wait runs, and when it has ended, discovery and the resolver agree
\* on the archives waited for.
MapsAgree ==
  /\ dpc \in {"check", "select", "ended"} => required \cap alive = required \cap resolver
  /\ dpc = "ended" => /\ verdict.missing = required \ alive
                      /\ verdict.how = "complete" => required \ alive = {}

\* What a discovery wait keeps.
DiscoveryTypes ==
  /\ dpc \in {"off", "start", "check", "select", "ended", "refused", "pushing"}
  /\ required \subseteq DPeers /\ resolver \subseteq DPeers /\ connected \subseteq DPeers
  /\ queue \in Seq([kind : {"PeerIdentified", "PeerDisconnected"}, peer : DPeers])
  /\ verdict.how \in {"none", "complete", "timedout", "closed"}

\* The inductive invariant of the discovery waits.
DiscoveryInv == DiscoveryTypes /\ MapsAgree

\* A wait that begins takes what the resolver knows.
LEMMA WaitBegins ==
  ASSUME DiscoveryInv, NEW stage, NEW need, need \subseteq DPeers, BeginWait(stage, need),
         UNCHANGED << connected, queue, resolver >>
  PROVE  DiscoveryInv'
  BY DEF DiscoveryInv, DiscoveryTypes, MapsAgree, BeginWait, seed, resolve

\* Every step of the waits, of the stages and of the network keeps it.
LEMMA DiscoveryStep ==
  ASSUME DiscoveryInv, DiscoveryNext
  PROVE  DiscoveryInv'
<1> USE DEF DiscoveryInv, DiscoveryTypes, MapsAgree
<1>1. CASE S1a
  <2>1. PICK s \in Snapshots :
          IF Len(s) < DR
          THEN /\ dpc' = "refused" /\ UNCHANGED << dstage, required, alive, late, verdict >>
          ELSE BeginWait("s1a", required_archives(DScore, s, DChunks, DR))
    BY <1>1 DEF S1a
  <2>2. required_archives(DScore, s, DChunks, DR) \subseteq DPeers
    BY DiscoveryAssumption DEF DChunks
  <2>3. UNCHANGED << connected, queue, resolver >>
    BY <1>1 DEF S1a
  <2>4. CASE Len(s) < DR
    BY <2>1, <2>3, <2>4
  <2>5. CASE ~(Len(s) < DR)
    BY <2>1, <2>2, <2>3, <2>5, WaitBegins
  <2> QED BY <2>4, <2>5
<1>2. CASE AfterS1a
  <2>1. UNCHANGED << connected, queue, resolver >>
    BY <1>2 DEF AfterS1a
  <2>2. CASE verdict.how # "complete"
    BY <1>2, <2>2 DEF AfterS1a
  <2>3. CASE verdict.how = "complete"
    <3>1. PICK s \in Snapshots : BeginWait("s2", required_archives(DScore, s, DChunks, DR))
      BY <1>2, <2>3 DEF AfterS1a
    <3>2. required_archives(DScore, s, DChunks, DR) \subseteq DPeers
      BY DiscoveryAssumption DEF DChunks
    <3> QED BY <2>1, <3>1, <3>2, WaitBegins
  <2> QED BY <2>2, <2>3
<1>3. CASE ResolveTargets
  BY <1>3 DEF ResolveTargets
<1>4. CASE Status
  BY <1>4 DEF Status, EndWait, Missing
<1>5. CASE NextEvent
  <2> DEFINE e == Head(queue)
  <2>1. /\ e \in [kind : {"PeerIdentified", "PeerDisconnected"}, peer : DPeers]
        /\ Tail(queue) \in Seq([kind : {"PeerIdentified", "PeerDisconnected"}, peer : DPeers])
    BY <1>5, HeadTailProperties DEF NextEvent
  <2>2. CASE e.kind = "PeerIdentified"
    BY <1>5, <2>1, <2>2 DEF NextEvent, apply_peer_event
  <2>3. CASE e.kind # "PeerIdentified"
    BY <1>5, <2>1, <2>3 DEF NextEvent, apply_peer_event
  <2> QED BY <2>2, <2>3
<1>6. CASE NetworkClosed
  BY <1>6 DEF NetworkClosed, EndWait, Missing
<1>7. CASE Timer \/ DeadlinePasses \/ SwarmStops
  BY <1>7 DEF Timer, DeadlinePasses, SwarmStops
<1>8. ASSUME NEW p \in DPeers, Identify(p) \/ Disconnect(p) PROVE DiscoveryInv'
  <2> DEFINE Event == [kind : {"PeerIdentified", "PeerDisconnected"}, peer : DPeers]
  <2>1. PICK e \in Event : queue' = Append(queue, e) \/ queue' = queue
    <3>1. CASE Identify(p)
      BY <1>8, <3>1 DEF Identify, Announce
    <3>2. CASE Disconnect(p)
      BY <1>8, <3>2 DEF Disconnect, Announce
    <3> QED BY <1>8, <3>1, <3>2
  <2>2. queue' \in Seq(Event)
    <3>1. queue \in Seq(Event)
      OBVIOUS
    <3> HIDE DEF Event
    <3> QED BY <2>1, <3>1, AppendProperties
  <2> QED BY <1>8, <2>2 DEF Identify, Disconnect
<1> QED BY <1>1, <1>2, <1>3, <1>4, <1>5, <1>6, <1>7, <1>8 DEF DiscoveryNext, DiscoverySteps

---------------------------------------------------------------------------
(* Upload. *)

\* The archives a chunk is assigned to.
Assignees(i) == ToSet(nodes_for_chunk(Plan, i))

\* What an upload keeps: an awaited push is one of the slice at hand.
UploadTypes ==
  /\ upc \in {"off", "start", "slice", "wait", "result", "ended"}
  /\ result \in {"none", "ok", "aborted", "NoEligibleTargets", "Timeout",
                 "FailedPushes", "IncompleteConfirmations"}
  /\ upc # "off" => ucase \in UploadCases
  /\ upos \in Nat /\ failures \in Nat /\ timeout \in BOOLEAN
  /\ upc \in {"slice", "wait"} => ~NoTargets
  /\ upc \in {"start", "slice", "result"} => pending = {}
  /\ upc = "wait" => \A x \in pending : \E i \in SliceNow, a \in ToSet(ucase.nodes) :
                                           x = << CidOf(i), a >>

\* What is answered well is stored; as long as nothing failed, what was pushed
\* is stored or still awaited; and success is of an upload all of whose slices
\* were pushed.
PushedIsStored ==
  /\ \A m \in answers : m[3] => << CidOf(m[1]), m[2] >> \in stored
  /\ failures = 0 /\ ~timeout /\ upc \in {"slice", "wait", "result"} =>
       \A i \in UChunks :
         i < upos \/ (upc = "wait" /\ i \in SliceNow) =>
           \A a \in Assignees(i) : << CidOf(i), a >> \in stored \cup pending
  /\ upc = "start" => upos = 0
  /\ upc = "result" => NoTargets \/ timeout \/ Count <= upos
  /\ upc \notin {"ended"} => result = "none"
  /\ SuccessIsReplicated

\* The inductive invariant of an upload.
UploadInv == UploadTypes /\ PushedIsStored

\* The image of a finite set is finite and not larger.
LEMMA ImageIsFinite ==
  ASSUME NEW S, IsFiniteSet(S), NEW f
  PROVE  /\ IsFiniteSet({f[x] : x \in S})
         /\ Cardinality({f[x] : x \in S}) <= Cardinality(S)
<1> DEFINE T == {f[x] : x \in S}
           g == [x \in S |-> f[x]]
<1>1. g \in Surjection(S, T)
  BY DEF Surjection
<1> QED BY <1>1, FS_Surjection

\* What the assumption says of the upload that runs: chunks, slice and nodes are
\* finite, and with targets every chunk has assignees among the nodes.
LEMMA UploadFacts ==
  ASSUME UploadTypes, upc # "off"
  PROVE  /\ Count \in Nat /\ UChunks = 0..(Count - 1) /\ IsFiniteSet(UChunks)
         /\ ucase.slice \in Nat \ {0}
         /\ IsFiniteSet(ToSet(ucase.nodes))
         /\ ~NoTargets => \A i \in UChunks :
              nodes_for_chunk(Plan, i) \in Seq(ToSet(ucase.nodes)) \ {<< >>}
<1>1. ucase \in UploadCases
  BY DEF UploadTypes
<1>2. /\ ucase.cids \in Seq(Nat) /\ ucase.nodes \in Seq(Nat) /\ ucase.slice \in Nat \ {0}
  BY <1>1, UploadAssumption
<1>3. Count \in Nat /\ UChunks = 0..(Count - 1)
  BY <1>2, LenProperties DEF Count, UChunks
<1>4. IsFiniteSet(UChunks)
  BY <1>3, FS_Interval
<1>5. IsFiniteSet(ToSet(ucase.nodes))
  <2>1. IsFiniteSet(1 .. Len(ucase.nodes))
    BY <1>2, LenProperties, FS_Interval
  <2>2. ToSet(ucase.nodes) = {ucase.nodes[i] : i \in 1 .. Len(ucase.nodes)}
    BY <1>2, LenProperties DEF ToSet
  <2> QED BY <2>1, <2>2, ImageIsFinite
<1>6. ASSUME ~NoTargets PROVE \A i \in UChunks :
              nodes_for_chunk(Plan, i) \in Seq(ToSet(ucase.nodes)) \ {<< >>}
  <2>1. ucase.r # 0 /\ ucase.nodes # << >>
    BY <1>6 DEF NoTargets
  <2> QED BY <1>1, <2>1, UploadAssumption DEF Plan, Count, UChunks
<1> QED BY <1>2, <1>3, <1>4, <1>5, <1>6

\* The elements of a sequence over a set are in the set.
LEMMA SeqElements ==
  ASSUME NEW S, NEW s \in Seq(S)
  PROVE  ToSet(s) \subseteq S
  BY ElementOfSeq DEF ToSet

\* A slice has at most slice chunks.
LEMMA SliceIsBounded ==
  ASSUME UploadTypes, upc # "off"
  PROVE  IsFiniteSet(SliceNow) /\ Cardinality(SliceNow) <= ucase.slice
<1>1. ucase.slice \in Nat \ {0} /\ upos \in Nat
  BY UploadFacts DEF UploadTypes
<1> DEFINE I == upos .. (upos + ucase.slice - 1)
<1>2. SliceNow \in SUBSET I
  BY <1>1, UploadFacts DEF SliceNow
<1>3. IsFiniteSet(I) /\ Cardinality(I) = ucase.slice
  <2>1. PICK b : b = upos + ucase.slice - 1
    OBVIOUS
  <2>2. upos \in Int /\ b \in Int /\ ~(upos > b) /\ b - upos + 1 = ucase.slice
    BY <1>1, <2>1
  <2>3. IsFiniteSet(upos .. b) /\ Cardinality(upos .. b) = b - upos + 1
    BY <2>2, FS_Interval
  <2> QED BY <2>1, <2>2, <2>3
<1> QED BY <1>2, <1>3, FS_Subset

\* What a slice pushes is finite, and so is what it awaits.
LEMMA PendingIsFinite ==
  ASSUME UploadTypes, upc = "wait"
  PROVE  /\ IsFiniteSet(pending)
         /\ Cardinality({t[1] : t \in pending}) <= ucase.slice
<1> DEFINE f == [i \in SliceNow |-> CidOf(i)]
           C == {f[i] : i \in SliceNow}
           D == {t[1] : t \in pending}
<1>1. IsFiniteSet(SliceNow) /\ Cardinality(SliceNow) <= ucase.slice /\ ucase.slice \in Nat
  BY SliceIsBounded, UploadFacts
<1>2. /\ IsFiniteSet(C) /\ Cardinality(C) <= Cardinality(SliceNow)
      /\ Cardinality(C) \in Nat /\ Cardinality(SliceNow) \in Nat
  BY <1>1, ImageIsFinite, FS_CardinalityType
<1>3. pending \in SUBSET (C \X ToSet(ucase.nodes))
  BY DEF UploadTypes
<1>4. IsFiniteSet(C \X ToSet(ucase.nodes))
  BY <1>2, UploadFacts, FS_Product
<1>5. D \in SUBSET C
  BY <1>3
<1>6. IsFiniteSet(D) /\ Cardinality(D) <= Cardinality(C) /\ Cardinality(D) \in Nat
  BY <1>2, <1>5, FS_Subset, FS_CardinalityType
<1>7. IsFiniteSet(pending)
  BY <1>3, <1>4, FS_Subset
<1> QED BY <1>1, <1>2, <1>6, <1>7

\* Pushing a slice (each push sent, unreachable or failed at once) keeps the invariant.
LEMMA PushSliceStep ==
  ASSUME UploadInv, PushSlice
  PROVE  UploadInv'
<1> DEFINE all == UNION {{i} \X ToSet(nodes_for_chunk(Plan, i)) : i \in SliceNow}
           reachable == {t \in all : t[2] \in ucase.known}
<1>1. PICK sent \in SUBSET reachable :
        /\ pending' = {<< CidOf(t[1]), t[2] >> : t \in sent}
        /\ failures' = failures + Cardinality(all \ sent)
  BY DEF PushSlice
<1>2. /\ upc = "slice" /\ upc' = "wait"
      /\ UNCHANGED << ucase, upos, timeout, answers, stored, result >>
  BY DEF PushSlice
<1>3. SliceNow \in SUBSET UChunks /\ ~NoTargets
  BY <1>2 DEF SliceNow, UploadInv, UploadTypes
<1>4. ASSUME NEW i \in UChunks PROVE ToSet(nodes_for_chunk(Plan, i)) \subseteq ToSet(ucase.nodes)
  <2>1. nodes_for_chunk(Plan, i) \in Seq(ToSet(ucase.nodes))
    BY <1>2, <1>3, UploadFacts DEF UploadInv
  <2> QED BY <2>1, SeqElements
<1>5. all \in SUBSET (SliceNow \X ToSet(ucase.nodes))
  BY <1>3, <1>4
<1>6. IsFiniteSet(SliceNow \X ToSet(ucase.nodes))
  BY <1>2, UploadFacts, SliceIsBounded, FS_Product DEF UploadInv
<1>7. IsFiniteSet(all \ sent) /\ Cardinality(all \ sent) \in Nat
  BY <1>5, <1>6, FS_Subset, FS_Difference, FS_CardinalityType
<1>8. UNCHANGED << SliceNow, UChunks, Plan, NoTargets, Count >> /\ \A i : UNCHANGED << CidOf(i), Assignees(i) >>
  BY <1>2 DEF SliceNow, UChunks, Plan, NoTargets, Count, CidOf, Assignees
<1>9. UploadTypes'
  <2>1. ASSUME NEW x \in pending' PROVE \E i \in SliceNow, a \in ToSet(ucase.nodes) : x = << CidOf(i), a >>
    <3>1. PICK t \in sent : x = << CidOf(t[1]), t[2] >>
      BY <1>1, <2>1
    <3>2. t \in SliceNow \X ToSet(ucase.nodes)
      BY <1>5, <3>1
    <3> QED BY <3>1, <3>2
  <2> QED BY <1>1, <1>2, <1>3, <1>7, <1>8, <2>1 DEF UploadInv, UploadTypes
<1>10. ASSUME failures' = 0, ~timeout', NEW i \in UChunks, i < upos \/ i \in SliceNow, NEW a \in Assignees(i)
       PROVE  << CidOf(i), a >> \in stored \cup pending'
  <2>1. failures = 0 /\ Cardinality(all \ sent) = 0
    BY <1>1, <1>7, <1>10 DEF UploadInv, UploadTypes
  <2>2. all \ sent = {}
    BY <2>1, <1>7, FS_EmptySet
  <2>3. CASE i < upos
    BY <1>2, <1>10, <2>1, <2>3 DEF UploadInv, UploadTypes, PushedIsStored
  <2>4. CASE i \in SliceNow
    <3>1. << i, a >> \in all
      BY <1>10, <2>4 DEF Assignees
    <3>2. << i, a >> \in sent
      BY <2>2, <3>1
    <3> QED BY <1>1, <3>2
  <2> QED BY <1>10, <2>3, <2>4
<1>11. PushedIsStored'
  <2>1. SuccessIsReplicated'
    BY <1>2, <1>8 DEF UploadInv, PushedIsStored, SuccessIsReplicated
  <2>2. \A m \in answers' : m[3] => << CidOf(m[1]), m[2] >>' \in stored'
    BY <1>2, <1>8 DEF UploadInv, PushedIsStored
  <2> QED BY <1>2, <1>8, <1>10, <2>1, <2>2 DEF UploadInv, PushedIsStored
<1> QED BY <1>9, <1>11 DEF UploadInv

\* An answer taken moves a push from awaited to stored, or counts a failure.
LEMMA AnswerStep ==
  ASSUME UploadInv, NEW m \in answers, ShardReceived(m)
  PROVE  UploadInv'
<1> DEFINE t == << CidOf(m[1]), m[2] >>
<1>1. /\ upc = "wait" /\ pending' = pending \ {t} /\ answers' = answers \ {m}
      /\ failures' = IF t \in pending /\ ~m[3] THEN failures + 1 ELSE failures
      /\ UNCHANGED << ucase, upc, upos, timeout, stored, result >>
  BY DEF ShardReceived
<1>2. UNCHANGED << SliceNow, UChunks, Plan, NoTargets, Count >> /\ \A i : UNCHANGED << CidOf(i), Assignees(i) >>
  BY <1>1 DEF SliceNow, UChunks, Plan, NoTargets, Count, CidOf, Assignees
<1>3. UploadTypes'
  BY <1>1, <1>2 DEF UploadInv, UploadTypes
<1>4. failures' = 0 => failures = 0 /\ (t \in stored \/ t \notin pending)
  BY <1>1 DEF UploadInv, UploadTypes, PushedIsStored
<1>5. SuccessIsReplicated'
  BY <1>1, <1>2 DEF UploadInv, PushedIsStored, SuccessIsReplicated
<1>6. ASSUME failures' = 0, ~timeout', NEW i \in UChunks, i < upos \/ i \in SliceNow, NEW a \in Assignees(i)
      PROVE  << CidOf(i), a >> \in stored \cup pending'
  <2>1. << CidOf(i), a >> \in stored \cup pending
    BY <1>1, <1>4, <1>6 DEF UploadInv, PushedIsStored
  <2> QED BY <1>1, <1>4, <1>6, <2>1
<1>7. PushedIsStored'
  BY <1>1, <1>2, <1>5, <1>6 DEF UploadInv, PushedIsStored
<1> QED BY <1>3, <1>7 DEF UploadInv

\* The nodes only add to what is stored.
LEMMA NodesKeep ==
  ASSUME UploadInv, stored \subseteq stored',
         UNCHANGED << ucase, upc, upos, pending, failures, timeout, result >>,
         \A m \in answers' : m[3] => m \in answers \/ << CidOf(m[1]), m[2] >> \in stored'
  PROVE  UploadInv'
<1>1. UNCHANGED << SliceNow, UChunks, Plan, NoTargets, Count >> /\ \A i : UNCHANGED << CidOf(i), Assignees(i) >>
  BY DEF SliceNow, UChunks, Plan, NoTargets, Count, CidOf, Assignees
<1>2. UploadTypes'
  BY <1>1 DEF UploadInv, UploadTypes
<1>3. SuccessIsReplicated'
  BY <1>1 DEF UploadInv, PushedIsStored, SuccessIsReplicated
<1>4. PushedIsStored'
  BY <1>1, <1>3 DEF UploadInv, PushedIsStored
<1> QED BY <1>2, <1>4 DEF UploadInv

\* What check_success calls ok is stored everywhere.
LEMMA ResultStep ==
  ASSUME UploadInv, UploadResult
  PROVE  UploadInv'
<1>1. /\ upc = "result" /\ upc' = "ended" /\ result' = check_success
      /\ UNCHANGED << ucase, upos, pending, failures, timeout, answers, stored >>
  BY DEF UploadResult
<1>2. UNCHANGED << SliceNow, UChunks, Plan, NoTargets, Count >> /\ \A i : UNCHANGED << CidOf(i), Assignees(i) >>
  BY <1>1 DEF SliceNow, UChunks, Plan, NoTargets, Count, CidOf, Assignees
<1>3. result' \in {"ok", "NoEligibleTargets", "Timeout", "FailedPushes", "IncompleteConfirmations"}
  BY <1>1 DEF check_success
<1>4. UploadTypes'
  BY <1>1, <1>2, <1>3 DEF UploadInv, UploadTypes
<1>5. ASSUME result' = "ok", NEW i \in UChunks
      PROVE  /\ Len(nodes_for_chunk(Plan, i)) > 0
             /\ \A a \in ToSet(nodes_for_chunk(Plan, i)) : << CidOf(i), a >> \in stored
  <2>1. ~NoTargets /\ ~timeout /\ ~(failures > 0)
    BY <1>1, <1>5 DEF check_success
  <2>2. failures = 0 /\ pending = {} /\ Count <= upos
    BY <1>1, <2>1 DEF UploadInv, UploadTypes, PushedIsStored
  <2>3. i < upos
    BY <1>1, <2>2, UploadFacts DEF UploadInv, UploadTypes
  <2>4. nodes_for_chunk(Plan, i) \in Seq(ToSet(ucase.nodes)) \ {<< >>}
    BY <1>1, <2>1, UploadFacts DEF UploadInv
  <2>5. Len(nodes_for_chunk(Plan, i)) > 0
    BY <2>4, EmptySeq, LenProperties
  <2> QED BY <1>1, <2>1, <2>2, <2>3, <2>5 DEF UploadInv, PushedIsStored, Assignees
<1>6. PushedIsStored'
  BY <1>1, <1>2, <1>5 DEF UploadInv, PushedIsStored, SuccessIsReplicated
<1> QED BY <1>4, <1>6 DEF UploadInv

\* Every step of an upload keeps its invariant.
LEMMA UploadStep ==
  ASSUME UploadInv, UploadNext
  PROVE  UploadInv'
<1>1. CASE PushSlice
  BY <1>1, PushSliceStep
<1>2. CASE UploadResult
  BY <1>2, ResultStep
<1>3. CASE \E m \in answers : ShardReceived(m)
  BY <1>3, AnswerStep
<1>4. CASE \E t \in inflight : AnswerLost(t) \/ \E ok \in BOOLEAN : NodeAnswers(t, ok)
  <2>1. stored \subseteq stored' /\ UNCHANGED << ucase, upc, upos, pending, failures, timeout, result >>
    BY <1>4 DEF AnswerLost, NodeAnswers
  <2>2. \A m \in answers' : m[3] => m \in answers \/ << CidOf(m[1]), m[2] >> \in stored'
    BY <1>4 DEF AnswerLost, NodeAnswers
  <2> QED BY <2>1, <2>2, NodesKeep
<1>5. CASE UploadStart \/ SliceDone \/ UploadTimeout \/ MissingChunk \/ UploadClosed
  <2>1. UNCHANGED << ucase, answers, stored >>
    BY <1>5 DEF UploadStart, SliceDone, UploadTimeout, MissingChunk, UploadClosed
  <2>2. UNCHANGED << UChunks, Plan, NoTargets, Count >> /\ \A i : UNCHANGED << CidOf(i), Assignees(i) >>
    BY <2>1 DEF UChunks, Plan, NoTargets, Count, CidOf, Assignees
  <2>3. upc \in {"start", "slice", "wait"}
    BY <1>5 DEF UploadStart, SliceDone, UploadTimeout, MissingChunk, UploadClosed
  <2>4. /\ Count \in Nat /\ UChunks = 0..(Count - 1) /\ ucase.slice \in Nat \ {0}
    BY <2>3, UploadFacts DEF UploadInv
  <2>5. upc = "wait" => IsFiniteSet(pending) /\ Cardinality(pending) \in Nat
    BY PendingIsFinite, FS_CardinalityType DEF UploadInv
  <2>6. result' = "ok" => result = "ok"
    BY <1>5 DEF UploadStart, SliceDone, UploadTimeout, MissingChunk, UploadClosed
  <2>7. SuccessIsReplicated'
    BY <2>1, <2>2, <2>6 DEF UploadInv, PushedIsStored, SuccessIsReplicated
  <2>0. \A m \in answers' : m[3] => << CidOf(m[1]), m[2] >>' \in stored'
    BY <2>1, <2>2 DEF UploadInv, PushedIsStored
  <2>8. UploadTypes'
    <3>1. CASE UploadStart
      BY <3>1, <2>2 DEF UploadInv, UploadTypes, UploadStart
    <3>2. CASE SliceDone
      BY <3>2, <2>2, <2>4 DEF UploadInv, UploadTypes, SliceDone
    <3>3. CASE UploadTimeout
      BY <3>3, <2>2, <2>5 DEF UploadInv, UploadTypes, UploadTimeout
    <3>4. CASE MissingChunk
      BY <3>4, <2>2 DEF UploadInv, UploadTypes, MissingChunk
    <3>5. CASE UploadClosed
      BY <3>5, <2>2 DEF UploadInv, UploadTypes, UploadClosed
    <3> QED BY <1>5, <3>1, <3>2, <3>3, <3>4, <3>5
  <2>9. CASE UploadStart
    BY <2>9, <2>1, <2>2, <2>4, <2>7 DEF UploadInv, UploadTypes, PushedIsStored, UploadStart
  <2>10. CASE SliceDone
    <3>1. \A i \in UChunks : i < upos + ucase.slice => i < upos \/ i \in SliceNow
      BY <2>4 DEF SliceNow, UploadInv, UploadTypes
    <3> QED BY <2>10, <2>1, <2>2, <2>4, <2>7, <3>1 DEF UploadInv, UploadTypes, PushedIsStored, SliceDone
  <2>11. CASE UploadTimeout
    <3>1. /\ upc' = "result" /\ timeout' = TRUE /\ result' = "none"
      BY <2>11 DEF UploadTimeout, UploadInv, PushedIsStored
    <3> QED BY <3>1, <2>0, <2>7, <2>8 DEF PushedIsStored, UploadInv
  <2>12. CASE MissingChunk \/ UploadClosed
    <3>1. upc' = "ended"
      BY <2>12 DEF MissingChunk, UploadClosed
    <3> QED BY <3>1, <2>0, <2>7, <2>8 DEF PushedIsStored, UploadInv
  <2> QED BY <1>5, <2>8, <2>9, <2>10, <2>11, <2>12 DEF UploadInv
<1> QED BY <1>1, <1>2, <1>3, <1>4, <1>5 DEF UploadNext, UploadSteps

---------------------------------------------------------------------------
(* Commands. *)

\* Where a command can be.
Places ==
  {"off", "start", "preflight", "net", "params", "stage", "run", "pending", "report",
   "shutdown", "store", "serve", "output", "row", "route", "factor", "get", "peer", "fetch",
   "done", "killed"}

\* The exit codes of the commands.
Codes == {0, 1, 3, 4, 5, 6, 7, 8}

\* The records a command keeps.
Processes ==
  [pc : Places, params : [r : Nat, live : BOOLEAN] \cup {Absent}, outcome : Outcomes \cup {Absent},
   code : Codes,
   printed : [root : BOOLEAN, lifecycle : Lifecycles \cup {Absent}],
   staged : BOOLEAN, net : BOOLEAN, route : Routes \cup {Absent},
   blind : BOOLEAN, mine : BOOLEAN, retries : 0..MaxRetries, asked : Nat]

\* The places that belong to one command, or to some.
PlaceFits(s, c) ==
  /\ s.pc \in {"output", "row", "route", "factor", "get"} => c.cmd = "download"
  /\ s.pc \in {"peer", "fetch"} => c.cmd = "fetch"
  /\ s.pc = "serve" => c.cmd = "listen"
  /\ s.pc = "net" => c.cmd # "abandon"
  /\ s.pc = "store" => c.cmd \notin NeedsKey
  /\ s.pc \in {"preflight", "pending"} => c.cmd \in {"ingest", "resume"}
  /\ s.pc = "stage" => c.cmd = "ingest"
  /\ s.pc \in {"params", "run", "report"} => c.cmd \in NeedsKey

\* What a run has sent it sent with targets, and with the chain's parameters
\* where the profile asks for them.
SentFits(s, c, ch, sent) ==
  /\ s.params # Absent /\ s.params.live => s.params.r = ch.r
  /\ s.pc \in {"stage", "run"} \/ (s.pc = "net" /\ c.cmd = "repush") => s.params # Absent
  /\ c.profile = "production" /\ c.cmd \in NeedsKey => s.params = Absent \/ s.params.live
  /\ s.mine \/ sent =>
       /\ c.cmd = "ingest" /\ s.params # Absent /\ s.params.r > 0
       /\ s.pc \in {"pending", "report", "shutdown", "done", "killed"}

\* What a pipeline returned is so.
OutcomeFits(s, c, ch, sent) ==
  /\ s.pc = "pending" => ch.row # "none" /\ (c.cmd = "ingest" => s.mine)
  /\ s.pc \notin {"report", "shutdown", "done", "killed"} => s.outcome = Absent
  /\ s.pc = "report" => s.outcome # Absent
  /\ s.pc \in {"report", "shutdown"} /\ c.cmd = "ingest" => s.outcome # Absent
  /\ s.outcome # Absent =>
       /\ s.outcome.kind \in {"Activated", "ActivatedOnChain"} => ch.row = "active"
       /\ s.outcome.kind = "AbandonedOnChain" => ch.row = "abandoned"
       /\ s.outcome.kind = "PendingNeedsAction" => ch.row # "none"
       /\ s.outcome.kind = "Failed" /\ s.outcome.tx # "Unconfirmed" => ~s.mine /\ ~sent
       /\ c.cmd = "ingest" => s.outcome.kind \in {"Failed", "PendingNeedsAction", "Activated"}

\* What a command reported is so.
ReportFits(s, c, ch, sent) ==
  /\ s.printed.lifecycle = "Active" => ch.row = "active"
  /\ s.printed.lifecycle = "Abandoned" => ch.row = "abandoned"
  /\ s.printed.lifecycle = "Pending" => ch.row # "none"
  /\ s.pc \in {"shutdown", "done"} /\ c.cmd = "ingest" /\ c.status =>
       /\ s.code = 7 => ch.row # "none" \/ ch.v1
       /\ s.code = 6 => ~s.mine /\ ~sent
       /\ sent \/ s.mine => s.printed.root \/ s.code = 1
       /\ s.code = 0 => ch.row = "active"

\* What a process has open belongs to where it is.
OpenFits(s, c, ch, leased, mined) ==
  /\ leased => s.pc \in {"factor", "peer", "serve", "get", "fetch", "shutdown"}
  /\ \/ s.pc \in {"start", "preflight", "output", "row", "net"}
     \/ s.pc = "params" /\ c.cmd = "repush"
     => ~s.net
  /\ s.pc = "done" => ~s.staged /\ (s.net => c.cmd = "ingest")
  /\ c.cmd = "download" /\ (s.net \/ s.pc = "net") =>
       /\ s.route = "V2Private" => ch.vis = "private" /\ c.seed
       /\ s.route = "V2Public" => ch.vis = "public"
       /\ s.route \notin {"V2Private", "V2Public"} => s.blind \/ ch.row = "none" \/ mined

\* How the record s of a command told c fits the chain, mempool, leases and mined rows.
Fits(s, c, ch, sent, leased, mined) ==
  /\ PlaceFits(s, c) /\ SentFits(s, c, ch, sent) /\ OutcomeFits(s, c, ch, sent)
  /\ ReportFits(s, c, ch, sent) /\ OpenFits(s, c, ch, leased, mined)

\* Some process got its registration mined.
Mined == \E q \in Procs : proc[q].mine

\* The variables of the commands.
CommandTypes ==
  /\ proc \in [Procs -> Processes] /\ leases \subseteq Procs /\ mempool \subseteq Procs
  /\ faults \in 0..MaxFaults

\* The command lines and the chain are those of a scenario.
Told ==
  /\ told \in [Procs -> CommandLines] /\ chain \in Chains
  /\ \A q \in Procs : told[q].library => told[q].cmd \in {"ingest", "download"}

\* No command runs.
CommandsOff == \A q \in Procs : proc[q] = Fresh("off")

\* The inductive invariant of the commands: each fits what it was told and the
\* chain, and a root's lease has one holder.
CommandInv ==
  /\ CommandTypes
  /\ \/ CommandsOff /\ leases = {} /\ mempool = {}
     \/ /\ Told
        /\ \A q \in Procs : Fits(proc[q], told[q], chain, q \in mempool, q \in leases, Mined)
        /\ \A p, q \in leases : p # q => told[p].root # told[q].root

\* How the row of the file moves.
RowMoves(ch, ch2, mined2) ==
  \/ ch2 = ch
  \/ ch.row = "none" /\ ch2 = [ch EXCEPT !.row = "pending"] /\ mined2
  \/ ch.row = "pending" /\ \E r \in {"active", "abandoned"} : ch2 = [ch EXCEPT !.row = r]

\* A process that takes no step still fits when the row moves.
LEMMA OthersFit ==
  ASSUME NEW s \in Processes, NEW c, NEW ch \in Chains, NEW ch2, NEW sent,
         NEW leased, NEW mined, NEW mined2, mined => mined2,
         Fits(s, c, ch, sent, leased, mined), RowMoves(ch, ch2, mined2)
  PROVE  ch2 \in Chains /\ Fits(s, c, ch2, sent, leased, mined2)
<1>1. ch2 \in Chains /\ ch2.r = ch.r /\ ch2.vis = ch.vis /\ ch2.v1 = ch.v1
  BY DEF RowMoves, Chains
<1>2. /\ ch.row \in {"active", "abandoned"} => ch2.row = ch.row
      /\ ch.row # "none" => ch2.row # "none"
      /\ ch.row = "none" => ch2.row = "none" \/ mined2
  BY DEF RowMoves, Chains
<1>3. PlaceFits(s, c) /\ SentFits(s, c, ch2, sent)
  BY <1>1 DEF Fits, SentFits
<1>4. OutcomeFits(s, c, ch2, sent)
  BY <1>2 DEF Fits, OutcomeFits
<1>5. ReportFits(s, c, ch2, sent)
  BY <1>1, <1>2 DEF Fits, ReportFits
<1>6. OpenFits(s, c, ch2, leased, mined2)
  BY <1>1, <1>2 DEF Fits, OpenFits
<1> QED BY <1>1, <1>3, <1>4, <1>5, <1>6 DEF Fits

\* One process takes a step.
LEMMA OneSteps ==
  ASSUME CommandInv, Told, NEW p \in Procs, proc[p].pc # "off", NEW s \in Processes,
         proc' = [proc EXCEPT ![p] = s], told' = told, faults' \in 0..MaxFaults,
         leases' \subseteq leases \cup {p}, leases \ {p} \subseteq leases',
         mempool' \subseteq mempool \cup {p}, mempool \ {p} \subseteq mempool',
         proc[p].mine => s.mine, RowMoves(chain, chain', Mined'),
         p \in leases' => p \in leases \/ Acquire(p),
         Fits(s, told[p], chain', p \in mempool', p \in leases', Mined')
  PROVE  CommandInv'
<1>1. proc' \in [Procs -> Processes] /\ proc'[p] = s /\ \A q \in Procs \ {p} : proc'[q] = proc[q]
  BY DEF CommandInv, CommandTypes
<1>2. CommandTypes'
  BY <1>1 DEF CommandInv, CommandTypes
<1>3. ~(CommandsOff /\ leases = {} /\ mempool = {})
  BY DEF CommandsOff, Fresh
<1>4. Mined \in BOOLEAN /\ Mined' \in BOOLEAN /\ (Mined => Mined')
  <2>1. ASSUME Mined PROVE Mined'
    <3>1. PICK q \in Procs : proc[q].mine
      BY <2>1 DEF Mined
    <3>2. proc'[q].mine
      BY <1>1, <3>1
    <3> QED BY <3>2 DEF Mined
  <2> QED BY <2>1 DEF Mined
<1>5. ASSUME NEW q \in Procs
      PROVE  chain' \in Chains /\ Fits(proc'[q], told'[q], chain', q \in mempool', q \in leases', Mined')
  <2>1. Fits(proc[q], told[q], chain, q \in mempool, q \in leases, Mined) /\ proc[q] \in Processes
        /\ chain \in Chains
    BY <1>3 DEF CommandInv, CommandTypes, Told
  <2>2. chain' \in Chains /\ Fits(proc[q], told[q], chain', q \in mempool, q \in leases, Mined')
    BY <1>4, <2>1, OthersFit
  <2>3. CASE q = p
    BY <1>1, <2>2, <2>3
  <2>4. CASE q # p
    <3>1. (q \in mempool) = (q \in mempool') /\ (q \in leases) = (q \in leases')
      BY <2>4
    <3> QED BY <1>1, <2>2, <2>4, <3>1
  <2> QED BY <2>3, <2>4
<1>6. Told'
  BY <1>5 DEF Told
<1>7. \A r, q \in leases' : r # q => told'[r].root # told'[q].root
  BY <1>3 DEF CommandInv, Acquire
<1> QED BY <1>2, <1>5, <1>6, <1>7 DEF CommandInv

\* What is known of a process that runs, or ran.
LEMMA ProcessFacts ==
  ASSUME CommandInv, NEW p \in Procs, proc[p].pc # "off"
  PROVE  /\ Told /\ proc[p] \in Processes /\ told[p] \in CommandLines /\ chain \in Chains
         /\ Fits(proc[p], told[p], chain, p \in mempool, p \in leases, Mined)
         /\ told[p].library => told[p].cmd \in {"ingest", "download"}
<1>1. ~(CommandsOff /\ leases = {} /\ mempool = {})
  BY DEF CommandsOff, Fresh
<1> QED BY <1>1 DEF CommandInv, CommandTypes, Told

\* A fault, or none, keeps their count.
LEMMA FaultCounted ==
  ASSUME CommandInv, Fault \/ faults' = faults
  PROVE  faults' \in 0..MaxFaults
  BY CommandsAssumption DEF CommandInv, CommandTypes, Fault

\* A process steps and the chain stays.
LEMMA ProcessMoves ==
  ASSUME CommandInv, NEW p \in Procs, proc[p].pc # "off", NEW s \in Processes, Set(p, s),
         UNCHANGED << told, chain, mempool >>, Fault \/ faults' = faults,
         leases' = leases \/ leases' = leases \ {p}, s.mine = proc[p].mine,
         Fits(s, told[p], chain, p \in mempool, p \in leases', Mined)
  PROVE  CommandInv'
<1>1. proc \in [Procs -> Processes] /\ proc' = [proc EXCEPT ![p] = s]
  BY DEF CommandInv, CommandTypes, Set
<1>2. Mined' = Mined
  <2>1. \A q \in Procs : proc'[q].mine = proc[q].mine
    BY <1>1
  <2> QED BY <2>1 DEF Mined
<1>3. faults' \in 0..MaxFaults
  BY FaultCounted
<1>4. Told
  BY ProcessFacts
<1>5. Fits(s, told[p], chain', p \in mempool', p \in leases', Mined')
  BY <1>2
<1>6. RowMoves(chain, chain', Mined')
  BY DEF RowMoves
<1> QED BY <1>1, <1>3, <1>4, <1>5, <1>6, OneSteps

\* What the end of a command makes of its record.
Ended(r, code, net) ==
  [r EXCEPT !.pc = "done", !.code = code, !.staged = FALSE, !.net = net]

\* The fields of a record that has ended.
LEMMA EndOf ==
  ASSUME NEW r \in Processes, NEW code \in Codes, NEW net \in BOOLEAN
  PROVE  LET s == Ended(r, code, net) IN
         /\ s \in Processes /\ s.pc = "done" /\ s.code = code /\ s.staged = FALSE /\ s.net = net
         /\ s.mine = r.mine /\ s.params = r.params /\ s.outcome = r.outcome
         /\ s.printed = r.printed /\ s.route = r.route /\ s.blind = r.blind
<1>1. "done" \in Places
  BY DEF Places
<1> QED BY <1>1 DEF Ended, Processes

\* The end of a command, by itself or with an error.
LEMMA Finishes ==
  ASSUME CommandInv, NEW p \in Procs, proc[p].pc # "off", NEW net \in BOOLEAN,
         NEW code \in Codes, Set(p, Ended(proc[p], code, net)), leases' = leases \ {p},
         UNCHANGED << told, chain, mempool >>, Fault \/ faults' = faults,
         code = 1 \/ told[p].cmd # "ingest" \/ (code = proc[p].code /\ proc[p].pc = "shutdown"),
         net => told[p].cmd = "ingest"
  PROVE  CommandInv'
<1> DEFINE s == Ended(proc[p], code, net)
<1>1. /\ proc[p] \in Processes /\ told[p] \in CommandLines
      /\ Fits(proc[p], told[p], chain, p \in mempool, p \in leases, Mined)
  BY ProcessFacts
<1>2. /\ s \in Processes /\ s.pc = "done" /\ s.code = code /\ s.staged = FALSE /\ s.net = net
      /\ s.mine = proc[p].mine /\ s.params = proc[p].params /\ s.outcome = proc[p].outcome
      /\ s.printed = proc[p].printed /\ s.route = proc[p].route /\ s.blind = proc[p].blind
  BY <1>1, EndOf
<1>3. Set(p, s) /\ leases' = leases \ {p}
  OBVIOUS
<1> HIDE DEF s
<1>4. PlaceFits(s, told[p])
  BY <1>2 DEF PlaceFits
<1>5. SentFits(s, told[p], chain, p \in mempool)
  BY <1>1, <1>2 DEF Fits, SentFits
<1>6. OutcomeFits(s, told[p], chain, p \in mempool)
  BY <1>1, <1>2 DEF Fits, OutcomeFits
<1>7. ReportFits(s, told[p], chain, p \in mempool)
  BY <1>1, <1>2 DEF Fits, ReportFits
<1>8. OpenFits(s, told[p], chain, p \in leases', Mined)
  BY <1>1, <1>2, <1>3 DEF Fits, OpenFits
<1> QED BY <1>2, <1>3, <1>4, <1>5, <1>6, <1>7, <1>8, ProcessMoves DEF Fits

\* An error returned with ? ends the command with code 1, and it still fits.
LEMMA Bails ==
  ASSUME CommandInv, NEW p \in Procs, proc[p].pc # "off", Bail(p),
         UNCHANGED << told, chain, mempool >>, Fault \/ faults' = faults,
         told[p].cmd = "ingest" \/ ~told[p].library \/ ~proc[p].net
  PROVE  CommandInv'
<1>1. proc[p] \in Processes /\ told[p] \in CommandLines
  BY ProcessFacts
<1>2. PICK net \in BOOLEAN : net = (proc[p].net /\ told[p].library)
  OBVIOUS
<1>3. Set(p, Ended(proc[p], 1, net)) /\ leases' = leases \ {p}
  BY <1>2, Zenon DEF Bail, Finish, Ended
<1>4. 1 \in Codes
  BY DEF Codes
<1> QED BY <1>2, <1>3, <1>4, Finishes

\* Only the place of a process, and what of the rest is given, is new.
Moved(s, r, x) ==
  /\ s.pc = x /\ s.code = r.code /\ s.staged = r.staged /\ s.mine = r.mine
  /\ s.outcome = r.outcome /\ s.printed = r.printed /\ s.route = r.route /\ s.blind = r.blind

\* A process that only goes on to place x keeps the invariant when it fits there.
LEMMA MovesOn ==
  ASSUME CommandInv, NEW p \in Procs, proc[p].pc # "off", NEW x \in Places, Set(p, To(p, x)),
         UNCHANGED << told, chain, mempool >>, Fault \/ faults' = faults,
         leases' = leases \/ leases' = leases \ {p},
         \A s \in Processes :
           Moved(s, proc[p], x) /\ s.net = proc[p].net /\ s.params = proc[p].params
           => Fits(s, told[p], chain, p \in mempool, p \in leases', Mined)
  PROVE  CommandInv'
<1> DEFINE s == To(p, x)
<1>1. proc[p] \in Processes
  BY ProcessFacts
<1>2. /\ s \in Processes /\ Moved(s, proc[p], x)
      /\ s.net = proc[p].net /\ s.params = proc[p].params
  BY <1>1 DEF To, Processes, Moved
<1> HIDE DEF s
<1>3. Fits(s, told[p], chain, p \in mempool, p \in leases', Mined) /\ s.mine = proc[p].mine
  BY <1>2 DEF Moved
<1> QED BY <1>2, <1>3, ProcessMoves DEF s

\* main dispatches the command.
LEMMA DispatchStep ==
  ASSUME CommandInv, NEW p \in Procs, Dispatch(p)
  PROVE  CommandInv'
<1>1. /\ proc[p].pc = "start" /\ UNCHANGED << told, chain, mempool >> /\ faults' = faults
  BY DEF Dispatch
<1>2. /\ Fits(proc[p], told[p], chain, p \in mempool, p \in leases, Mined)
      /\ proc[p] \in Processes /\ told[p] \in CommandLines
      /\ told[p].library => told[p].cmd \in {"ingest", "download"}
  BY <1>1, ProcessFacts
<1>3. ~proc[p].net
  BY <1>1, <1>2 DEF Fits, OpenFits
<1>4. CASE Bail(p)
  BY <1>1, <1>3, <1>4, Bails
<1>5. CASE Set(p, To(p, FirstStep(told[p]))) /\ UNCHANGED leases
  <2> DEFINE x == FirstStep(told[p])
  <2>1. /\ x \in Places
        /\ x \in {"net", "preflight", "params", "output", "row"}
        /\ x \in {"output", "row"} => told[p].cmd = "download"
        /\ x = "preflight" => told[p].cmd \in {"ingest", "resume"}
        /\ x = "params" => told[p].cmd \in NeedsKey
        /\ x = "net" => told[p].cmd \notin {"download", "repush", "abandon"}
    BY <1>2 DEF FirstStep, Places, CommandLines, NeedsKey
  <2> HIDE DEF x
  <2>2. ASSUME NEW s \in Processes, Moved(s, proc[p], x), s.net = proc[p].net,
               s.params = proc[p].params
        PROVE  Fits(s, told[p], chain, p \in mempool, p \in leases, Mined)
    BY <1>1, <1>2, <1>3, <2>1, <2>2
    DEF Moved, Fits, PlaceFits, SentFits, OutcomeFits, ReportFits, OpenFits
  <2> QED BY <1>1, <1>5, <2>1, <2>2, MovesOn DEF x
<1> QED BY <1>4, <1>5 DEF Dispatch

\* The preflight of ingest and resume.
LEMMA PreflightStep ==
  ASSUME CommandInv, NEW p \in Procs, Preflight(p)
  PROVE  CommandInv'
<1>1. /\ proc[p].pc = "preflight" /\ UNCHANGED << told, chain, mempool >>
      /\ Fault \/ faults' = faults
      /\ Bail(p) \/ (Set(p, To(p, "net")) /\ UNCHANGED leases)
  BY DEF Preflight
<1>2. /\ Fits(proc[p], told[p], chain, p \in mempool, p \in leases, Mined)
      /\ proc[p] \in Processes /\ told[p] \in CommandLines
  BY <1>1, ProcessFacts
<1>3. ~proc[p].net /\ told[p].cmd \in {"ingest", "resume"}
  BY <1>1, <1>2 DEF Fits, OpenFits, PlaceFits
<1>4. CASE Bail(p)
  BY <1>1, <1>3, <1>4, Bails
<1>5. CASE Set(p, To(p, "net")) /\ UNCHANGED leases
  <2>1. ASSUME NEW s \in Processes, Moved(s, proc[p], "net"), s.net = proc[p].net,
               s.params = proc[p].params
        PROVE  Fits(s, told[p], chain, p \in mempool, p \in leases, Mined)
    BY <1>1, <1>2, <1>3, <2>1
    DEF Moved, Fits, PlaceFits, SentFits, OutcomeFits, ReportFits, OpenFits
  <2>2. "net" \in Places
    BY DEF Places
  <2> QED BY <1>1, <1>5, <2>1, <2>2, MovesOn
<1> QED BY <1>1, <1>4, <1>5

\* The network opens, or fails to.
LEMMA OpenNetStep ==
  ASSUME CommandInv, NEW p \in Procs, OpenNet(p)
  PROVE  CommandInv'
<1> DEFINE s == [To(p, AfterNet(told[p])) EXCEPT !.net = TRUE]
           x == AfterNet(told[p])
<1>1. /\ proc[p].pc = "net" /\ UNCHANGED << told, chain, mempool >>
      /\ Fault \/ faults' = faults
      /\ Bail(p) \/ (Set(p, s) /\ UNCHANGED leases)
  BY DEF OpenNet
<1>2. /\ Fits(proc[p], told[p], chain, p \in mempool, p \in leases, Mined)
      /\ proc[p] \in Processes /\ told[p] \in CommandLines
  BY <1>1, ProcessFacts
<1>3. ~proc[p].net /\ told[p].cmd # "abandon"
  BY <1>1, <1>2 DEF Fits, OpenFits, PlaceFits
<1>4. CASE Bail(p)
  BY <1>1, <1>3, <1>4, Bails
<1>5. CASE Set(p, s) /\ UNCHANGED leases
  <2>1. /\ x \in Places /\ x \in {"params", "run", "route", "store"}
        /\ x = "params" => told[p].cmd \in {"ingest", "resume"}
        /\ x = "run" => told[p].cmd = "repush"
        /\ x = "route" => told[p].cmd = "download"
        /\ x = "store" => told[p].cmd \notin NeedsKey
    BY <1>2, <1>3 DEF AfterNet, Places, CommandLines, NeedsKey
  <2>2. /\ s \in Processes /\ Moved(s, proc[p], x) /\ s.params = proc[p].params
    BY <1>2, <2>1 DEF To, Processes, Moved
  <2> HIDE DEF x, s
  <2>3. PlaceFits(s, told[p]) /\ SentFits(s, told[p], chain, p \in mempool)
    BY <1>1, <1>2, <2>1, <2>2 DEF Moved, Fits, PlaceFits, SentFits, NeedsKey
  <2>4. OutcomeFits(s, told[p], chain, p \in mempool) /\ ReportFits(s, told[p], chain, p \in mempool)
    BY <1>1, <1>2, <2>1, <2>2 DEF Moved, Fits, OutcomeFits, ReportFits
  <2>5. OpenFits(s, told[p], chain, p \in leases, Mined)
    BY <1>1, <1>2, <2>1, <2>2 DEF Moved, Fits, OpenFits
  <2> QED BY <1>1, <1>5, <2>2, <2>3, <2>4, <2>5, ProcessMoves DEF Moved, Fits
<1> QED BY <1>1, <1>4, <1>5

\* The chain parameters are read, defaulted or refused.
LEMMA ParamsStep ==
  ASSUME CommandInv, NEW p \in Procs, Params(p)
  PROVE  CommandInv'
<1> DEFINE s(params) == [To(p, AfterParams(told[p])) EXCEPT !.params = params]
           x == AfterParams(told[p])
<1>1. /\ proc[p].pc = "params" /\ UNCHANGED << told, chain, mempool >>
      /\ Fault \/ faults' = faults
      /\ \/ Bail(p)
         \/ Set(p, s(FromChain)) /\ UNCHANGED leases
         \/ Set(p, s(Defaults)) /\ UNCHANGED leases /\ told[p].profile # "production"
  BY DEF Params, TakeParams
<1>2. /\ Fits(proc[p], told[p], chain, p \in mempool, p \in leases, Mined)
      /\ proc[p] \in Processes /\ told[p] \in CommandLines /\ chain \in Chains
      /\ told[p].library => told[p].cmd \in {"ingest", "download"}
  BY <1>1, ProcessFacts
<1>3. told[p].cmd \in NeedsKey
  BY <1>1, <1>2 DEF Fits, PlaceFits
<1>4. CASE Bail(p)
  BY <1>1, <1>2, <1>3, <1>4, Bails DEF NeedsKey
<1>5. ASSUME NEW params \in [r : Nat, live : BOOLEAN], Set(p, s(params)), UNCHANGED leases,
             params.live => params.r = chain.r, told[p].profile = "production" => params.live
      PROVE  CommandInv'
  <2> DEFINE t == s(params)
  <2>1. /\ x \in Places /\ x \in {"stage", "run", "net"}
        /\ x = "stage" => told[p].cmd = "ingest"
        /\ x = "net" => told[p].cmd = "repush"
    BY <1>2 DEF AfterParams, Places, CommandLines
  <2>2. /\ t \in Processes /\ Moved(t, proc[p], x) /\ t.params = params /\ t.net = proc[p].net
    BY <1>2, <2>1 DEF To, Processes, Moved
  <2>3. params # Absent
    BY CommandsAssumption
  <2> HIDE DEF x, s
  <2>4. PlaceFits(t, told[p]) /\ SentFits(t, told[p], chain, p \in mempool)
    BY <1>1, <1>2, <1>3, <1>5, <2>1, <2>2, <2>3 DEF Moved, Fits, PlaceFits, SentFits, NeedsKey
  <2>5. OutcomeFits(t, told[p], chain, p \in mempool) /\ ReportFits(t, told[p], chain, p \in mempool)
    BY <1>1, <1>2, <2>1, <2>2 DEF Moved, Fits, OutcomeFits, ReportFits
  <2>6. OpenFits(t, told[p], chain, p \in leases, Mined)
    BY <1>1, <1>2, <1>3, <2>1, <2>2 DEF Moved, Fits, OpenFits, NeedsKey
  <2> QED BY <1>1, <1>5, <2>2, <2>4, <2>5, <2>6, ProcessMoves DEF Moved, Fits
<1>6. CASE Set(p, s(FromChain)) /\ UNCHANGED leases
  <2>1. FromChain \in [r : Nat, live : BOOLEAN] /\ FromChain.live /\ FromChain.r = chain.r
    BY <1>2 DEF FromChain, Chains
  <2> HIDE DEF s
  <2> QED BY <1>5, <1>6, <2>1
<1>7. CASE Set(p, s(Defaults)) /\ UNCHANGED leases /\ told[p].profile # "production"
  <2>1. Defaults \in [r : Nat, live : BOOLEAN] /\ ~Defaults.live
    BY CommandsAssumption DEF Defaults
  <2> HIDE DEF s
  <2> QED BY <1>5, <1>7, <2>1
<1> QED BY <1>1, <1>4, <1>6, <1>7

\* The pipeline returns an outcome that is so.
LEMMA ReturnsStep ==
  ASSUME CommandInv, NEW p \in Procs, proc[p].pc \in {"stage", "run", "pending"},
         told[p].cmd \in NeedsKey, NEW o \in Outcomes, Returns(p, o),
         UNCHANGED << told, leases >>, Fault \/ faults' = faults,
         RowMoves(chain, chain', Mined),
         mempool' = mempool \/ (mempool' = mempool \cup {p} /\ told[p].cmd = "ingest" /\ HasTargets(p)),
         o.kind \in {"Activated", "ActivatedOnChain"} => chain'.row = "active",
         o.kind = "AbandonedOnChain" => chain'.row = "abandoned",
         o.kind = "PendingNeedsAction" => chain'.row # "none",
         o.kind = "Failed" /\ o.tx # "Unconfirmed" => ~proc[p].mine /\ p \notin mempool',
         told[p].cmd = "ingest" => o.kind \in {"Failed", "PendingNeedsAction", "Activated"}
  PROVE  CommandInv'
<1> DEFINE s == [To(p, "report") EXCEPT !.outcome = o]
<1>1. /\ Fits(proc[p], told[p], chain, p \in mempool, p \in leases, Mined)
      /\ proc[p] \in Processes /\ told[p] \in CommandLines /\ chain \in Chains /\ Told
      /\ proc \in [Procs -> Processes]
  BY ProcessFacts DEF CommandInv, CommandTypes
<1>2. /\ s \in Processes /\ s.pc = "report" /\ s.outcome = o /\ s.params = proc[p].params
      /\ s.mine = proc[p].mine /\ s.code = proc[p].code /\ s.printed = proc[p].printed
      /\ s.staged = proc[p].staged /\ s.net = proc[p].net
      /\ s.route = proc[p].route /\ s.blind = proc[p].blind
  <2>1. "report" \in Places
    BY DEF Places
  <2> QED BY <1>1, <2>1 DEF To, Processes
<1>3. proc' = [proc EXCEPT ![p] = s]
  BY DEF Returns, Set
<1>4. o # Absent
  BY CommandsAssumption
<1> HIDE DEF s
<1>5. Mined' = Mined
  <2>1. \A q \in Procs : proc'[q].mine = proc[q].mine
    BY <1>1, <1>2, <1>3
  <2> QED BY <2>1 DEF Mined
<1>6. Fits(proc[p], told[p], chain', p \in mempool, p \in leases, Mined)
  BY <1>1, OthersFit
<1>7. p \in mempool' => p \in mempool \/ (told[p].cmd = "ingest" /\ proc[p].params.r > 0 /\ proc[p].pc = "run")
  BY DEF HasTargets
<1>8. PlaceFits(s, told[p]) /\ SentFits(s, told[p], chain', p \in mempool')
  BY <1>2, <1>6, <1>7 DEF Fits, PlaceFits, SentFits
<1>9. OutcomeFits(s, told[p], chain', p \in mempool')
  BY <1>2, <1>4 DEF OutcomeFits
<1>10. ReportFits(s, told[p], chain', p \in mempool')
  BY <1>2, <1>6 DEF Fits, ReportFits
<1>11. OpenFits(s, told[p], chain', p \in leases', Mined')
  BY <1>2, <1>5, <1>6 DEF Fits, OpenFits, NeedsKey
<1>12. Fits(s, told[p], chain', p \in mempool', p \in leases', Mined')
  BY <1>8, <1>9, <1>10, <1>11 DEF Fits
<1>13. faults' \in 0..MaxFaults /\ RowMoves(chain, chain', Mined')
  BY <1>5, FaultCounted
<1> QED BY <1>1, <1>2, <1>3, <1>12, <1>13, OneSteps

\* What the pipelines return are outcomes.
LEMMA OutcomesOf ==
  /\ \A root \in BOOLEAN : \A tx \in {"NotSent", "Rejected", "Unconfirmed"} :
       LET o == Failed(tx, root) IN o \in Outcomes /\ o.kind = "Failed" /\ o.tx = tx
  /\ \A root \in BOOLEAN :
       \A kind \in {"PendingNeedsAction", "Activated", "ActivatedOnChain", "AbandonedOnChain",
                    "RootMismatch", "IdentityMismatch", "NotAdmissible", "Abandoned"} :
         LET o == Outcome(kind, Absent, root) IN o \in Outcomes /\ o.kind = kind
  /\ \A how \in {"complete", "incomplete", "unknown"} :
       LET o == Outcome("Done", how, TRUE) IN o \in Outcomes /\ o.kind = "Done"
  BY DEF Failed, Outcome, Outcomes

\* The file is staged, or the pipeline ends before it sends anything.
LEMMA StageStep ==
  ASSUME CommandInv, NEW p \in Procs, Stage(p)
  PROVE  CommandInv'
<1> DEFINE s == [To(p, "run") EXCEPT !.staged = TRUE]
           o == Failed("NotSent", FALSE)
<1>1. /\ proc[p].pc = "stage" /\ UNCHANGED << told, chain, leases, mempool >>
      /\ Fault \/ faults' = faults
      /\ Set(p, s) \/ Returns(p, o)
  BY DEF Stage
<1>2. /\ Fits(proc[p], told[p], chain, p \in mempool, p \in leases, Mined)
      /\ proc[p] \in Processes /\ told[p] \in CommandLines
  BY <1>1, ProcessFacts
<1>3. told[p].cmd = "ingest" /\ ~proc[p].mine /\ p \notin mempool
  BY <1>1, <1>2 DEF Fits, PlaceFits, SentFits
<1>4. CASE Set(p, s)
  <2>1. /\ s \in Processes /\ s.pc = "run" /\ s.params = proc[p].params
        /\ s.outcome = proc[p].outcome
        /\ s.mine = proc[p].mine /\ s.code = proc[p].code /\ s.printed = proc[p].printed
        /\ s.net = proc[p].net
        /\ s.route = proc[p].route /\ s.blind = proc[p].blind
    <3>1. "run" \in Places
      BY DEF Places
    <3> QED BY <1>2, <3>1 DEF To, Processes
  <2> HIDE DEF s
  <2>2. PlaceFits(s, told[p]) /\ SentFits(s, told[p], chain, p \in mempool)
    BY <1>1, <1>2, <1>3, <2>1 DEF Fits, PlaceFits, SentFits, NeedsKey
  <2>3. OutcomeFits(s, told[p], chain, p \in mempool) /\ ReportFits(s, told[p], chain, p \in mempool)
    BY <1>1, <1>2, <1>3, <2>1 DEF Fits, OutcomeFits, ReportFits
  <2>4. OpenFits(s, told[p], chain, p \in leases, Mined)
    BY <1>1, <1>2, <1>3, <2>1 DEF Fits, OpenFits
  <2> QED BY <1>1, <1>4, <2>1, <2>2, <2>3, <2>4, ProcessMoves DEF Fits
<1>5. CASE Returns(p, o)
  <2>1. o \in Outcomes /\ o.kind = "Failed" /\ told[p].cmd \in NeedsKey
    BY <1>3, OutcomesOf DEF NeedsKey
  <2>2. RowMoves(chain, chain', Mined)
    BY <1>1 DEF RowMoves
  <2> HIDE DEF o
  <2> QED BY <1>1, <1>3, <1>5, <2>1, <2>2, ReturnsStep
<1> QED BY <1>1, <1>4, <1>5

\* A pipeline that runs has parameters and has sent nothing yet.
LEMMA RunFacts ==
  ASSUME CommandInv, NEW p \in Procs, proc[p].pc = "run"
  PROVE  /\ told[p].cmd \in NeedsKey /\ ~proc[p].mine /\ p \notin mempool
         /\ proc[p].params \in [r : Nat, live : BOOLEAN]
         /\ told[p].library => told[p].cmd = "ingest"
<1>1. /\ Fits(proc[p], told[p], chain, p \in mempool, p \in leases, Mined)
      /\ proc[p] \in Processes
      /\ told[p].library => told[p].cmd \in {"ingest", "download"}
  BY ProcessFacts
<1>2. proc[p].params \in [r : Nat, live : BOOLEAN] \cup {Absent}
  BY <1>1 DEF Processes
<1> QED BY <1>1, <1>2 DEF Fits, PlaceFits, SentFits, NeedsKey

\* A run that ends without having sent anything says so.
LEMMA StoppedStep ==
  ASSUME CommandInv, NEW p \in Procs,
         \/ NoTargetsOutcome(p) \/ NoRecipients(p) \/ ReadFails(p)
         \/ \E root \in BOOLEAN : IngestNotSent(p, root)
  PROVE  CommandInv'
<1>1. /\ proc[p].pc = "run" /\ UNCHANGED << told, chain, mempool >>
      /\ Fault \/ faults' = faults
      /\ \/ Bail(p)
         \/ UNCHANGED leases /\ \E root \in BOOLEAN : Returns(p, Failed("NotSent", root))
  BY DEF NoTargetsOutcome, NoRecipients, ReadFails, IngestNotSent, HasTargets
<1>2. CASE Bail(p)
  BY <1>1, <1>2, RunFacts, Bails
<1>3. ASSUME NEW root \in BOOLEAN, Returns(p, Failed("NotSent", root)), UNCHANGED leases
      PROVE  CommandInv'
  <2> DEFINE o == Failed("NotSent", root)
  <2>1. o \in Outcomes /\ o.kind = "Failed"
    BY OutcomesOf
  <2>2. RowMoves(chain, chain', Mined)
    BY <1>1 DEF RowMoves
  <2> HIDE DEF o
  <2> QED BY <1>1, <1>3, <2>1, <2>2, RunFacts, ReturnsStep DEF o
<1> QED BY <1>1, <1>2, <1>3

\* A registration sent and not confirmed is reported as that.
LEMMA UnconfirmedStep ==
  ASSUME CommandInv, NEW p \in Procs, IngestUnconfirmed(p)
  PROVE  CommandInv'
<1> DEFINE o == Failed("Unconfirmed", TRUE)
<1>1. /\ HasTargets(p) /\ proc[p].pc = "run" /\ told[p].cmd = "ingest"
      /\ UNCHANGED << told, chain, leases, faults >>
      /\ mempool' = mempool \/ mempool' = mempool \cup {p}
      /\ Returns(p, o)
  BY DEF IngestUnconfirmed, HasTargets
<1>2. o \in Outcomes /\ o.kind = "Failed" /\ o.tx = "Unconfirmed"
  BY OutcomesOf
<1>3. RowMoves(chain, chain', Mined)
  BY <1>1 DEF RowMoves
<1> HIDE DEF o
<1> QED BY <1>1, <1>2, <1>3, RunFacts, ReturnsStep

\* A registration that executes is this process's own.
LEMMA OwnRow ==
  ASSUME CommandInv, NEW p \in Procs, proc[p].pc # "off", NEW s \in Processes, Set(p, s), s.mine,
         UNCHANGED << told, leases, faults >>, chain.row = "none",
         chain' = [chain EXCEPT !.row = "pending"], mempool' \subseteq mempool, mempool \ {p} \subseteq mempool',
         RowMoves(chain, chain', TRUE) =>
           Fits(s, told[p], chain', p \in mempool', p \in leases, TRUE)
  PROVE  CommandInv'
<1>1. Told /\ proc \in [Procs -> Processes]
  BY ProcessFacts DEF CommandInv, CommandTypes
<1>2. proc' = [proc EXCEPT ![p] = s] /\ proc'[p] = s
  BY <1>1 DEF Set
<1>3. Mined' = TRUE
  BY <1>2 DEF Mined
<1>4. RowMoves(chain, chain', Mined') /\ RowMoves(chain, chain', TRUE)
  BY <1>3 DEF RowMoves
<1>5. Fits(s, told[p], chain', p \in mempool', p \in leases', Mined')
  BY <1>3, <1>4
<1>6. faults' \in 0..MaxFaults
  BY DEF CommandInv, CommandTypes
<1> QED BY <1>1, <1>2, <1>4, <1>5, <1>6, OneSteps

\* A registration that is mined, or is found on chain.
LEMMA RegisterStep ==
  ASSUME CommandInv, NEW p \in Procs, IngestRegister(p)
  PROVE  CommandInv'
<1> DEFINE s == [To(p, "pending") EXCEPT !.mine = TRUE]
           o == Failed("Rejected", TRUE)
<1>1. /\ HasTargets(p) /\ proc[p].pc = "run" /\ told[p].cmd = "ingest"
      /\ UNCHANGED << told, leases, mempool, faults >>
  BY DEF IngestRegister, HasTargets
<1>2. /\ Fits(proc[p], told[p], chain, p \in mempool, p \in leases, Mined)
      /\ proc[p] \in Processes /\ told[p] \in CommandLines /\ chain \in Chains
  BY <1>1, ProcessFacts
<1>3. CASE chain.row = "none" /\ ~chain.v1
  <2>1. Set(p, s) /\ chain' = [chain EXCEPT !.row = "pending"]
    BY <1>3 DEF IngestRegister
  <2>2. /\ s \in Processes /\ s.pc = "pending" /\ s.mine = TRUE /\ s.params = proc[p].params
        /\ s.outcome = proc[p].outcome /\ s.code = proc[p].code /\ s.printed = proc[p].printed
        /\ s.staged = proc[p].staged /\ s.net = proc[p].net
        /\ s.route = proc[p].route /\ s.blind = proc[p].blind
    <3>1. "pending" \in Places
      BY DEF Places
    <3> QED BY <1>2, <3>1 DEF To, Processes
  <2> HIDE DEF s
  <2>3. chain'.row = "pending" /\ chain'.r = chain.r /\ chain'.vis = chain.vis
    BY <1>2, <2>1 DEF Chains
  <2>4. PlaceFits(s, told[p])
    BY <1>1, <2>2 DEF PlaceFits
  <2>5. SentFits(s, told[p], chain', p \in mempool')
    BY <1>1, <1>2, <2>2, <2>3 DEF Fits, SentFits, HasTargets
  <2>6. OutcomeFits(s, told[p], chain', p \in mempool')
    BY <1>1, <1>2, <2>2, <2>3 DEF Fits, OutcomeFits
  <2>7. ReportFits(s, told[p], chain', p \in mempool')
    BY <1>1, <1>2, <1>3, <2>2 DEF Fits, ReportFits
  <2>8. OpenFits(s, told[p], chain', p \in leases, TRUE)
    BY <1>1, <1>2, <2>2 DEF Fits, OpenFits
  <2>9. mempool' \subseteq mempool /\ mempool \ {p} \subseteq mempool' /\ s.mine
    BY <1>1, <2>2
  <2> QED BY <1>1, <1>3, <2>1, <2>2, <2>4, <2>5, <2>6, <2>7, <2>8, <2>9, OwnRow DEF Fits
<1>4. CASE ~(chain.row = "none" /\ ~chain.v1)
  <2>1. Returns(p, o) /\ UNCHANGED chain
    BY <1>4 DEF IngestRegister
  <2>2. o \in Outcomes /\ o.kind = "Failed"
    BY OutcomesOf
  <2>3. RowMoves(chain, chain', Mined)
    BY <2>1 DEF RowMoves
  <2> HIDE DEF o
  <2> QED BY <1>1, <2>1, <2>2, <2>3, RunFacts, ReturnsStep
<1> QED BY <1>3, <1>4

\* A pending row ends pending or is activated.
LEMMA PendingStep ==
  ASSUME CommandInv, NEW p \in Procs, EndsPending(p) \/ Activates(p)
  PROVE  CommandInv'
<1>1. proc[p].pc = "pending" /\ UNCHANGED << told, leases, mempool, faults >>
  BY DEF EndsPending, Activates
<1>2. /\ Fits(proc[p], told[p], chain, p \in mempool, p \in leases, Mined)
      /\ proc[p] \in Processes /\ told[p] \in CommandLines /\ chain \in Chains
  BY <1>1, ProcessFacts
<1>3. told[p].cmd \in NeedsKey /\ chain.row # "none"
  BY <1>1, <1>2 DEF Fits, PlaceFits, OutcomeFits, NeedsKey
<1>4. CASE EndsPending(p)
  <2> DEFINE o == Outcome("PendingNeedsAction", Absent, TRUE)
  <2>1. Returns(p, o) /\ UNCHANGED chain
    BY <1>4 DEF EndsPending
  <2>2. o \in Outcomes /\ o.kind = "PendingNeedsAction"
    BY OutcomesOf
  <2>3. RowMoves(chain, chain', Mined)
    BY <2>1 DEF RowMoves
  <2> HIDE DEF o
  <2> QED BY <1>1, <1>3, <2>1, <2>2, <2>3, ReturnsStep
<1>5. CASE Activates(p)
  <2> DEFINE o == Outcome("Activated", Absent, TRUE)
  <2>1. Returns(p, o) /\ chain.row = "pending" /\ chain' = [chain EXCEPT !.row = "active"]
    BY <1>5 DEF Activates
  <2>2. o \in Outcomes /\ o.kind = "Activated"
    BY OutcomesOf
  <2>3. RowMoves(chain, chain', Mined) /\ chain'.row = "active"
    BY <1>2, <2>1 DEF RowMoves, Chains
  <2> HIDE DEF o
  <2> QED BY <1>1, <1>3, <2>1, <2>2, <2>3, ReturnsStep
<1> QED BY <1>4, <1>5

\* An outcome that says nothing of the chain, or what the chain says now.
LEMMA ReadStep ==
  ASSUME CommandInv, NEW p \in Procs, proc[p].pc = "run", told[p].cmd # "ingest",
         NEW o \in Outcomes, Returns(p, o), UNCHANGED << told, leases, mempool, faults, chain >>,
         o.kind \in {"Activated", "ActivatedOnChain"} => chain.row = "active",
         o.kind = "AbandonedOnChain" => chain.row = "abandoned",
         o.kind # "PendingNeedsAction"
  PROVE  CommandInv'
<1>1. RowMoves(chain, chain', Mined)
  BY DEF RowMoves
<1> QED BY <1>1, RunFacts, ReturnsStep

\* resume and abandon read the row and act on its lifecycle.
LEMMA ReadsStep ==
  ASSUME CommandInv, NEW p \in Procs, ResumeReads(p) \/ RepushReads(p)
  PROVE  CommandInv'
<1>1. /\ proc[p].pc = "run" /\ told[p].cmd \in {"resume", "repush"}
      /\ UNCHANGED << told, leases, mempool, faults, chain >>
  BY DEF ResumeReads, RepushReads, HasTargets
<1>2. /\ Fits(proc[p], told[p], chain, p \in mempool, p \in leases, Mined)
      /\ proc[p] \in Processes /\ told[p] \in CommandLines /\ chain \in Chains
  BY <1>1, ProcessFacts
<1> DEFINE Out(kind) == Outcome(kind, Absent, TRUE)
           Done(how) == Outcome("Done", how, TRUE)
<1>3. \/ Returns(p, Failed("NotSent", FALSE))
      \/ \E kind \in {"RootMismatch", "ActivatedOnChain", "AbandonedOnChain", "IdentityMismatch"} :
           /\ Returns(p, Out(kind))
           /\ kind = "ActivatedOnChain" => chain.row = "active"
           /\ kind = "AbandonedOnChain" => chain.row = "abandoned"
      \/ \E how \in {"complete", "incomplete", "unknown"} : Returns(p, Done(how))
      \/ chain.row = "pending" /\ told[p].cmd = "resume" /\ Set(p, To(p, "pending"))
  BY DEF ResumeReads, RepushReads
<1>4. CASE Returns(p, Failed("NotSent", FALSE))
  <2>1. Failed("NotSent", FALSE) \in Outcomes /\ Failed("NotSent", FALSE).kind = "Failed"
    BY OutcomesOf
  <2> QED BY <1>1, <1>4, <2>1, ReadStep
<1>5. ASSUME NEW kind \in {"RootMismatch", "ActivatedOnChain", "AbandonedOnChain", "IdentityMismatch"},
             Returns(p, Out(kind)), kind = "ActivatedOnChain" => chain.row = "active",
             kind = "AbandonedOnChain" => chain.row = "abandoned"
      PROVE  CommandInv'
  <2>1. Out(kind) \in Outcomes /\ Out(kind).kind = kind
    BY OutcomesOf
  <2> HIDE DEF Out
  <2> QED BY <1>1, <1>5, <2>1, ReadStep
<1>6. ASSUME NEW how \in {"complete", "incomplete", "unknown"}, Returns(p, Done(how))
      PROVE  CommandInv'
  <2>1. Done(how) \in Outcomes /\ Done(how).kind = "Done"
    BY OutcomesOf
  <2> HIDE DEF Done
  <2> QED BY <1>1, <1>6, <2>1, ReadStep
<1>7. CASE chain.row = "pending" /\ told[p].cmd = "resume" /\ Set(p, To(p, "pending"))
  <2>1. ASSUME NEW s \in Processes, Moved(s, proc[p], "pending"), s.net = proc[p].net,
               s.params = proc[p].params
        PROVE  Fits(s, told[p], chain, p \in mempool, p \in leases, Mined)
    BY <1>1, <1>2, <1>7, <2>1
    DEF Moved, Fits, PlaceFits, SentFits, OutcomeFits, ReportFits, OpenFits
  <2>2. "pending" \in Places
    BY DEF Places
  <2> QED BY <1>1, <1>7, <2>1, <2>2, MovesOn
<1> HIDE DEF Out, Done
<1> QED BY <1>3, <1>4, <1>5, <1>6, <1>7

\* An abandon that is sent and mined, or not.
LEMMA AbandonsStep ==
  ASSUME CommandInv, NEW p \in Procs, Abandons(p)
  PROVE  CommandInv'
<1> DEFINE o1 == Outcome("NotAdmissible", Absent, FALSE)
           o2 == Outcome("Abandoned", Absent, FALSE)
           o3 == Failed("NotSent", FALSE)
<1>1. /\ proc[p].pc = "run" /\ told[p].cmd = "abandon"
      /\ UNCHANGED << told, leases, mempool, faults >>
      /\ \E o \in {o1, o2, o3} : Returns(p, o)
      /\ chain' = chain \/ (chain.row = "pending" /\ chain' = [chain EXCEPT !.row = "abandoned"])
  BY DEF Abandons, HasTargets
<1>2. o1 \in Outcomes /\ o1.kind = "NotAdmissible" /\ o2 \in Outcomes /\ o2.kind = "Abandoned"
      /\ o3 \in Outcomes /\ o3.kind = "Failed"
  BY OutcomesOf
<1>3. RowMoves(chain, chain', Mined)
  BY <1>1 DEF RowMoves
<1> HIDE DEF o1, o2, o3
<1>4. PICK o \in {o1, o2, o3} : Returns(p, o)
  BY <1>1
<1>5. o \in Outcomes /\ o.kind \in {"NotAdmissible", "Abandoned", "Failed"}
  BY <1>2
<1> QED BY <1>1, <1>3, <1>4, <1>5, RunFacts, ReturnsStep

\* A transaction still in the mempool is mined later, even after its command ended.
LEMMA LandsStep ==
  ASSUME CommandInv, NEW p \in Procs, Lands(p)
  PROVE  CommandInv'
<1>1. p \in mempool /\ mempool' = mempool \ {p} /\ UNCHANGED << told, leases, faults >>
  BY DEF Lands
<1>2. /\ Fits(proc[p], told[p], chain, p \in mempool, p \in leases, Mined)
      /\ proc \in [Procs -> Processes] /\ proc[p] \in Processes /\ chain \in Chains /\ Told
      /\ faults' \in 0..MaxFaults
  BY <1>1 DEF CommandInv, CommandTypes, Told
<1>3. /\ told[p].cmd = "ingest" /\ proc[p].pc \in {"pending", "report", "shutdown", "done", "killed"}
      /\ proc[p].params # Absent /\ proc[p].params.r > 0
  BY <1>1, <1>2 DEF Fits, SentFits
<1>4. CASE chain.row = "none" /\ ~chain.v1
  <2> DEFINE s == [proc[p] EXCEPT !.mine = TRUE]
  <2>1. Set(p, s) /\ chain' = [chain EXCEPT !.row = "pending"]
    BY <1>4 DEF Lands, Set
  <2>2. /\ s \in Processes /\ s.pc = proc[p].pc /\ s.mine = TRUE /\ s.params = proc[p].params
        /\ s.outcome = proc[p].outcome /\ s.code = proc[p].code /\ s.printed = proc[p].printed
        /\ s.staged = proc[p].staged /\ s.net = proc[p].net
        /\ s.route = proc[p].route /\ s.blind = proc[p].blind
    BY <1>2 DEF Processes
  <2> HIDE DEF s
  <2>3. chain'.row = "pending" /\ chain'.r = chain.r /\ chain'.vis = chain.vis /\ chain'.v1 = chain.v1
    BY <1>2, <2>1 DEF Chains
  <2>4. PlaceFits(s, told[p])
    BY <1>2, <2>2 DEF Fits, PlaceFits
  <2>5. SentFits(s, told[p], chain', p \in mempool')
    BY <1>1, <1>2, <1>3, <2>2, <2>3 DEF Fits, SentFits
  <2>6. OutcomeFits(s, told[p], chain', p \in mempool')
    BY <1>1, <1>2, <1>4, <2>2, <2>3 DEF Fits, OutcomeFits
  <2>7. ReportFits(s, told[p], chain', p \in mempool')
    BY <1>1, <1>2, <1>4, <2>2, <2>3 DEF Fits, ReportFits
  <2>8. OpenFits(s, told[p], chain', p \in leases, TRUE)
    BY <1>1, <1>2, <1>3, <2>2, <2>3 DEF Fits, OpenFits
  <2>9. mempool' \subseteq mempool /\ mempool \ {p} \subseteq mempool' /\ s.mine
    BY <1>1, <2>2
  <2> QED BY <1>1, <1>3, <1>4, <2>1, <2>2, <2>4, <2>5, <2>6, <2>7, <2>8, <2>9, OwnRow DEF Fits
<1>5. CASE ~(chain.row = "none" /\ ~chain.v1)
  <2>1. UNCHANGED << chain, proc >>
    BY <1>5 DEF Lands
  <2>2. proc' = [proc EXCEPT ![p] = proc[p]]
    BY <1>2, <2>1
  <2>3. Mined' = Mined /\ RowMoves(chain, chain', Mined')
    BY <2>1 DEF Mined, RowMoves
  <2>4. SentFits(proc[p], told[p], chain', p \in mempool')
    BY <1>1, <1>2, <2>1 DEF Fits, SentFits
  <2>5. OutcomeFits(proc[p], told[p], chain', p \in mempool')
    BY <1>1, <1>2, <2>1 DEF Fits, OutcomeFits
  <2>6. ReportFits(proc[p], told[p], chain', p \in mempool')
    BY <1>1, <1>2, <2>1 DEF Fits, ReportFits
  <2>7. PlaceFits(proc[p], told[p]) /\ OpenFits(proc[p], told[p], chain', p \in leases', Mined')
    BY <1>1, <1>2, <2>1, <2>3 DEF Fits
  <2>8. Fits(proc[p], told[p], chain', p \in mempool', p \in leases', Mined')
    BY <2>4, <2>5, <2>6, <2>7 DEF Fits
  <2> QED BY <1>1, <1>2, <1>3, <2>2, <2>3, <2>8, OneSteps
<1> QED BY <1>4, <1>5

\* A process is killed: what it had open goes with it.
LEMMA KillStep ==
  ASSUME CommandInv, NEW p \in Procs, Kill(p)
  PROVE  CommandInv'
<1> DEFINE s == [To(p, "killed") EXCEPT !.net = FALSE]
<1>1. /\ proc[p].pc # "off" /\ Set(p, s) /\ leases' = leases \ {p}
      /\ UNCHANGED << told, chain, mempool, faults >>
      /\ proc[p].pc # "done"
  BY DEF Kill, Live
<1>2. /\ Fits(proc[p], told[p], chain, p \in mempool, p \in leases, Mined)
      /\ proc[p] \in Processes
  BY <1>1, ProcessFacts
<1>3. s \in Processes /\ Moved(s, proc[p], "killed") /\ s.net = FALSE /\ s.params = proc[p].params
  <2>1. "killed" \in Places
    BY DEF Places
  <2> QED BY <1>2, <2>1 DEF To, Processes, Moved
<1> HIDE DEF s
<1>4. PlaceFits(s, told[p]) /\ SentFits(s, told[p], chain, p \in mempool)
  BY <1>2, <1>3 DEF Moved, Fits, PlaceFits, SentFits
<1>5. OutcomeFits(s, told[p], chain, p \in mempool) /\ ReportFits(s, told[p], chain, p \in mempool)
  BY <1>2, <1>3 DEF Moved, Fits, OutcomeFits, ReportFits
<1>6. OpenFits(s, told[p], chain, p \in leases', Mined)
  BY <1>1, <1>2, <1>3 DEF Moved, Fits, OpenFits
<1> QED BY <1>1, <1>3, <1>4, <1>5, <1>6, ProcessMoves DEF Moved, Fits

\* What a command prints and returns follows from an outcome that is so.
LEMMA ReportStep ==
  ASSUME CommandInv, NEW p \in Procs, Report(p)
  PROVE  CommandInv'
<1> DEFINE o == proc[p].outcome
           code(lookup) == CASE told[p].cmd = "ingest" /\ told[p].status -> ingest_exit_code(o, Found(lookup))
                             [] told[p].cmd = "resume" -> resume_exit_code(o)
                             [] told[p].cmd = "repush" -> repush_exit_code(o)
                             [] OTHER -> 0
           printed(c) == [root |-> Lifecycle(o) # Absent \/ c = 8,
                          lifecycle |-> IF told[p].cmd \in {"ingest", "resume"}
                                        THEN Lifecycle(o) ELSE Absent]
           s(c) == [To(p, "shutdown") EXCEPT !.code = c, !.printed = printed(c)]
<1>1. /\ proc[p].pc = "report" /\ UNCHANGED << told, chain, leases, mempool >>
      /\ Fault \/ faults' = faults
  BY DEF Report
<1>2. PICK lookup \in BOOLEAN : Set(p, s(code(lookup)))
  BY Zenon DEF Report, ReportWith
<1>3. /\ Fits(proc[p], told[p], chain, p \in mempool, p \in leases, Mined)
      /\ proc[p] \in Processes /\ told[p] \in CommandLines /\ chain \in Chains
  BY <1>1, ProcessFacts
<1>4. /\ o \in Outcomes /\ OutcomeFits(proc[p], told[p], chain, p \in mempool) /\ o # Absent
      /\ told[p].cmd \in NeedsKey
  BY <1>1, <1>3 DEF Fits, OutcomeFits, PlaceFits, Processes
<1>5. /\ Lifecycle(o) \in Lifecycles \cup {Absent}
      /\ Lifecycle(o) = "Active" => chain.row = "active"
      /\ Lifecycle(o) = "Abandoned" => chain.row = "abandoned"
      /\ Lifecycle(o) = "Pending" => chain.row # "none"
      /\ o.kind \in {"Activated", "PendingNeedsAction"} => Lifecycle(o) # Absent
  BY <1>4, CommandsAssumption DEF OutcomeFits, Lifecycle, Lifecycles
<1>6. /\ code(lookup) \in Codes
      /\ told[p].cmd = "ingest" /\ told[p].status =>
           /\ code(lookup) = 7 => chain.row # "none" \/ chain.v1
           /\ code(lookup) = 6 => ~proc[p].mine /\ p \notin mempool
           /\ p \in mempool \/ proc[p].mine => Lifecycle(o) # Absent \/ code(lookup) = 8
           /\ code(lookup) = 0 => chain.row = "active"
  <2>1. CASE told[p].cmd = "ingest" /\ told[p].status
    <3>1. code(lookup) = ingest_exit_code(o, Found(lookup))
      BY <2>1
    <3>2. o.kind \in {"Failed", "PendingNeedsAction", "Activated"}
      BY <1>4, <2>1 DEF OutcomeFits
    <3>3. Found(lookup) = "Registered" => chain.row # "none" \/ chain.v1
      BY DEF Found
    <3>4. CASE o.kind = "Failed"
      <4> DEFINE found == Found(lookup)
                 e == ingest_exit_code(o, found)
      <4>1. /\ e \in {1, 6, 7, 8} /\ (e = 8 <=> o.tx = "Unconfirmed")
            /\ e = 7 => found = "Registered"
        <5> HIDE DEF found
        <5>1. LookupCode(found) \in {1, 6, 7} /\ (LookupCode(found) = 7 => found = "Registered")
          BY DEF LookupCode
        <5>2. e = IF o.tx = "Unconfirmed" THEN 8 ELSE IF o.root THEN LookupCode(found) ELSE 6
          BY <3>4 DEF ingest_exit_code
        <5> QED BY <5>1, <5>2
      <4>2. o.tx # "Unconfirmed" => ~proc[p].mine /\ p \notin mempool
        BY <1>4, <3>4 DEF OutcomeFits
      <4> HIDE DEF e, found, o, code
      <4> QED BY <2>1, <3>1, <3>3, <4>1, <4>2 DEF Codes, e, found
    <3>5. CASE o.kind \in {"PendingNeedsAction", "Activated"}
      BY <1>4, <1>5, <2>1, <3>1, <3>5 DEF ingest_exit_code, Codes, OutcomeFits
    <3> QED BY <3>2, <3>4, <3>5
  <2>2. CASE ~(told[p].cmd = "ingest" /\ told[p].status)
    BY <2>2 DEF resume_exit_code, repush_exit_code, Codes
  <2> QED BY <2>1, <2>2
<1> DEFINE c == code(lookup)
           t == s(c)
<1> HIDE DEF c, code
<1>7. /\ t \in Processes /\ t.pc = "shutdown" /\ t.code = c /\ t.printed = printed(c)
      /\ t.mine = proc[p].mine /\ t.params = proc[p].params /\ t.outcome = o
      /\ t.staged = proc[p].staged /\ t.net = proc[p].net /\ t.route = proc[p].route
      /\ t.blind = proc[p].blind
  <2>1. "shutdown" \in Places /\ c \in Codes
    BY <1>6 DEF Places, c
  <2>2. printed(c) \in [root : BOOLEAN, lifecycle : Lifecycles \cup {Absent}]
    BY <1>5
  <2> HIDE DEF printed
  <2> QED BY <1>3, <2>1, <2>2 DEF To, Processes
<1>8. /\ t.printed.root = (Lifecycle(o) # Absent \/ c = 8)
      /\ t.printed.lifecycle = Lifecycle(o) \/ t.printed.lifecycle = Absent
  BY <1>7
<1> HIDE DEF t, printed, s
<1>9. PlaceFits(t, told[p]) /\ SentFits(t, told[p], chain, p \in mempool)
  BY <1>1, <1>3, <1>7 DEF Fits, PlaceFits, SentFits
<1>10. OutcomeFits(t, told[p], chain, p \in mempool)
  BY <1>4, <1>7 DEF OutcomeFits
<1>11. ReportFits(t, told[p], chain, p \in mempool)
  <2>1. Absent \notin Lifecycles
    BY CommandsAssumption
  <2> QED BY <1>5, <1>6, <1>7, <1>8, <2>1 DEF ReportFits, c, Lifecycles
<1>12. OpenFits(t, told[p], chain, p \in leases', Mined)
  BY <1>1, <1>3, <1>4, <1>7 DEF Fits, OpenFits, NeedsKey
<1> QED BY <1>1, <1>2, <1>7, <1>9, <1>10, <1>11, <1>12, ProcessMoves DEF Fits, t, c

\* A command that ends with the code it reported.
LEMMA ShutdownStep ==
  ASSUME CommandInv, NEW p \in Procs, Shutdown(p)
  PROVE  CommandInv'
<1> DEFINE closes == told[p].cmd # "abandon" /\ ~(told[p].library /\ told[p].cmd = "ingest")
<1>1. /\ proc[p].pc = "shutdown" /\ UNCHANGED << told, chain, mempool >>
      /\ Fault \/ faults' = faults
      /\ \/ Finish(p, [proc[p] EXCEPT !.net = @ /\ ~closes], proc[p].code)
         \/ Bail(p) /\ ~told[p].library
  BY Zenon DEF Shutdown, Bail
<1>2. /\ proc[p] \in Processes /\ told[p] \in CommandLines
      /\ told[p].library => told[p].cmd \in {"ingest", "download"}
  BY <1>1, ProcessFacts
<1>3. CASE Bail(p) /\ ~told[p].library
  BY <1>1, <1>3, Bails
<1>4. CASE Finish(p, [proc[p] EXCEPT !.net = @ /\ ~closes], proc[p].code)
  <2>1. PICK net \in BOOLEAN : net = ((proc[p].net /\ ~closes) /\ told[p].library)
    OBVIOUS
  <2>2. Set(p, Ended(proc[p], proc[p].code, net)) /\ leases' = leases \ {p}
    BY <1>2, <1>4, <2>1, Zenon DEF Finish, Ended, Processes
  <2>3. proc[p].code \in Codes
    BY <1>2 DEF Processes
  <2>4. net => told[p].cmd = "ingest"
    BY <1>2, <2>1
  <2> QED BY <1>1, <2>2, <2>3, <2>4, Finishes
<1> QED BY <1>1, <1>3, <1>4

\* Commands that end without an outcome.
LEMMA EndsWell ==
  ASSUME CommandInv, NEW p \in Procs, proc[p].pc # "off", told[p].cmd \in {"fetch", "listen"},
         Finish(p, proc[p], 0), UNCHANGED << told, chain, mempool, faults >>
  PROVE  CommandInv'
<1>1. /\ proc[p] \in Processes /\ told[p] \in CommandLines /\ ~told[p].library
  BY ProcessFacts
<1>2. PICK net \in BOOLEAN : net = (proc[p].net /\ told[p].library)
  OBVIOUS
<1>3. Set(p, Ended(proc[p], 0, net)) /\ leases' = leases \ {p}
  BY <1>1, <1>2, Zenon DEF Finish, Ended, Processes
<1>4. 0 \in Codes
  BY DEF Codes
<1> QED BY <1>1, <1>2, <1>3, <1>4, Finishes

\* listen stops on its signal.
LEMMA ListenStep ==
  ASSUME CommandInv, NEW p \in Procs, StopListening(p)
  PROVE  CommandInv'
<1>1. proc[p].pc = "serve" /\ Finish(p, proc[p], 0) /\ UNCHANGED << told, chain, mempool, faults >>
  BY DEF StopListening
<1>2. Fits(proc[p], told[p], chain, p \in mempool, p \in leases, Mined)
  BY <1>1, ProcessFacts
<1>3. told[p].cmd = "listen"
  BY <1>1, <1>2 DEF Fits, PlaceFits
<1> QED BY <1>1, <1>3, EndsWell

\* A library download that fails goes on to close what it opened.
LEMMA GivesUpStep ==
  ASSUME CommandInv, NEW p \in Procs, proc[p].pc \in {"store", "factor", "get"},
         told[p].cmd = "download", told[p].library, Set(p, [To(p, "shutdown") EXCEPT !.code = 1]),
         UNCHANGED << told, chain, mempool >>, Fault \/ faults' = faults,
         leases' = leases \/ leases' = leases \ {p}
  PROVE  CommandInv'
<1> DEFINE s == [To(p, "shutdown") EXCEPT !.code = 1]
<1>1. /\ Fits(proc[p], told[p], chain, p \in mempool, p \in leases, Mined)
      /\ proc[p] \in Processes
  BY ProcessFacts
<1>2. /\ s \in Processes /\ s.pc = "shutdown" /\ s.code = 1 /\ s.staged = proc[p].staged
      /\ s.mine = proc[p].mine /\ s.outcome = proc[p].outcome /\ s.printed = proc[p].printed
      /\ s.route = proc[p].route /\ s.blind = proc[p].blind /\ s.net = proc[p].net
      /\ s.params = proc[p].params
  <2>1. "shutdown" \in Places /\ 1 \in Codes
    BY DEF Places, Codes
  <2> QED BY <1>1, <2>1 DEF To, Processes
<1> HIDE DEF s
<1>3. PlaceFits(s, told[p]) /\ SentFits(s, told[p], chain, p \in mempool)
  BY <1>1, <1>2 DEF Fits, PlaceFits, SentFits
<1>4. OutcomeFits(s, told[p], chain, p \in mempool) /\ ReportFits(s, told[p], chain, p \in mempool)
  BY <1>1, <1>2 DEF Fits, OutcomeFits, ReportFits
<1>5. OpenFits(s, told[p], chain, p \in leases', Mined)
  BY <1>1, <1>2 DEF Fits, OpenFits
<1> QED BY <1>2, <1>3, <1>4, <1>5, ProcessMoves DEF Fits, s

\* The store is opened under its lease, or refused.
LEMMA StoreStep ==
  ASSUME CommandInv, NEW p \in Procs, OpenStore(p)
  PROVE  CommandInv'
<1>1. /\ proc[p].pc = "store" /\ UNCHANGED << told, chain, mempool, faults >>
  BY DEF OpenStore
<1>2. /\ Fits(proc[p], told[p], chain, p \in mempool, p \in leases, Mined)
      /\ proc[p] \in Processes /\ told[p] \in CommandLines /\ Told /\ chain \in Chains
      /\ proc \in [Procs -> Processes]
      /\ told[p].library => told[p].cmd \in {"ingest", "download"}
  BY <1>1, ProcessFacts DEF CommandInv, CommandTypes
<1>3. told[p].cmd \in {"download", "fetch", "listen"}
  BY <1>1, <1>2 DEF Fits, PlaceFits, CommandLines, NeedsKey
<1>4. CASE Acquire(p)
  <2> DEFINE x == AfterStore(told[p])
             s == To(p, x)
  <2>1. leases' = leases \cup {p} /\ proc' = [proc EXCEPT ![p] = s]
    BY <1>4 DEF OpenStore, Set
  <2>2. /\ x \in Places /\ x \in {"factor", "peer", "serve"}
        /\ x = "factor" => told[p].cmd = "download"
        /\ x = "peer" => told[p].cmd = "fetch"
        /\ x = "serve" => told[p].cmd = "listen"
    BY <1>3 DEF AfterStore, Places
  <2> HIDE DEF x
  <2>3. s \in Processes /\ Moved(s, proc[p], x) /\ s.net = proc[p].net /\ s.params = proc[p].params
    BY <1>2, <2>2 DEF To, Processes, Moved
  <2> HIDE DEF s
  <2>4. Mined' = Mined
    <3>1. \A q \in Procs : proc'[q].mine = proc[q].mine
      BY <1>2, <2>1, <2>3 DEF Moved
    <3> QED BY <3>1 DEF Mined
  <2>5. PlaceFits(s, told[p]) /\ SentFits(s, told[p], chain, p \in mempool)
    BY <1>1, <1>2, <2>2, <2>3 DEF Moved, Fits, PlaceFits, SentFits
  <2>6. OutcomeFits(s, told[p], chain, p \in mempool) /\ ReportFits(s, told[p], chain, p \in mempool)
    BY <1>1, <1>2, <2>2, <2>3 DEF Moved, Fits, OutcomeFits, ReportFits
  <2>7. OpenFits(s, told[p], chain, p \in leases', Mined)
    BY <1>1, <1>2, <2>2, <2>3 DEF Moved, Fits, OpenFits
  <2>8. Fits(s, told[p], chain', p \in mempool', p \in leases', Mined')
    BY <1>1, <2>4, <2>5, <2>6, <2>7 DEF Fits
  <2>9. faults' \in 0..MaxFaults /\ RowMoves(chain, chain', Mined') /\ s.mine = proc[p].mine
    BY <1>1, <2>3 DEF CommandInv, CommandTypes, RowMoves, Moved
  <2> QED BY <1>1, <1>2, <1>4, <2>1, <2>3, <2>8, <2>9, OneSteps
<1>5. CASE ~Acquire(p) /\ told[p].library
  BY <1>1, <1>2, <1>3, <1>5, GivesUpStep DEF OpenStore
<1>6. CASE ~Acquire(p) /\ ~told[p].library
  BY <1>1, <1>6, Bails DEF OpenStore
<1> QED BY <1>4, <1>5, <1>6

\* download stages its output.
LEMMA OutputStep ==
  ASSUME CommandInv, NEW p \in Procs, OutputDir(p)
  PROVE  CommandInv'
<1> DEFINE s == [To(p, "row") EXCEPT !.staged = TRUE]
<1>1. /\ proc[p].pc = "output" /\ UNCHANGED << told, chain, mempool >>
      /\ Fault \/ faults' = faults
      /\ Bail(p) \/ (Set(p, s) /\ UNCHANGED leases)
  BY DEF OutputDir
<1>2. /\ Fits(proc[p], told[p], chain, p \in mempool, p \in leases, Mined)
      /\ proc[p] \in Processes
  BY <1>1, ProcessFacts
<1>3. ~proc[p].net /\ told[p].cmd = "download"
  BY <1>1, <1>2 DEF Fits, PlaceFits, OpenFits
<1>4. CASE Bail(p)
  BY <1>1, <1>3, <1>4, Bails
<1>5. CASE Set(p, s) /\ UNCHANGED leases
  <2>1. /\ s \in Processes /\ s.pc = "row" /\ s.params = proc[p].params
        /\ s.outcome = proc[p].outcome
        /\ s.mine = proc[p].mine /\ s.code = proc[p].code /\ s.printed = proc[p].printed
        /\ s.net = proc[p].net /\ s.route = proc[p].route /\ s.blind = proc[p].blind
    <3>1. "row" \in Places
      BY DEF Places
    <3> QED BY <1>2, <3>1 DEF To, Processes
  <2> HIDE DEF s
  <2>2. PlaceFits(s, told[p]) /\ SentFits(s, told[p], chain, p \in mempool)
    BY <1>1, <1>2, <1>3, <2>1 DEF Fits, PlaceFits, SentFits
  <2>3. OutcomeFits(s, told[p], chain, p \in mempool) /\ ReportFits(s, told[p], chain, p \in mempool)
    BY <1>1, <1>2, <1>3, <2>1 DEF Fits, OutcomeFits, ReportFits
  <2>4. OpenFits(s, told[p], chain, p \in leases, Mined)
    BY <1>1, <1>2, <1>3, <2>1 DEF Fits, OpenFits
  <2> QED BY <1>1, <1>5, <2>1, <2>2, <2>3, <2>4, ProcessMoves DEF Fits
<1> QED BY <1>1, <1>4, <1>5

\* download reads the row and chooses its route.
LEMMA TargetStep ==
  ASSUME CommandInv, NEW p \in Procs, ReadTarget(p)
  PROVE  CommandInv'
<1>1. /\ proc[p].pc = "row" /\ UNCHANGED << told, chain, mempool >>
      /\ Fault \/ faults' = faults
  BY DEF ReadTarget
<1>2. /\ Fits(proc[p], told[p], chain, p \in mempool, p \in leases, Mined)
      /\ proc[p] \in Processes /\ chain \in Chains
  BY <1>1, ProcessFacts
<1>3. ~proc[p].net /\ told[p].cmd = "download"
  BY <1>1, <1>2 DEF Fits, PlaceFits, OpenFits
<1>4. CASE Bail(p)
  BY <1>1, <1>3, <1>4, Bails
<1>5. CASE ~Bail(p)
  <2> DEFINE row(ok) == IF ok /\ chain.row # "none" THEN chain.vis ELSE Absent
             s(ok) == [To(p, "net") EXCEPT !.route = Route(row(ok)), !.blind = ~ok]
  <2>1. PICK ok \in BOOLEAN :
          /\ ~((row(ok) = "private" /\ ~told[p].seed) \/ Route(row(ok)) = Absent)
          /\ Set(p, s(ok)) /\ UNCHANGED leases
    BY <1>5 DEF ReadTarget
  <2> DEFINE x == Route(row(ok))
             t == s(ok)
  <2>2. /\ x \in Routes
        /\ x = "V2Private" => chain.vis = "private" /\ told[p].seed
        /\ x = "V2Public" => chain.vis = "public"
        /\ x \notin {"V2Private", "V2Public"} => ~ok \/ chain.row = "none"
    <3>1. chain.vis \in STRING
      BY <1>2 DEF Chains
    <3> QED BY <2>1, <3>1, CommandsAssumption DEF Route, Routes
  <2> HIDE DEF x, row
  <2>3. PICK b \in BOOLEAN : b = ~ok
    OBVIOUS
  <2>4. t = [proc[p] EXCEPT !.pc = "net", !.route = x, !.blind = b]
    BY <1>2, <2>3, Zenon DEF x, row, To, Processes
  <2> HIDE DEF t, s
  <2>5. /\ t \in Processes /\ t.pc = "net" /\ t.params = proc[p].params
        /\ t.outcome = proc[p].outcome
        /\ t.mine = proc[p].mine /\ t.code = proc[p].code /\ t.printed = proc[p].printed
        /\ t.staged = proc[p].staged /\ t.net = proc[p].net /\ t.route = x /\ t.blind = b
    <3>1. "net" \in Places
      BY DEF Places
    <3> QED BY <1>2, <2>2, <2>4, <3>1 DEF Processes
  <2>6. PlaceFits(t, told[p]) /\ SentFits(t, told[p], chain, p \in mempool)
    BY <1>1, <1>2, <1>3, <2>5 DEF Fits, PlaceFits, SentFits
  <2>7. OutcomeFits(t, told[p], chain, p \in mempool) /\ ReportFits(t, told[p], chain, p \in mempool)
    BY <1>1, <1>2, <1>3, <2>5 DEF Fits, OutcomeFits, ReportFits
  <2>8. OpenFits(t, told[p], chain, p \in leases, Mined)
    BY <1>1, <1>2, <1>3, <2>2, <2>3, <2>5 DEF Fits, OpenFits
  <2> QED BY <1>1, <2>1, <2>5, <2>6, <2>7, <2>8, ProcessMoves DEF Fits, t
<1> QED BY <1>4, <1>5

\* download reads the replication factor.
LEMMA FactorStep ==
  ASSUME CommandInv, NEW p \in Procs, ReadFactor(p)
  PROVE  CommandInv'
<1> DEFINE s == [To(p, "get") EXCEPT !.params = FromChain]
<1>1. /\ proc[p].pc = "factor" /\ UNCHANGED << told, chain, mempool >>
      /\ Fault \/ faults' = faults
      /\ GiveUp(p) \/ (Set(p, s) /\ UNCHANGED leases)
  BY DEF ReadFactor
<1>2. /\ Fits(proc[p], told[p], chain, p \in mempool, p \in leases, Mined)
      /\ proc[p] \in Processes /\ chain \in Chains
  BY <1>1, ProcessFacts
<1>3. told[p].cmd = "download"
  BY <1>1, <1>2 DEF Fits, PlaceFits
<1>4. CASE GiveUp(p)
  BY <1>1, <1>3, <1>4, Bails, GivesUpStep DEF GiveUp
<1>5. CASE Set(p, s) /\ UNCHANGED leases
  <2>1. FromChain \in [r : Nat, live : BOOLEAN] /\ FromChain.live /\ FromChain.r = chain.r
    BY <1>2 DEF FromChain, Chains
  <2>2. /\ s \in Processes /\ Moved(s, proc[p], "get") /\ s.params = FromChain /\ s.net = proc[p].net
    <3>1. "get" \in Places
      BY DEF Places
    <3> QED BY <1>2, <2>1, <3>1 DEF To, Processes, Moved
  <2> HIDE DEF s
  <2>3. PlaceFits(s, told[p]) /\ SentFits(s, told[p], chain, p \in mempool)
    BY <1>1, <1>2, <1>3, <2>1, <2>2 DEF Moved, Fits, PlaceFits, SentFits, NeedsKey
  <2>4. OutcomeFits(s, told[p], chain, p \in mempool) /\ ReportFits(s, told[p], chain, p \in mempool)
    BY <1>1, <1>2, <1>3, <2>2 DEF Moved, Fits, OutcomeFits, ReportFits
  <2>5. OpenFits(s, told[p], chain, p \in leases, Mined)
    BY <1>1, <1>2, <1>3, <2>2 DEF Moved, Fits, OpenFits
  <2> QED BY <1>1, <1>5, <2>2, <2>3, <2>4, <2>5, ProcessMoves DEF Moved, Fits
<1> QED BY <1>1, <1>4, <1>5

\* The steps of a download and of a fetch that only move on.
LEMMA OnlyMoves ==
  ASSUME CommandInv, NEW p \in Procs, NEW x \in {"get", "store", "shutdown"}, Set(p, To(p, x)),
         proc[p].pc \in {"route", "get", "fetch"}, UNCHANGED << told, chain, mempool, faults >>,
         x # "shutdown" => proc[p].pc = "route", x = "shutdown" => proc[p].pc # "route",
         leases' = leases \/ leases' = leases \ {p}
  PROVE  CommandInv'
<1>1. /\ Fits(proc[p], told[p], chain, p \in mempool, p \in leases, Mined)
      /\ proc[p] \in Processes
  BY ProcessFacts
<1>2. proc[p].pc = "fetch" => told[p].cmd = "fetch"
  BY <1>1 DEF Fits, PlaceFits
<1>3. proc[p].pc # "fetch" => told[p].cmd = "download"
  BY <1>1 DEF Fits, PlaceFits
<1>4. ASSUME NEW s \in Processes, Moved(s, proc[p], x), s.net = proc[p].net,
             s.params = proc[p].params
      PROVE  Fits(s, told[p], chain, p \in mempool, p \in leases', Mined)
  <2>1. PlaceFits(s, told[p]) /\ SentFits(s, told[p], chain, p \in mempool)
    BY <1>1, <1>2, <1>3, <1>4 DEF Moved, Fits, PlaceFits, SentFits, NeedsKey
  <2>2. OutcomeFits(s, told[p], chain, p \in mempool) /\ ReportFits(s, told[p], chain, p \in mempool)
    BY <1>1, <1>2, <1>3, <1>4 DEF Moved, Fits, OutcomeFits, ReportFits
  <2>3. OpenFits(s, told[p], chain, p \in leases', Mined)
    BY <1>1, <1>2, <1>3, <1>4 DEF Moved, Fits, OpenFits
  <2> QED BY <2>1, <2>2, <2>3 DEF Fits
<1>5. x \in Places
  BY DEF Places
<1> QED BY <1>4, <1>5, MovesOn

\* download finishes, or fails.
LEMMA DownloadStep ==
  ASSUME CommandInv, NEW p \in Procs, TakeRoute(p) \/ Downloads(p)
  PROVE  CommandInv'
<1>1. /\ proc[p].pc \in {"route", "get"} /\ UNCHANGED << told, chain, mempool, faults >>
  BY DEF TakeRoute, Downloads
<1>2. Fits(proc[p], told[p], chain, p \in mempool, p \in leases, Mined)
  BY <1>1, ProcessFacts
<1>3. told[p].cmd = "download"
  BY <1>1, <1>2 DEF Fits, PlaceFits
<1>4. CASE TakeRoute(p)
  BY <1>4, OnlyMoves DEF TakeRoute
<1>5. CASE Downloads(p)
  <2>1. CASE GiveUp(p)
    BY <1>1, <1>3, <1>5, <2>1, Bails, GivesUpStep DEF GiveUp, Downloads
  <2>2. CASE ~GiveUp(p)
    BY <1>1, <1>5, <2>2, OnlyMoves DEF Downloads
  <2> QED BY <2>1, <2>2
<1> QED BY <1>4, <1>5

\* What only counts changes nothing of what fits.
LEMMA FetchStep ==
  ASSUME CommandInv, NEW p \in Procs, FindPeer(p) \/ FetchEnds(p) \/ FetchRequestFailed(p)
  PROVE  CommandInv'
<1>1. /\ proc[p].pc \in {"peer", "fetch"} /\ UNCHANGED << told, chain, mempool, faults >>
  BY DEF FindPeer, FetchEnds, FetchRequestFailed
<1>2. /\ Fits(proc[p], told[p], chain, p \in mempool, p \in leases, Mined)
      /\ proc[p] \in Processes /\ (told[p].library => told[p].cmd \in {"ingest", "download"})
  BY <1>1, ProcessFacts
<1>3. told[p].cmd = "fetch" /\ ~told[p].library
  BY <1>1, <1>2 DEF Fits, PlaceFits
<1>4. CASE Bail(p)
  BY <1>1, <1>3, <1>4, Bails
<1>5. CASE Finish(p, proc[p], 0)
  BY <1>1, <1>3, <1>5, EndsWell
<1>6. CASE Set(p, To(p, "shutdown")) /\ UNCHANGED leases /\ proc[p].pc = "fetch"
  BY <1>1, <1>6, OnlyMoves
<1> DEFINE s1 == [To(p, "fetch") EXCEPT !.asked = 1]
           s2 == [proc[p] EXCEPT !.retries = @ + 1]
<1>7. ASSUME NEW s \in Processes, Set(p, s), UNCHANGED leases, Moved(s, proc[p], "fetch"),
             s.net = proc[p].net, s.params = proc[p].params
      PROVE  CommandInv'
  <2>1. PlaceFits(s, told[p]) /\ SentFits(s, told[p], chain, p \in mempool)
    BY <1>1, <1>2, <1>3, <1>7 DEF Moved, Fits, PlaceFits, SentFits
  <2>2. OutcomeFits(s, told[p], chain, p \in mempool) /\ ReportFits(s, told[p], chain, p \in mempool)
    BY <1>1, <1>2, <1>3, <1>7 DEF Moved, Fits, OutcomeFits, ReportFits
  <2>3. OpenFits(s, told[p], chain, p \in leases', Mined)
    BY <1>1, <1>2, <1>3, <1>7 DEF Moved, Fits, OpenFits
  <2> QED BY <1>1, <1>7, <2>1, <2>2, <2>3, ProcessMoves DEF Fits, Moved
<1>8. CASE Set(p, s1) /\ UNCHANGED leases
  <2>1. /\ s1 \in Processes /\ Moved(s1, proc[p], "fetch")
        /\ s1.net = proc[p].net /\ s1.params = proc[p].params
    <3>1. "fetch" \in Places
      BY DEF Places
    <3> QED BY <1>2, <3>1 DEF To, Processes, Moved
  <2> HIDE DEF s1
  <2> QED BY <1>7, <1>8, <2>1
<1>9. CASE Set(p, s2) /\ UNCHANGED leases /\ proc[p].pc = "fetch" /\ proc[p].retries # MaxRetries
  <2>1. /\ s2 \in Processes /\ Moved(s2, proc[p], "fetch")
        /\ s2.net = proc[p].net /\ s2.params = proc[p].params
    <3>1. PICK n \in 0..MaxRetries : n = proc[p].retries + 1
      <4>1. proc[p].retries \in 0..MaxRetries
        BY <1>2 DEF Processes
      <4>2. MaxRetries \in Nat
        BY CommandsAssumption
      <4> HIDE DEF s1, s2
      <4> QED BY <1>9, <4>1, <4>2
    <3>2. s2 = [proc[p] EXCEPT !.retries = n]
      BY <3>1
    <3> HIDE DEF s2
    <3> QED BY <1>2, <1>9, <3>2 DEF Processes, Moved
  <2> HIDE DEF s2
  <2> QED BY <1>7, <1>9, <2>1
<1> QED BY <1>1, <1>4, <1>5, <1>6, <1>8, <1>9 DEF FindPeer, FetchEnds, FetchRequestFailed

\* Every step of the commands keeps their invariant.
LEMMA CommandsStep ==
  ASSUME CommandInv, CommandsNext
  PROVE  CommandInv'
<1>1. PICK p \in Procs : Step(p) \/ StopListening(p) \/ Lands(p) \/ Kill(p)
  BY DEF CommandsNext
<1>2. CASE Dispatch(p) \/ Preflight(p) \/ OpenNet(p) \/ Params(p) \/ Stage(p)
  BY <1>2, DispatchStep, PreflightStep, OpenNetStep, ParamsStep, StageStep
<1>3. CASE \/ NoTargetsOutcome(p) \/ NoRecipients(p) \/ ReadFails(p)
           \/ \E root \in BOOLEAN : IngestNotSent(p, root)
  BY <1>3, StoppedStep
<1>4. CASE IngestRegister(p) \/ IngestUnconfirmed(p) \/ EndsPending(p) \/ Activates(p)
  BY <1>4, RegisterStep, UnconfirmedStep, PendingStep
<1>5. CASE ResumeReads(p) \/ RepushReads(p) \/ Abandons(p) \/ Report(p) \/ Shutdown(p)
  BY <1>5, ReadsStep, AbandonsStep, ReportStep, ShutdownStep
<1>6. CASE OpenStore(p) \/ OutputDir(p) \/ ReadTarget(p) \/ TakeRoute(p) \/ ReadFactor(p) \/ Downloads(p)
  BY <1>6, StoreStep, OutputStep, TargetStep, FactorStep, DownloadStep
<1>7. CASE FindPeer(p) \/ FetchEnds(p) \/ FetchRequestFailed(p)
  BY <1>7, FetchStep
<1>8. CASE StopListening(p) \/ Lands(p) \/ Kill(p)
  BY <1>8, ListenStep, LandsStep, KillStep
<1> QED BY <1>1, <1>2, <1>3, <1>4, <1>5, <1>6, <1>7, <1>8 DEF Step

\* The inductive invariant of the client side.
ClientIInv == DiscoveryInv /\ UploadInv /\ CommandInv

\* The record a command starts with.
LEMMA FreshFits ==
  ASSUME NEW state \in {"off", "start"}
  PROVE  /\ Fresh(state) \in Processes
         /\ Fresh(state).pc = state /\ Fresh(state).params = Absent /\ Fresh(state).outcome = Absent
         /\ Fresh(state).printed.lifecycle = Absent /\ ~Fresh(state).net /\ ~Fresh(state).mine
<1>1. state \in Places /\ 0 \in Codes
  BY DEF Places, Codes
<1>2. 0 \in 0..MaxRetries
  BY CommandsAssumption
<1> QED BY <1>1, <1>2 DEF Fresh, Processes

\* The commands start in their invariant.
LEMMA CommandsInit ==
  ASSUME \/ CommandsIdle(NoCommands, "off")
         \/ \E s \in Scenarios : CommandsIdle(s, "start")
  PROVE  CommandInv
<1>1. /\ leases = {} /\ mempool = {} /\ faults \in 0..MaxFaults
  BY CommandsAssumption DEF CommandsIdle
<1>2. CASE CommandsIdle(NoCommands, "off")
  <2>1. \A q \in Procs : proc[q] = Fresh("off") /\ proc \in [Procs -> Processes]
    BY <1>2, FreshFits DEF CommandsIdle
  <2> QED BY <1>1, <1>2, <2>1, FreshFits DEF CommandInv, CommandTypes, CommandsOff, CommandsIdle
<1>3. ASSUME NEW c \in Scenarios, CommandsIdle(c, "start") PROVE CommandInv
  <2>1. /\ proc = [q \in Procs |-> Fresh("start")] /\ proc \in [Procs -> Processes]
    BY <1>3, FreshFits DEF CommandsIdle
  <2>2. Told
    BY <1>3, CommandsAssumption DEF CommandsIdle, Told
  <2>3. ASSUME NEW q \in Procs
        PROVE  Fits(proc[q], told[q], chain, q \in mempool, q \in leases, Mined)
    <3> DEFINE s == proc[q]
    <3>1. /\ s.pc = "start" /\ s.params = Absent /\ s.outcome = Absent
          /\ s.printed.lifecycle = Absent /\ ~s.net /\ ~s.mine
      BY <2>1, FreshFits
    <3>2. Absent \notin {"Active", "Pending", "Abandoned"}
      BY CommandsAssumption DEF Lifecycles
    <3> HIDE DEF s
    <3>3. PlaceFits(s, told[q]) /\ SentFits(s, told[q], chain, q \in mempool)
      BY <1>1, <3>1 DEF PlaceFits, SentFits
    <3>4. OutcomeFits(s, told[q], chain, q \in mempool) /\ ReportFits(s, told[q], chain, q \in mempool)
      BY <1>1, <3>1, <3>2 DEF OutcomeFits, ReportFits
    <3>5. OpenFits(s, told[q], chain, q \in leases, Mined)
      BY <1>1, <3>1 DEF OpenFits
    <3> QED BY <3>3, <3>4, <3>5 DEF Fits, s
  <2> QED BY <1>1, <2>1, <2>2, <2>3 DEF CommandInv, CommandTypes
<1> QED BY <1>2, <1>3

\* An upload starts in its invariant.
LEMMA UploadInit ==
  ASSUME UploadIdle(NoUpload, "off") \/ \E c \in UploadCases : UploadIdle(c, "start")
  PROVE  UploadInv
<1>1. /\ upc \in {"off", "start"} /\ upos = 0 /\ pending = {} /\ failures = 0 /\ timeout = FALSE
      /\ answers = {} /\ result = "none" /\ (upc # "off" => ucase \in UploadCases)
  BY DEF UploadIdle
<1>2. UploadTypes
  BY <1>1 DEF UploadTypes
<1>3. PushedIsStored
  BY <1>1 DEF PushedIsStored, SuccessIsReplicated
<1> QED BY <1>2, <1>3 DEF UploadInv

\* A wait starts in its invariant.
LEMMA DiscoveryInit ==
  ASSUME DiscoveryIdle("off") \/ DiscoveryIdle("start")
  PROVE  DiscoveryInv
<1>1. << >> \in Seq([kind : {"PeerIdentified", "PeerDisconnected"}, peer : DPeers])
  OBVIOUS
<1>2. /\ dpc \in {"off", "start"} /\ connected = {} /\ queue = << >> /\ resolver = {} /\ required = {}
      /\ verdict.how = "none"
  BY DEF DiscoveryIdle
<1>3. DiscoveryTypes
  BY <1>1, <1>2 DEF DiscoveryTypes
<1> QED BY <1>2, <1>3 DEF DiscoveryInv, MapsAgree

\* The client side starts in the invariant.
LEMMA ClientStarts ==
  ASSUME ClientInit
  PROVE  ClientIInv
  BY DiscoveryInit, UploadInit, CommandsInit DEF ClientInit, ClientIInv

\* The parts share no variable.
LEMMA DiscoveryRests ==
  ASSUME DiscoveryInv, UNCHANGED dvars
  PROVE  DiscoveryInv'
  BY DEF DiscoveryInv, DiscoveryTypes, MapsAgree, dvars

\* An upload that takes no step.
LEMMA UploadRests ==
  ASSUME UploadInv, UNCHANGED uvars
  PROVE  UploadInv'
<1>1. UNCHANGED << ucase, upc, upos, pending, failures, timeout, result, answers, stored >>
  BY DEF uvars
<1> QED BY <1>1, NodesKeep

\* Commands that take no step.
LEMMA CommandsRest ==
  ASSUME CommandInv, UNCHANGED cvars
  PROVE  CommandInv'
<1>1. UNCHANGED << told, chain, proc, leases, mempool, faults >>
  BY DEF cvars
<1>2. UNCHANGED << Mined, CommandsOff, Told, CommandTypes >>
  BY <1>1 DEF Mined, CommandsOff, Told, CommandTypes
<1> QED BY <1>1, <1>2 DEF CommandInv

\* Every step of the client side keeps the invariant.
LEMMA ClientSteps ==
  ASSUME ClientIInv, [ClientNext]_clientVars
  PROVE  ClientIInv'
<1>1. CASE DiscoveryNext /\ UNCHANGED << uvars, cvars >>
  BY <1>1, DiscoveryStep, UploadRests, CommandsRest DEF ClientIInv
<1>2. CASE UploadNext /\ UNCHANGED << dvars, cvars >>
  BY <1>2, UploadStep, DiscoveryRests, CommandsRest DEF ClientIInv
<1>3. CASE CommandsNext /\ UNCHANGED << dvars, uvars >>
  BY <1>3, CommandsStep, DiscoveryRests, UploadRests DEF ClientIInv
<1>4. CASE UNCHANGED clientVars
  BY <1>4, DiscoveryRests, UploadRests, CommandsRest DEF ClientIInv, clientVars
<1> QED BY <1>1, <1>2, <1>3, <1>4 DEF ClientNext

\* For any peers, uploads, scenarios and faults: the invariant of the discovery
\* waits, the V1 upload orchestrator and the CLI's commands holds always.
THEOREM ClientInvariant == ClientSpec => []ClientIInv
<1>1. ClientInit => ClientIInv
  BY ClientStarts
<1>2. ClientIInv /\ [ClientNext]_clientVars => ClientIInv'
  BY ClientSteps
<1> QED BY <1>1, <1>2, PTL DEF ClientSpec

\* A wait of peer discovery that ends complete leaves every archive it waited for
\* resolvable, and the peers it reports missing are exactly those it could not
\* resolve; an upload of the orchestrator that returns success stored every chunk
\* on every assignee, and never had more than a slice of chunks in memory.
THEOREM PushesAreReached == ClientSpec => []PushesReachTheirTargets
<1>1. ClientIInv => PushesReachTheirTargets
  <2> SUFFICES ASSUME ClientIInv PROVE PushesReachTheirTargets
    OBVIOUS
  <2>1. CompleteResolves /\ MissingIsUnresolved
    BY DEF ClientIInv, DiscoveryInv, MapsAgree, CompleteResolves, MissingIsUnresolved, resolve
  <2>2. SuccessIsReplicated
    BY DEF ClientIInv, UploadInv, PushedIsStored
  <2>3. BuffersAreBounded
    BY PendingIsFinite DEF ClientIInv, UploadInv, BuffersAreBounded
  <2> QED BY <2>1, <2>2, <2>3 DEF PushesReachTheirTargets
<1> QED BY <1>1, ClientInvariant, PTL

\* The parts of CommandsAreHonest follow from how the processes fit.
LEMMA HonestCommands ==
  ASSUME CommandInv, Told, \A q \in Procs : Fits(proc[q], told[q], chain, q \in mempool, q \in leases, Mined)
  PROVE  ReportsAreTrue /\ RegistersWithTargets /\ NothingLeftBehind /\ RouteFollowsRow
<1>1. ReportsAreTrue
  BY DEF ReportsAreTrue, Registered, Fits, ReportFits
<1>2. RegistersWithTargets
  <2> SUFFICES ASSUME NEW p \in Procs, proc[p].mine \/ p \in mempool
               PROVE  /\ proc[p].params.r > 0
                      /\ told[p].profile = "production" => proc[p].params.live /\ chain.r > 0
    BY DEF RegistersWithTargets
  <2>1. SentFits(proc[p], told[p], chain, p \in mempool)
    BY DEF Fits
  <2> QED BY <2>1 DEF SentFits, NeedsKey
<1>3. NothingLeftBehind
  BY DEF NothingLeftBehind, Fits, OpenFits
<1>4. RouteFollowsRow
  <2> SUFFICES ASSUME NEW p \in Procs, proc[p].net, told[p].cmd = "download"
               PROVE  CASE proc[p].route = "V2Private" -> chain.vis = "private" /\ told[p].seed
                        [] proc[p].route = "V2Public" -> chain.vis = "public"
                        [] OTHER -> proc[p].blind \/ chain.row = "none" \/ \E q \in Procs : proc[q].mine
    BY DEF RouteFollowsRow
  <2>1. /\ proc[p].route = "V2Private" => chain.vis = "private" /\ told[p].seed
        /\ proc[p].route = "V2Public" => chain.vis = "public"
        /\ proc[p].route \notin {"V2Private", "V2Public"} => proc[p].blind \/ chain.row = "none" \/ Mined
    BY DEF Fits, OpenFits
  <2> QED BY <2>1 DEF Mined
<1> QED BY <1>1, <1>2, <1>3, <1>4

\* What a command prints and exits with is so on chain, it registers only with
\* targets (from the chain in production), leaves no staging and no network open,
\* routes a download by the row, and a root has one manager: for any command
\* lines, chain and number of faults, and with processes killed at any place.
THEOREM CommandsHonest == ClientSpec => []CommandsAreHonest
<1>1. ClientIInv => CommandsAreHonest
  <2> SUFFICES ASSUME ClientIInv PROVE CommandsAreHonest
    OBVIOUS
  <2>1. ASSUME NEW p \in Procs
        PROVE  proc[p].code \in Codes /\ proc[p].retries \in 0..MaxRetries
    <3>1. proc[p] \in Processes
      BY DEF ClientIInv, CommandInv, CommandTypes
    <3> QED BY <3>1 DEF Processes
  <2>2. CASE CommandsOff /\ leases = {} /\ mempool = {}
    <3>1. \A p \in Procs : proc[p].pc = "off" /\ ~proc[p].mine /\ ~proc[p].net
      BY <2>2, FreshFits DEF CommandsOff
    <3>2. ReportsAreTrue /\ RegistersWithTargets /\ NothingLeftBehind /\ RouteFollowsRow /\ RootHasOneManager
      BY <2>2, <3>1 DEF ReportsAreTrue, RegistersWithTargets, NothingLeftBehind, RouteFollowsRow, RootHasOneManager
    <3>3. ClientTypeOK
      BY <2>1, <3>1 DEF ClientTypeOK, ClientIInv, DiscoveryInv, DiscoveryTypes, UploadInv, UploadTypes,
         CommandInv, CommandTypes, Codes
    <3> QED BY <3>2, <3>3 DEF CommandsAreHonest
  <2>3. CASE ~(CommandsOff /\ leases = {} /\ mempool = {})
    <3>1. /\ Told /\ CommandInv
          /\ \A q \in Procs : Fits(proc[q], told[q], chain, q \in mempool, q \in leases, Mined)
          /\ \A p, q \in leases : p # q => told[p].root # told[q].root
          /\ leases \subseteq Procs
      BY <2>3 DEF ClientIInv, CommandInv, CommandTypes
    <3>2. \A p \in leases : Live(p)
      BY <3>1 DEF Fits, OpenFits, Live
    <3>3. \A p \in Procs : proc[p].pc = "report" => proc[p].outcome # Absent
      BY <3>1 DEF Fits, OutcomeFits
    <3>4. ClientTypeOK
      BY <2>1, <3>3 DEF ClientTypeOK, ClientIInv, DiscoveryInv, DiscoveryTypes, UploadInv, UploadTypes,
         CommandInv, CommandTypes, Codes
    <3> QED BY <3>1, <3>2, <3>4, HonestCommands DEF CommandsAreHonest, RootHasOneManager
  <2> QED BY <2>2, <2>3
<1> QED BY <1>1, ClientInvariant, PTL

=============================================================================
