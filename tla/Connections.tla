---------------------------- MODULE Connections ----------------------------
(***************************************************************************)
(* How one node learns addresses, dials, is dialed, and stays reachable    *)
(* behind NAT, under the outbound allow-list.  policy.rs decides, gate.rs  *)
(* asks it at every place where libp2p could open a connection or pass an  *)
(* address on, swarm.rs and nat.rs react to libp2p's events.               *)
(*                                                                         *)
(* An address is a sequence of components [p, v]: a host ("ip" with a      *)
(* number of Width bits, or "dns"), "tcp", "p2p" and "circuit".  libp2p    *)
(* and the remote peers are outside: they offer any address of Offers.     *)
(***************************************************************************)
EXTENDS Integers, Sequences, FiniteSets

CONSTANTS
  Peers,
  None,         \* no peer
  Offers,       \* set of <<peer, address>> that may be heard of
  Bootstrap,    \* set of bootstrap addresses, each with a p2p component
  Remotes,      \* transport addresses inbound connections come from
  Allow,        \* the allow-list entries; {} is "unrestricted"
  Width,        \* bits of an IP address
  Lan,          \* IP addresses that cannot be dialed over the WAN
  RelayCapable, \* peers whose identify advertises the relay hop protocol
  Mdns,         \* whether mDNS runs
  MaxConns,     \* bound: connections at a time
  MaxDials,     \* bound: dials in progress
  MaxListeners  \* bound: circuit listeners opened

Components ==
  [p : {"ip", "dns", "tcp", "circuit"}, v : Nat] \cup [p : {"p2p"}, v : Peers]
Addrs == Seq(Components)

\* The entries parsing gives.
ASSUME AllowAssumption ==
  /\ Width \in Nat
  /\ \A e \in Allow :
       \/ e \in [kind : {"network"}, addr : Nat, size : Nat \ {0}]
       \/ e \in [kind : {"prefix"}, components : Addrs, peer : Peers \cup {None}]

\* What is heard from outside is well formed; a bootstrap address names a peer.
ASSUME OutsideAssumption ==
  /\ Mdns \in BOOLEAN /\ None \notin Peers /\ MaxConns \in Nat /\ MaxListeners \in Nat
  /\ Offers \subseteq Peers \X Addrs /\ Remotes \subseteq Addrs /\ Bootstrap \subseteq Addrs
  /\ \A a \in Bootstrap : \E i \in 1 .. Len(a) : a[i].p = "p2p"

VARIABLES
  shared,       \* addresses the behaviours offer for a dial, kad table included
  explicit,     \* gossipsub explicit peers
  relays,       \* relay_peers: peer -> [addrs, confirmed]
  nat,          \* nat_status
  reservation,  \* active_relay_reservation: [state, peer]
  listeners,    \* circuit listeners libp2p has open
  opened,       \* how many circuit listeners were opened
  dialing,      \* outbound dials past the transport gate
  incoming,     \* inbound connections before the handshake
  conns,        \* established connections
  direct        \* direct_connections: peer -> count

vars == <<shared, explicit, relays, nat, reservation, listeners, opened,
          dialing, incoming, conns, direct>>

---------------------------------------------------------------------------
(* Allow-list matching (policy.rs). *)

Host(c) == c.p \in {"ip", "dns"}

\* The first address of the network of that size that ip is in: its host bits
\* cleared.
Mask(ip, size) == ip - (ip % size)

\* An entry is [kind "network", addr, size] with the host bits of addr cleared
\* and size 2 to the number of them, or [kind "prefix", components, peer] with
\* peer None if not pinned.
\* pin "defer" is for an inbound connection whose peer is not known yet.
Matches(entry, transport, peer, pin) ==
  IF entry.kind = "network"
  THEN transport[1].p = "ip" /\ Mask(transport[1].v, entry.size) = entry.addr
  ELSE /\ Len(entry.components) <= Len(transport)
       /\ \A i \in 1 .. Len(entry.components) : entry.components[i] = transport[i]
       /\ \/ entry.peer = None
          \/ peer # None /\ entry.peer = peer
          \/ peer = None /\ pin = "defer"

Has(addr, p) == \E i \in 1 .. Len(addr) : addr[i].p = p

\* The part of an address the connection really goes to: all of it, or what
\* comes before the first circuit component.
Segment(addr) ==
  IF Has(addr, "circuit")
  THEN SubSeq(addr, 1, (CHOOSE i \in 1 .. Len(addr) :
                          /\ addr[i].p = "circuit"
                          /\ \A j \in 1 .. i - 1 : addr[j].p # "circuit") - 1)
  ELSE addr

Named(seg) == seg # << >> /\ seg[Len(seg)].p = "p2p"

Transport(addr) ==
  LET seg == Segment(addr)
  IN  IF Named(seg) THEN SubSeq(seg, 1, Len(seg) - 1) ELSE seg

\* The peer at the other end of that part; the hint is ignored when relayed.
PeerOf(addr, hint) ==
  LET seg == Segment(addr)
  IN  IF Named(seg) THEN seg[Len(seg)].v
      ELSE IF Has(addr, "circuit") THEN None ELSE hint

\* Mutant: pins are never enforced.
DecideDeferred(addr, hint, pin) ==
  LET t == Transport(addr)
  IN  /\ t # << >> /\ Host(t[1]) /\ ~Has(t, "p2p")
      /\ \E e \in Allow : Matches(e, t, None, "defer")

Decide(addr, hint, pin) ==
  LET t == Transport(addr)
  IN  /\ t # << >> /\ Host(t[1]) /\ ~Has(t, "p2p")
      /\ \E e \in Allow : Matches(e, t, PeerOf(addr, hint), pin)

\* Parsing an entry: an IP network, masked, or a multiaddr of a host and at
\* most a port, its trailing p2p component a pin.  No circuit, no bare peer.
ParseNetwork(ip, prefix) ==
  LET size == 2 ^ (Width - prefix)
  IN  [kind |-> "network", addr |-> Mask(ip, size), size |-> size]

Parses(ma) ==
  LET body == IF Named(ma) THEN SubSeq(ma, 1, Len(ma) - 1) ELSE ma
  IN  /\ ~Has(ma, "circuit")
      /\ body # << >> /\ Host(body[1])
      /\ Len(body) <= 2
      /\ Len(body) = 2 => body[2].p = "tcp" /\ body[2].v # 0

ParsePrefix(ma) ==
  [kind |-> "prefix", components |-> Transport(ma), peer |-> PeerOf(ma, None)]

Restricted == Allow # {}

Allows(addr, hint) == Restricted => Decide(addr, hint, "enforce")

\* The check of a connection a remote peer opened: by the relay part of the
\* circuit it came in on, or by where it comes from.
InboundAllowed(local, remote, peer) ==
  Restricted =>
    IF Has(local, "circuit") THEN Decide(local, None, "enforce")
    ELSE Decide(remote, peer, IF peer = None THEN "defer" ELSE "enforce")

---------------------------------------------------------------------------
(* Addresses worth dialing (swarm.rs). *)

\* is_dialable_over_wan: the first host decides.
DialableOverWan(addr) ==
  \E i \in 1 .. Len(addr) :
    /\ Host(addr[i]) /\ \A j \in 1 .. i - 1 : ~Host(addr[j])
    /\ addr[i].p = "ip" => addr[i].v \notin Lan

P2p(peer) == [p |-> "p2p", v |-> peer]

Circuit == [p |-> "circuit", v |-> 0]

WithPeer(addr, peer) == IF Has(addr, "p2p") THEN addr ELSE Append(addr, P2p(peer))

\* pick_direct_dial_candidate; the peer chooses the order of its addresses.
DirectCandidates(addrs, peer) ==
  {WithPeer(a, peer) : a \in {b \in addrs : DialableOverWan(b) /\ ~Has(b, "circuit")}}

\* build_circuit_listen_addr: drop every p2p component, name the relay.
CircuitListenAddr(base, relay) ==
  IF Has(base, "circuit") THEN base
  ELSE SelectSeq(base, LAMBDA c : c.p # "p2p") \o <<P2p(relay), Circuit>>

---------------------------------------------------------------------------
\* A connection takes the first free place (which one does not matter).
FreeSlots ==
  {i \in 1 .. MaxConns : /\ conns[i].peer = None
                         /\ \A j \in 1 .. i - 1 : conns[j].peer # None}

(* Dialing.  The transport gate sees the address with its peer appended.    *)

Contact(addr, peer) ==
  [via |-> Transport(addr), at |-> PeerOf(addr, peer),
   relayed |-> Has(addr, "circuit")]

\* PolicyTransport::dial.  A refused dial fails at once.
StartDial(addr) ==
  /\ Cardinality(dialing) < MaxDials
  /\ dialing' = IF Allows(addr, None) THEN dialing \cup {addr} ELSE dialing

AddRelayAddrs(peer, addrs, confirm) ==
  relays' = [relays EXCEPT ![peer] =
               [addrs |-> @.addrs \cup {a \in addrs : DialableOverWan(a)},
                confirmed |-> @.confirmed \/ confirm]]

\* Request-response and gossipsub dial a peer by what the behaviours offer
\* (Gated filters what its behaviour keeps for itself by the same rule).
DialPeer(peer) ==
  \E s \in shared :
    /\ s[1] = peer
    /\ StartDial(WithPeer(s[2], peer))
    /\ UNCHANGED <<shared, explicit, relays, nat, reservation, listeners, opened,
                   incoming, conns, direct>>

\* bootstrap_kademlia, for one address; the peer is its first p2p component.
BootstrapKademlia(addr) ==
  LET peer == addr[CHOOSE i \in 1 .. Len(addr) :
                     addr[i].p = "p2p" /\ \A j \in 1 .. i - 1 : addr[j].p # "p2p"].v
  IN  /\ Allows(addr, peer)
      /\ shared' = shared \cup {<<peer, addr>>}
      /\ AddRelayAddrs(peer, {addr}, FALSE)
      /\ StartDial(addr)
      /\ UNCHANGED <<explicit, nat, reservation, listeners, opened,
                     incoming, conns, direct>>

\* The dial ends: libp2p checks that the peer is the one the address names.
Established(addr, peer) ==
  /\ addr \in dialing
  /\ dialing' = dialing \ {addr}
  /\ LET c == Contact(addr, peer)
         new == [peer |-> peer, via |-> c.via, at |-> c.at, relayed |-> c.relayed]
     IN  /\ addr[Len(addr)].p = "p2p" => addr[Len(addr)].v = peer
         /\ c.relayed => c.at # None
         /\ Allows(addr, peer)
         /\ \E i \in FreeSlots :
              conns' = [conns EXCEPT ![i] = new]
         /\ direct' = [direct EXCEPT ![peer] = IF c.relayed THEN @ ELSE @ + 1]
  /\ UNCHANGED <<shared, explicit, relays, nat, reservation, listeners,
                 opened, incoming>>

DialFails(addr) ==
  /\ addr \in dialing
  /\ dialing' = dialing \ {addr}
  /\ UNCHANGED <<shared, explicit, relays, nat, reservation, listeners,
                 opened, incoming, conns, direct>>

---------------------------------------------------------------------------
(* Inbound connections: judged before the handshake and again after it.     *)

\* The multiaddresses a connection can come in on.
Locals == ({<< >>} \cup {l.addr : l \in {m \in listeners : m.accepted}}) \cap Addrs

\* handle_pending_inbound_connection
PendingInbound(local, remote) ==
  /\ incoming = {}
  /\ InboundAllowed(local, remote, None)
  /\ incoming' = {[local |-> local, remote |-> remote]}
  /\ UNCHANGED <<shared, explicit, relays, nat, reservation, listeners,
                 opened, dialing, conns, direct>>

\* handle_established_inbound_connection
EstablishedInbound(in, peer) ==
  LET relayed == Has(in.local, "circuit")
      from == IF relayed THEN in.local ELSE in.remote
  IN  /\ in \in incoming
      /\ incoming' = incoming \ {in}
      /\ \/ /\ ~InboundAllowed(in.local, in.remote, peer)
            /\ UNCHANGED <<conns, direct>>
         \/ /\ InboundAllowed(in.local, in.remote, peer)
            /\ \E i \in FreeSlots :
                 conns' = [conns EXCEPT ![i] =
                   [peer |-> peer, via |-> Transport(from),
                    at |-> PeerOf(from, peer), relayed |-> relayed]]
            /\ direct' = [direct EXCEPT ![peer] = IF relayed THEN @ ELSE @ + 1]
      /\ UNCHANGED <<shared, explicit, relays, nat, reservation,
                     listeners, opened, dialing>>

NoConn == [peer |-> None, via |-> << >>, at |-> None, relayed |-> FALSE]

\* Mutant: no saturation, and a relayed connection counts down too.
ConnectionClosedUnchecked(i) ==
  /\ conns[i].peer # None
  /\ conns' = [conns EXCEPT ![i] = NoConn]
  /\ direct' = [direct EXCEPT ![conns[i].peer] = @ - 1]
  /\ UNCHANGED <<shared, explicit, relays, nat, reservation, listeners, opened,
                 dialing, incoming>>

\* Mutant: a relayed connection counts down too.
ConnectionClosedAny(i) ==
  /\ conns[i].peer # None
  /\ conns' = [conns EXCEPT ![i] = NoConn]
  /\ direct' = [direct EXCEPT ![conns[i].peer] = IF @ = 0 THEN @ ELSE @ - 1]
  /\ UNCHANGED <<shared, explicit, relays, nat, reservation, listeners,
                 opened, dialing, incoming>>

\* SwarmEvent::ConnectionClosed: saturating, and only direct ones count.
ConnectionClosed(i) ==
  /\ conns[i].peer # None
  /\ conns' = [conns EXCEPT ![i] = NoConn]
  /\ direct' = [direct EXCEPT ![conns[i].peer] =
                  IF conns[i].relayed \/ @ = 0 THEN @ ELSE @ - 1]
  /\ UNCHANGED <<shared, explicit, relays, nat, reservation, listeners,
                 opened, dialing, incoming>>

Connected == {conns[i].peer : i \in 1 .. MaxConns} \ {None}

---------------------------------------------------------------------------
(* Addresses heard of. *)

\* Mutant: learned addresses are published as they are.
PublishAll(peer, addrs) == shared \cup {<<peer, a>> : a \in addrs}

\* A gated behaviour publishes what it learned, unless refused (Gated::poll).
Publish(peer, addrs) ==
  shared \cup {<<peer, a>> : a \in {b \in addrs : Allows(b, peer)}}

\* mdns::Event::Discovered
MdnsDiscovered(peer, addr) ==
  /\ Mdns
  /\ shared' = Publish(peer, {addr})
  /\ explicit' = IF Allows(addr, peer) THEN explicit \cup {peer} ELSE explicit
  /\ UNCHANGED <<relays, nat, reservation, listeners, opened, dialing, incoming,
                 conns, direct>>

\* mdns::Event::Expired
MdnsExpired(peer) ==
  /\ Mdns
  /\ explicit' = explicit \ {peer}
  /\ UNCHANGED <<shared, relays, nat, reservation, listeners, opened, dialing,
                 incoming, conns, direct>>

\* kad::Event::RoutingUpdated
RoutingUpdated(peer) ==
  LET addrs == {o[2] : o \in {s \in shared : s[1] = peer}}
  IN  /\ addrs # {}
      /\ Restricted => \E a \in addrs : Allows(a, peer)
      /\ explicit' = explicit \cup {peer}
      /\ UNCHANGED <<shared, relays, nat, reservation, listeners, opened,
                     dialing, incoming, conns, direct>>

\* identify::Event::Received: everything works from the admitted addresses.
IdentifyReceived(peer, advertised) ==
  LET admitted == {a \in advertised : Allows(a, peer)}
  IN  /\ peer \in Connected
      /\ IF peer \in RelayCapable THEN AddRelayAddrs(peer, admitted, TRUE)
                                  ELSE UNCHANGED relays
      /\ shared' = Publish(peer, advertised)
      /\ IF direct[peer] = 0 /\ DirectCandidates(admitted, peer) # {}
         THEN \E a \in DirectCandidates(admitted, peer) : StartDial(a)
         ELSE UNCHANGED dialing
      /\ UNCHANGED <<explicit, nat, reservation, listeners, opened,
                     incoming, conns, direct>>

---------------------------------------------------------------------------
(* NAT status and the relay reservation (nat.rs). *)

Idle == [state |-> "none", peer |-> None]

\* autonat StatusChanged: reported only when the status is another one.
StatusPublic ==
  /\ nat # "public" /\ nat' = "public"
  /\ reservation' = Idle
  /\ UNCHANGED <<shared, explicit, relays, listeners, opened, dialing,
                 incoming, conns, direct>>

StatusUnknown ==
  /\ nat # "unknown" /\ nat' = "unknown"
  /\ UNCHANGED <<shared, explicit, relays, reservation, listeners, opened,
                 dialing, incoming, conns, direct>>

Candidates == {p \in Peers : relays[p].confirmed /\ relays[p].addrs # {}}

\* request_relay_reservation tries the bases in turn; some listen_on succeeds.
StatusPrivate ==
  /\ nat # "private" /\ nat' = "private"
  /\ IF reservation.state # "none" \/ Candidates = {}
     THEN UNCHANGED <<reservation, listeners, opened>>
     ELSE \E p \in Candidates : \E base \in relays[p].addrs :
            /\ opened < MaxListeners
            /\ reservation' = [state |-> "pending", peer |-> p]
            /\ listeners' = listeners \cup
                 {[peer |-> p, addr |-> CircuitListenAddr(base, p), id |-> opened,
                   accepted |-> FALSE]}
            /\ opened' = opened + 1
  /\ UNCHANGED <<shared, explicit, relays, dialing, incoming, conns, direct>>

\* relay::client ReservationReqAccepted, of a reservation or of its renewal:
\* libp2p gives the listener its address, which ends in the circuit component.
ReservationAccepted(l) ==
  /\ listeners' = (listeners \ {l}) \cup {[l EXCEPT !.accepted = TRUE]}
  /\ reservation' = IF reservation = [state |-> "pending", peer |-> l.peer]
                    THEN [reservation EXCEPT !.state = "active"] ELSE reservation
  /\ UNCHANGED <<shared, explicit, relays, nat, opened, dialing, incoming,
                 conns, direct>>

\* Mutant: the close of a circuit listener changes nothing.
ListenerClosedIgnored(l) ==
  /\ listeners' = listeners \ {l}
  /\ UNCHANGED <<shared, explicit, relays, nat, reservation, opened, dialing,
                 incoming, conns, direct>>

\* SwarmEvent::ListenerClosed for a circuit: denied, expired or failed.  The
\* reservation is reset if one of the addresses the listener had is a circuit,
\* whichever relay it was on.  A listener that closes before its reservation
\* was accepted had no address: a denial leaves the reservation pending, although
\* the arm in swarm.rs is meant to reset it.
ListenerClosed(l) ==
  /\ listeners' = listeners \ {l}
  /\ reservation' = IF l.accepted THEN Idle ELSE reservation
  /\ UNCHANGED <<shared, explicit, relays, nat, opened, dialing, incoming,
                 conns, direct>>

---------------------------------------------------------------------------

Init ==
  /\ shared = {} /\ explicit = {}
  /\ relays = [p \in Peers |-> [addrs |-> {}, confirmed |-> FALSE]]
  /\ nat = "unknown" /\ reservation = Idle
  /\ listeners = {} /\ opened = 0
  /\ dialing = {} /\ incoming = {}
  /\ conns = [i \in 1 .. MaxConns |-> NoConn]
  /\ direct = [p \in Peers |-> 0]

AddrsOf(peer) == {o[2] : o \in {f \in Offers : f[1] = peer}}

Next ==
  \/ \E a \in Bootstrap : BootstrapKademlia(a)
  \/ \E p \in Peers : DialPeer(p)
  \/ \E a \in dialing, p \in Peers : Established(a, p)
  \/ \E a \in dialing : DialFails(a)
  \/ \E l \in Locals, r \in Remotes : PendingInbound(l, r)
  \/ \E i \in incoming, p \in Peers : EstablishedInbound(i, p)
  \/ \E i \in 1 .. MaxConns : ConnectionClosed(i)
  \/ \E o \in Offers : MdnsDiscovered(o[1], o[2])
  \/ \E p \in Peers : MdnsExpired(p)
  \/ \E p \in Peers : RoutingUpdated(p)
  \/ \E p \in Peers : \E A \in SUBSET AddrsOf(p) : IdentifyReceived(p, A)
  \/ StatusPublic \/ StatusUnknown \/ StatusPrivate
  \/ \E l \in listeners : ReservationAccepted(l)
  \/ \E l \in listeners : ListenerClosed(l)

Spec == Init /\ [][Next]_vars

---------------------------------------------------------------------------
(* Properties *)

\* The state is well formed.
TypeOK ==
  /\ explicit \subseteq Peers
  /\ nat \in {"unknown", "public", "private"}
  /\ reservation \in [state : {"pending", "active"}, peer : Peers] \cup {Idle}
  /\ \A l \in listeners : l.peer \in Peers /\ l.id < opened
  /\ direct \in [Peers -> 0 .. MaxConns]
  /\ \A i \in 1 .. MaxConns : conns[i].peer \in Peers \cup {None}

\* Whatever was heard from whomever, a connection is open only to a machine
\* the allow-list names: the host, port and peer at the near end of it, the
\* relay for a relayed one.  This is judged on where the connection went,
\* not on how decide() took the address apart.
ContactsAreListed ==
  Restricted =>
    \A i \in 1 .. MaxConns :
      conns[i].peer # None =>
        \E e \in Allow :
          \/ /\ e.kind = "network"
             /\ conns[i].via[1].p = "ip"
             /\ conns[i].via[1].v \in e.addr .. e.addr + e.size - 1
          \/ /\ e.kind = "prefix"
             /\ SubSeq(conns[i].via, 1, Len(e.components)) = e.components
             /\ e.peer \in {None, conns[i].at}

\* A refused address is in no store another part of the node dials from: the
\* shared address book and the relay candidates; a circuit is listened on by way
\* of an admitted address of its relay.
NoRefusedAddressKept ==
  /\ \A s \in shared : Allows(s[2], s[1])
  /\ \A p \in Peers : \A a \in relays[p].addrs : Allows(a, p)
  /\ \A l \in listeners :
       \E a \in relays[l.peer].addrs :
         Allows(a, l.peer) /\ l.addr = CircuitListenAddr(a, l.peer)

\* The count that decides about the direct-dial shortcut is the number of
\* open direct connections, over any order of opening and closing.
DirectIsExact ==
  \A p \in Peers :
    direct[p] = Cardinality({i \in 1 .. MaxConns :
                               conns[i].peer = p /\ ~conns[i].relayed})

\* The node counts itself reachable through a relay only while a listener on
\* that relay, whose reservation was accepted, is open, over renewals, late
\* answers, a status that changes in between and listeners an earlier
\* reservation left behind; and it reserves only on a relay that identify
\* confirmed.
ActiveIsReachable ==
  /\ reservation # Idle => relays[reservation.peer].confirmed
  /\ reservation.state = "active" =>
       \E l \in listeners : l.peer = reservation.peer /\ l.accepted

\* The allow-list holds for connections and for the addresses that are kept.
PolicyHolds == ContactsAreListed /\ NoRefusedAddressKept

\* What the node believes about its direct connections and its reachability is
\* so.
BooksAreExact == TypeOK /\ DirectIsExact /\ ActiveIsReachable
===========================================================================
