---- MODULE MCConnections ----
EXTENDS Connections
CONSTANTS P, R

Ip(n) == [p |-> "ip", v |-> n]
Tcp(n) == [p |-> "tcp", v |-> n]

\* 2-bit addresses: 0 and 1 are in the allowed network, 2 is allowed for the
\* relay R only and 3 for P only, port 0 never; 1 is a LAN address.
MCAllow == {ParseNetwork(1, 1)} \cup
           {ParsePrefix(m) : m \in {n \in {<<Ip(2), Tcp(1), P2p(R)>>, <<P2p(P)>>,
                                           <<Ip(3), Tcp(1), P2p(P)>>,
                                           <<Ip(3), Tcp(0)>>} : Parses(n)}}
\* P offers a refused circuit; R offers P's address, which names P and is admitted.
MCOffers == {<<P, <<Ip(3), Tcp(1), P2p(R), Circuit, P2p(P)>>>>,
             <<R, <<Ip(3), Tcp(1), P2p(P)>>>>}
MCBootstrap == {<<Ip(0), Tcp(1), P2p(R)>>,
                <<Ip(2), Tcp(1), P2p(R), Circuit, P2p(P)>>}
MCRemotes == {<<Ip(2), Tcp(1)>>}
MCLan == {1}

\* Two connections with one circuit listener, or one with two.
Small == opened <= 1 \/ Cardinality({i \in DOMAIN conns : conns[i].peer # None}) <= 1

\* States that differ in the explicit gossipsub peers, which nothing reads, in the
\* order of the connections or in the ids of the listeners are one.
View == <<shared, relays, nat, reservation, opened, dialing, incoming, direct,
          [c \in {conns[i] : i \in DOMAIN conns} |->
             Cardinality({i \in DOMAIN conns : conns[i] = c})],
          [k \in {[l EXCEPT !.id = 0] : l \in listeners} |->
             Cardinality({l \in listeners : [l EXCEPT !.id = 0] = k})]>>
====
