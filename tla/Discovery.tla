------------------------------ MODULE Discovery ------------------------------
(* The owner's peer discovery around a registration: S1a waits until every   *)
(* archive the file would be assigned to is identified, the file is          *)
(* registered, S2 waits again for the archives the chain pinned and then     *)
(* resolves its push targets (peer_discovery.rs, ingest_v2.rs).              *)
(*                                                                           *)
(* A peer's L1 address is derived from the same key as its PeerId, so a peer *)
(* is named by its address, and the map from peers to addresses is a set.    *)
(* The event channel is bounded and drops what does not fit.                 *)
EXTENDS Assignment

CONSTANTS
  Snapshots,   \* what the chain may list as active archives, in address order
  DScore,      \* the frozen scores
  DCount,      \* chunks of the file
  DR,          \* assignment_replication_factor
  DPeers,      \* addresses that connect and disconnect
  MaxEvents    \* bound on connections and disconnections

\* The archives of a snapshot are among the addresses that may connect.
ASSUME DiscoveryAssumption ==
  /\ MaxEvents \in Nat
  /\ \A s \in Snapshots : required_archives(DScore, s, 0..(DCount - 1), DR) \subseteq DPeers

VARIABLES
  dpc,        \* where the pipeline stands
  dstage,     \* "s1a" or "s2"
  connected,  \* addresses connected now
  queue,      \* events not read yet
  events,     \* number of connections and disconnections so far
  closed,     \* the swarm has shut down
  resolver,   \* MapPeerResolver: addresses with a live identified peer
  required,   \* ArchiveDiscovery.required
  alive,      \* ArchiveDiscovery.live
  late,       \* the deadline of this wait has passed
  verdict,    \* how the last wait ended, and what was missing
  pinned,     \* the snapshot S2 works with
  targets     \* push targets of S2: << chunk, address >>

dvars == << dpc, dstage, connected, queue, events, closed, resolver, required,
            alive, late, verdict, pinned, targets >>

DChunks == 0..(DCount - 1)
Missing == required \ alive

-----------------------------------------------------------------------------
(* The network *)

\* try_send: a full channel drops the event.
Announce(e) == queue' = Append(queue, e) \/ queue' = queue

Identify(p) ==
  /\ dpc # "off" /\ events < MaxEvents /\ ~closed /\ p \notin connected
  /\ connected' = connected \cup {p} /\ events' = events + 1
  /\ Announce([kind |-> "PeerIdentified", peer |-> p])
  /\ UNCHANGED << dpc, dstage, closed, resolver, required, alive, late, verdict,
                  pinned, targets >>

Disconnect(p) ==
  /\ dpc # "off" /\ events < MaxEvents /\ ~closed /\ p \in connected
  /\ connected' = connected \ {p} /\ events' = events + 1
  /\ Announce([kind |-> "PeerDisconnected", peer |-> p])
  /\ UNCHANGED << dpc, dstage, closed, resolver, required, alive, late, verdict,
                  pinned, targets >>

SwarmStops ==
  /\ dpc # "off" /\ events < MaxEvents /\ ~closed
  /\ closed' = TRUE /\ events' = events + 1
  /\ UNCHANGED << dpc, dstage, connected, queue, resolver, required, alive, late,
                  verdict, pinned, targets >>

-----------------------------------------------------------------------------
(* await_archives *)

resolve(a) == a \in resolver

\* Mutant: a second wait starts from nothing.
SeedNothing(need) == {}

\* What the resolver already knows of the archives needed.
seed(need) == {a \in need : resolve(a)}

BeginWait(stage, need) ==
  /\ dpc' = "check" /\ dstage' = stage
  /\ required' = need /\ alive' = seed(need) /\ late' = FALSE
  /\ verdict' = [how |-> "none", missing |-> {}]

\* apply_peer_event on a map.
apply_peer_event(map, e) ==
  IF e.kind = "PeerIdentified" THEN map \cup {e.peer} ELSE map \ {e.peer}

EndWait(how) ==
  /\ dpc' = "ended" /\ verdict' = [how |-> how, missing |-> Missing]
  /\ UNCHANGED << dstage, connected, queue, events, closed, resolver, required,
                  alive, late, pinned, targets >>

\* Completion comes before the deadline.
Status ==
  /\ dpc = "check"
  /\ \/ Missing = {} /\ EndWait("complete")
     \/ Missing # {} /\ late /\ EndWait("timedout")
     \/ /\ Missing # {} /\ ~late
        /\ dpc' = "select"
        /\ UNCHANGED << dstage, connected, queue, events, closed, resolver, required,
                        alive, late, verdict, pinned, targets >>

\* Mutant: only the discovery sees the event.
NextEventUnshared ==
  /\ dpc = "select" /\ queue # << >>
  /\ dpc' = "check" /\ queue' = Tail(queue)
  /\ alive' = apply_peer_event(alive, Head(queue))
  /\ UNCHANGED << dstage, connected, events, closed, resolver, required, late,
                  verdict, pinned, targets >>

\* Every event read goes to the resolver too.
NextEvent ==
  /\ dpc = "select" /\ queue # << >>
  /\ dpc' = "check" /\ queue' = Tail(queue)
  /\ alive' = apply_peer_event(alive, Head(queue))
  /\ resolver' = apply_peer_event(resolver, Head(queue))
  /\ UNCHANGED << dstage, connected, events, closed, required, late, verdict,
                  pinned, targets >>

NetworkClosed ==
  /\ dpc = "select" /\ queue = << >> /\ closed
  /\ EndWait("closed")

\* Mutant: the wait has no timer of its own.
TimerOnEventsOnly ==
  /\ dpc = "select" /\ late /\ queue # << >>
  /\ dpc' = "check"
  /\ UNCHANGED << dstage, connected, queue, events, closed, resolver, required,
                  alive, late, verdict, pinned, targets >>

\* sleep_until(deadline)
Timer ==
  /\ dpc = "select" /\ late
  /\ dpc' = "check"
  /\ UNCHANGED << dstage, connected, queue, events, closed, resolver, required,
                  alive, late, verdict, pinned, targets >>

DeadlinePasses ==
  /\ dpc \in {"check", "select"} /\ ~late
  /\ late' = TRUE
  /\ UNCHANGED << dpc, dstage, connected, queue, events, closed, resolver, required,
                  alive, verdict, pinned, targets >>

-----------------------------------------------------------------------------
(* The stages *)

\* s1a_require_archives: fewer archives than R refuse the file.
S1a ==
  /\ dpc = "start"
  /\ \E s \in Snapshots :
       IF Len(s) < DR
       THEN /\ dpc' = "refused"
            /\ UNCHANGED << dstage, required, alive, late, verdict >>
       ELSE BeginWait("s1a", required_archives(DScore, s, DChunks, DR))
  /\ UNCHANGED << connected, queue, events, closed, resolver, pinned, targets >>

\* A failed S1a registers nothing; otherwise S1 runs, the chain pins its own
\* snapshot, and S2 waits for that one.  Nobody reads events meanwhile.
AfterS1a ==
  /\ dpc = "ended" /\ dstage = "s1a"
  /\ IF verdict.how # "complete"
     THEN /\ dpc' = "refused"
          /\ UNCHANGED << dstage, required, alive, late, verdict, pinned >>
     ELSE \E s \in Snapshots :
            /\ pinned' = s
            /\ BeginWait("s2", required_archives(DScore, s, DChunks, DR))
  /\ UNCHANGED << connected, queue, events, closed, resolver, targets >>

\* s2_push_chunks: whatever the wait said, push to those that resolve.
ResolveTargets ==
  /\ dpc = "ended" /\ dstage = "s2"
  /\ dpc' = "pushing"
  /\ targets' = {t \in DChunks \X ToSet(pinned) :
                   /\ t[2] \in ToSet(assigned_archives(DScore, pinned, t[1], DR))
                   /\ resolve(t[2])}
  /\ UNCHANGED << dstage, connected, queue, events, closed, resolver, required,
                  alive, late, verdict, pinned >>

-----------------------------------------------------------------------------
DiscoveryIdle(state) ==
  /\ dpc = state /\ dstage = "s1a" /\ connected = {} /\ queue = << >>
  /\ events = 0 /\ closed = FALSE /\ resolver = {} /\ required = {} /\ alive = {}
  /\ late = FALSE /\ verdict = [how |-> "none", missing |-> {}]
  /\ pinned = << >> /\ targets = {}

DiscoverySteps ==
  \/ S1a \/ AfterS1a \/ ResolveTargets \/ Status \/ NextEvent \/ NetworkClosed
  \/ Timer \/ DeadlinePasses

DiscoveryNext ==
  \/ DiscoverySteps \/ SwarmStops
  \/ \E p \in DPeers : Identify(p) \/ Disconnect(p)

-----------------------------------------------------------------------------
(* Properties *)

\* A wait that ends complete leaves every archive it was for resolvable, so
\* that the push that follows has a target for it: the two maps, discovery's
\* and the resolver's, cannot drift apart over two waits.
CompleteResolves ==
  (dpc = "ended" /\ verdict.how = "complete") => \A a \in required : resolve(a)

\* What a failed wait reports as missing is what the push that follows cannot
\* reach, no more and no less.
MissingIsUnresolved ==
  (dpc = "ended" /\ verdict.how # "complete") =>
    verdict.missing = {a \in required : ~resolve(a)}

\* A wait ends, with or without events, by the deadline at the latest.
DiscoveryEnds == dpc \in {"check", "select"} ~> dpc \in {"ended", "refused", "pushing"}
=============================================================================
