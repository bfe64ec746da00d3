-------------------------- MODULE DownloadLegacy --------------------------
(***************************************************************************)
(* The V1 download (download.rs, run_with_manifest) with its FetchManager  *)
(* (fetch.rs): find a peer, ask every peer for the manifest, fetch the     *)
(* missing chunks window by window, put the file together.                 *)
(***************************************************************************)
EXTENDS DownloadBase

CONSTANT Windows  \* requests it takes to fetch one chunk

VARIABLES
  discovered,  \* discovered_peers, the one preferred as fallback first
  holders,     \* holder_map: chunk -> first identified assigned archive, or None
  remaining,   \* queue of chunks to fetch
  inFlight,    \* in_flight: CIDs counted against max_concurrent
  active,      \* FetchManager.active: CID -> [peer, off, bytes]
  fetched,     \* chunks_fetched
  total        \* total_to_fetch

legacy == <<discovered, holders, remaining, inFlight, active, fetched, total>>

Idle == [peer |-> None, off |-> 0, bytes |-> "good"]

LegacyInit ==
  /\ discovered = <<>> /\ holders = <<>> /\ remaining = <<>> /\ inFlight = {}
  /\ active = [d \in Cids |-> Idle] /\ fetched = 0 /\ total = 0

IsActive(a, d) == a[d].peer # None

PeerFor(c, h, disc) == IF h[c] # None THEN h[c] ELSE Head(disc)

\* Mutant: a chunk is asked for although its CID is being fetched.
StartableAgain(queue, act) == DOMAIN queue

\* The places in the queue of the chunks whose CID is not being fetched; of the
\* chunks that share a CID, the first.
Startable(queue, act) ==
  {i \in DOMAIN queue : /\ ~IsActive(act, cids[queue[i]])
                        /\ \A j \in 1 .. i - 1 : cids[queue[j]] # cids[queue[i]]}

\* fill_fetches: chunks are taken off the queue until max_concurrent are in
\* flight or none is left, and asked of their holder, or dropped if their CID
\* is being fetched.  With the swarm gone every start fails and goes back to
\* the queue, and the loop never comes to an end.
FillFetches(queue, flying, act, h, disc, w) ==
  LET room == MaxConcurrent - Cardinality(flying)
      start == FirstOf(room, Startable(queue, act))
      last == IF Cardinality(start) < room THEN Len(queue) ELSE Max(start \cup {0})
      begun == {queue[i] : i \in start}
      chunkOf(d) == CHOOSE c \in begun : cids[c] = d IN
  /\ IF start # {} /\ ~netUp
     THEN /\ phase' = "spin" /\ remaining' = queue /\ inFlight' = flying
          /\ active' = act /\ wire' = w
     ELSE /\ phase' = "chunks"
          /\ remaining' = SubSeq(queue, last + 1, Len(queue))
          /\ inFlight' = flying \cup {cids[c] : c \in begun}
          /\ active' = [d \in Cids |-> IF \E c \in begun : cids[c] = d
                                      THEN [Idle EXCEPT !.peer = PeerFor(chunkOf(d), h, disc)]
                                      ELSE act[d]]
          /\ wire' = w \cup {ChunkRequest(PeerFor(c, h, disc), c, 0) : c \in begun}
  /\ UNCHANGED <<why, output>>

\* PeerDiscovered.  A peer is asked for the manifest when it is first seen.
\* In the chunk phase it only joins the end of discovered_peers, of which the
\* first alone is read.
LegacyDiscovered(a) ==
  /\ phase \in {"discover", "manifest"} /\ a \notin ToSet(discovered)
  /\ discovered' = Append(discovered, a)
  /\ phase' = "manifest"
  /\ wire' = IF netUp THEN wire \cup {ManifestRequest(a)} ELSE wire
  /\ UNCHANGED <<row, cids, why, known, netUp, store, output,
                 holders, remaining, inFlight, active, fetched, total>>

\* PeerIdentified and PeerDisconnected only change peer_addresses, which is
\* read once, when the chunk phase begins.
LegacyPeerEvent(ks) ==
  /\ phase \in {"discover", "manifest"}
  /\ known' = ks
  /\ UNCHANGED <<row, cids, phase, why, netUp, wire, store, output>>
  /\ UNCHANGED legacy

Promote(a) ==
  IF a \notin ToSet(discovered) THEN <<a>> \o discovered
  ELSE LET i == CHOOSE n \in DOMAIN discovered : discovered[n] = a IN
       [j \in DOMAIN discovered |->
          IF j = 1 THEN a ELSE IF j = i THEN discovered[1] ELSE discovered[j]]

Missing == InOrder({c \in Chunks : store[cids[c]] = "none"})

\* build_holder_map: the archives the assignment at the finalized head gives
\* each chunk that are identified, none if the chain cannot be read.  Only the
\* first of them is ever asked.
HolderMap(l1Up) ==
  [c \in Chunks |->
     LET at == {i \in DOMAIN Ranking[c] : Ranking[c][i] \in known} IN
     IF l1Up /\ at # {} THEN Ranking[c][Min(at)] ELSE None]

\* The first valid manifest ends phase 2: its provider moves to the front, the
\* chunks not on disk are queued and routed by the holder map.
LegacyManifest(r, ans, l1Up) ==
  /\ phase = "manifest" /\ r.kind = "manifest" /\ ans \in Answer(r)
  /\ IF ans # "good"
     THEN /\ wire' = wire \ {r}
          /\ UNCHANGED <<phase, why, output, discovered, holders, remaining, inFlight,
                         active, total>>
     ELSE /\ discovered' = Promote(r.peer) /\ total' = Len(Missing) /\ holders' = HolderMap(l1Up)
          /\ IF Missing = <<>>
             THEN /\ Assemble([c \in Chunks |-> store[cids[c]]]) /\ wire' = {}
                  /\ UNCHANGED <<remaining, inFlight, active>>
             ELSE FillFetches(Missing, inFlight, active, holders', discovered', {})
  /\ UNCHANGED <<row, cids, known, netUp, store, fetched>>

\* FetchOutcome::Failed: the first chunk with that CID goes back to the queue.
Requeue(d) ==
  LET c == CHOOSE i \in Chunks : cids[i] = d /\ \A j \in Chunks : cids[j] = d => i <= j
  IN Append(remaining, c)

\* validate_response_metadata: a piece is the window expected of an open fetch.
ExpectedPiece(r, f, ans) ==
  f.peer # None /\ ans \notin {"error", "partial"} /\ r.off = f.off

\* on_chunk_received: the whole is checked against its CID.
Piece(r, ans) ==
  LET f == active[cids[r.idx]] IN
  IF ~ExpectedPiece(r, f, ans) THEN "failed"
  ELSE IF r.off + 1 < Windows THEN "more"
  ELSE IF ans = "good" /\ f.bytes = "good" THEN "complete" ELSE "failed"

LegacyChunk(r, ans) ==
  LET d == cids[r.idx]
      f == active[d]
      w == wire \ {r}
      outcome == Piece(r, ans) IN
  /\ phase = "chunks" /\ r.kind = "chunk" /\ ans \in Answer(r)
  /\ \/ /\ outcome = "more" /\ netUp
        /\ active' = [active EXCEPT ![d].off = r.off + 1,
                                    ![d].bytes = IF ans = "good" THEN @ ELSE "wrong"]
        /\ wire' = w \cup {ChunkRequest(f.peer, r.idx, r.off + 1)}
        /\ UNCHANGED <<phase, why, store, output, remaining, inFlight, fetched>>
     \/ /\ outcome = "complete" /\ fetched' = fetched + 1
        /\ store' = [store EXCEPT ![d] = "good"]
        /\ IF fetched' = total
           THEN /\ Assemble([c \in Chunks |-> store'[cids[c]]]) /\ wire' = w
                /\ active' = [active EXCEPT ![d] = Idle]
                /\ inFlight' = inFlight \ {d} /\ UNCHANGED remaining
           ELSE FillFetches(remaining, inFlight \ {d}, [active EXCEPT ![d] = Idle],
                            holders, discovered, w)
     \/ /\ outcome = "failed" \/ (outcome = "more" /\ ~netUp)
        /\ FillFetches(Requeue(d), inFlight \ {d}, [active EXCEPT ![d] = Idle],
                       holders, discovered, w)
        /\ UNCHANGED <<store, fetched>>
  /\ UNCHANGED <<row, cids, known, netUp, discovered, holders, total>>

\* ShardRequestFailed.  The chunk goes back to the queue; FetchManager is not
\* told.
LegacyRequestFailed(r) ==
  /\ \/ /\ phase = "chunks" /\ r.kind = "chunk" /\ cids[r.idx] \in inFlight
        /\ FillFetches(Requeue(cids[r.idx]), inFlight \ {cids[r.idx]}, active,
                       holders, discovered, wire \ {r})
     \/ /\ ~(phase = "chunks" /\ r.kind = "chunk" /\ cids[r.idx] \in inFlight)
        /\ wire' = wire \ {r}
        /\ UNCHANGED <<phase, why, output, remaining, inFlight, active>>
  /\ UNCHANGED <<row, cids, known, netUp, store, discovered, holders, fetched, total>>

LegacyTypeOK ==
  /\ ToSet(discovered) \subseteq Archives /\ ToSet(remaining) \subseteq Chunks
  /\ inFlight \subseteq Cids /\ fetched \in 0 .. total /\ total \in 0 .. size
=============================================================================
