--------------------------- MODULE DownloadBase ---------------------------
(***************************************************************************)
(* What the three download paths share: the file asked for, the peers this *)
(* node has identified, the requests it has outstanding and the chunks on  *)
(* its disk.  An archive is named by its L1 address and has one peer; its  *)
(* identity reaches this node with PeerIdentified (peer_state.rs).  Every  *)
(* request ends in exactly one event, a response of the peer asked or a    *)
(* failure (module Exchange); the requests still open are in wire.  A      *)
(* request no one waits for any more (a second manifest once the first is  *)
(* accepted, anything once the download has ended) is taken out of wire:   *)
(* its event is received and ignored.                                      *)
(***************************************************************************)
EXTENDS Naturals, Sequences, FiniteSets, SequencesExt

CONSTANTS
  Archives,
  None,           \* no archive
  Good,           \* archives that stay connected and serve what they hold
  MaxChunks,      \* bound: chunks of the file
  Ranking,        \* chunk -> its assigned archives, best ranked first
  Wanted,         \* the files asked for: [row, cids, kept], where row is the
                  \* visibility byte of the V2 row (None: no row), cids the
                  \* manifest's CIDs (equal chunks share one) and kept the CIDs
                  \* an earlier run left on disk
  MaxConcurrent   \* --max-concurrent

ASSUME DownloadAssumption ==
  /\ None \notin Archives /\ Good \subseteq Archives /\ IsFiniteSet(Archives)
  /\ \A f \in Wanted : /\ f.cids \in Seq(ToSet(f.cids)) /\ Len(f.cids) <= MaxChunks
                        /\ f.kept \subseteq ToSet(f.cids)
  /\ MaxConcurrent \in Nat /\ MaxChunks \in Nat
  /\ Ranking \in [1 .. MaxChunks -> Seq(Archives) \ {<<>>}]
  /\ \A c \in 1 .. MaxChunks : IsInjective(Ranking[c])

VARIABLES
  row,       \* visibility byte of storage_getFileInfoV2, or None
  cids,       \* the manifest's CIDs
  phase,     \* "start", "discover", "manifest", "chunks", "spin", "done", "failed"
  why,    \* why the download failed, "" before
  known,     \* archives in peer_addresses
  netUp,     \* the swarm task runs
  wire,      \* outstanding requests
  store,     \* CID -> bytes on disk: "none", "good", "wrong"
  output     \* the bytes written for each chunk

base == <<row, cids, phase, why, known, netUp, wire, store, output>>

size == Len(cids)
Chunks == 1 .. size
Cids == UNION {ToSet(f.cids) : f \in Wanted}

\* The first n numbers of S, and all of them in ascending order.
FirstOf(n, S) == {i \in S : Cardinality({j \in S : j < i}) < n}
InOrder(S) ==
  [k \in 1 .. Cardinality(S) |-> CHOOSE i \in S : Cardinality({j \in S : j < i}) = k - 1]

ManifestRequest(a) == [kind |-> "manifest", peer |-> a, idx |-> 0, off |-> 0]
ChunkRequest(a, c, o) == [kind |-> "chunk", peer |-> a, idx |-> c, off |-> o]

\* What a peer can answer: the bytes asked for, an error, a window that is
\* not the one asked for, or other bytes of the right length.
Answers == {"good", "error", "partial", "wrong"}

Holds(a, r) == r.kind = "manifest" \/ a \in ToSet(Ranking[r.idx])

\* A good archive serves what it holds and says it has not got the rest; any
\* other may answer anything.
Answer(r) ==
  IF r.peer \notin Good THEN Answers ELSE IF Holds(r.peer, r) THEN {"good"} ELSE {"error"}

Path ==
  IF row = None THEN "legacy" ELSE IF row = 0 THEN "public" ELSE IF row = 1 THEN "private" ELSE "refused"

BaseInit ==
  /\ \E f \in Wanted :
       /\ row = f.row /\ cids = f.cids
       /\ store = [d \in Cids |-> IF d \in f.kept THEN "good" ELSE "none"]
  /\ phase = "start" /\ why = "" /\ known = {} /\ netUp = TRUE /\ wire = {}
  /\ output = <<>>

Fail(reason) == phase' = "failed" /\ why' = reason /\ UNCHANGED output

\* Read every chunk back in order and write the file.
Assemble(bytes) ==
  /\ phase' = "done" /\ output' = [c \in Chunks |-> bytes[c]] /\ UNCHANGED why

Running == phase \in {"discover", "manifest", "chunks"}

\* The swarm task ends.  Requests can no longer be sent; the next event is
\* None once the queued ones are handled.
SwarmStops ==
  /\ Running /\ netUp /\ netUp' = FALSE
  /\ UNCHANGED <<row, cids, phase, why, known, wire, store, output>>

NetworkShutDown ==
  /\ Running /\ ~netUp /\ Fail("shutdown") /\ wire' = {}
  /\ UNCHANGED <<row, cids, known, netUp, store>>

Deadline ==
  /\ Running /\ Fail("deadline") /\ wire' = {}
  /\ UNCHANGED <<row, cids, known, netUp, store>>

BaseTypeOK ==
  /\ phase \in {"start", "discover", "manifest", "chunks", "spin", "done", "failed"}
  /\ known \subseteq Archives /\ netUp \in BOOLEAN
  /\ wire \subseteq [kind : {"manifest", "chunk"}, peer : Archives,
                     idx : 0 .. MaxChunks, off : Nat]
  /\ store \in [Cids -> {"none", "good", "wrong"}]
=============================================================================
