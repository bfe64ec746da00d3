----------------------------- MODULE Download -----------------------------
(***************************************************************************)
(* A download from the chain row to the output file.  The row's visibility *)
(* byte alone decides the path (download_route.rs); an unknown byte is     *)
(* refused.  The three paths run over the same peers and the same disk.    *)
(***************************************************************************)
EXTENDS DownloadLegacy, DownloadV2

downloadVars == <<base, legacy, v2>>

DownloadInit == BaseInit /\ LegacyInit /\ V2Init

\* route_download_target.
Route ==
  /\ phase = "start"
  /\ \/ Path = "legacy" /\ phase' = "discover" /\ UNCHANGED <<why, output>>
     \/ Path = "refused" /\ Fail("visibility")
  /\ UNCHANGED <<row, cids, known, netUp, wire, store>>

Legacy(A) == Path = "legacy" /\ A /\ UNCHANGED v2
V2(A) == Path \in {"public", "private"} /\ A /\ UNCHANGED legacy

Discovered(a) == Legacy(LegacyDiscovered(a))

\* apply_peer_event.
Identified(a) ==
  /\ Running /\ netUp /\ a \notin known
  /\ Legacy(LegacyPeerEvent(known \cup {a})) \/ V2(V2PeerEvent(known \cup {a}))

Disconnected(a) ==
  /\ Running /\ netUp /\ a \in known \ Good
  /\ Legacy(LegacyPeerEvent(known \ {a})) \/ V2(V2PeerEvent(known \ {a}))

Response(r) ==
  \E ans \in Answers : \/ Legacy(\E up \in BOOLEAN : LegacyManifest(r, ans, up))
                       \/ Legacy(LegacyChunk(r, ans))
                       \/ V2(V2Manifest(r, ans))
                       \/ V2(V2Chunk(r, ans))

RequestFailed(r) ==
  /\ Running /\ r.peer \notin Good
  /\ Legacy(LegacyRequestFailed(r)) \/ V2(V2RequestFailed(r))

\* The one event every request ends with.
Settled(r) == Response(r) \/ RequestFailed(r)

DownloadNext ==
  \/ (Route \/ SwarmStops \/ NetworkShutDown \/ Deadline) /\ UNCHANGED <<legacy, v2>>
  \/ V2(V2Start) \/ V2(GraceOver)
  \/ \E a \in Archives : Discovered(a) \/ Identified(a) \/ Disconnected(a)
  \/ \E r \in wire : Settled(r)

DownloadSpec == DownloadInit /\ [][DownloadNext]_downloadVars

\* Chain reads return, timers fire, every request ends with its event, and an
\* archive that is up is discovered and identified.  The deadline and the end
\* of the swarm are not fair: they need not come.
Fairness ==
  /\ WF_downloadVars(Route /\ UNCHANGED <<legacy, v2>>) /\ WF_downloadVars(V2(V2Start)) /\ WF_downloadVars(V2(GraceOver))
  /\ \A a \in Good : WF_downloadVars(Discovered(a)) /\ WF_downloadVars(Identified(a))
  /\ \A a \in Archives, c \in 0 .. MaxChunks, o \in 0 .. Windows :
       WF_downloadVars(\E r \in wire : r.peer = a /\ r.idx = c /\ r.off = o /\ Settled(r))

FairSpec == DownloadSpec /\ Fairness

---------------------------------------------------------------------------
DownloadTypeOK == BaseTypeOK /\ LegacyTypeOK /\ V2TypeOK

\* Whatever the peers send, on whichever path, a download that reports success
\* has written the file's own bytes for every chunk.
OutputIsTheFile == phase = "done" => \A c \in Chunks : output[c] = "good"

\* A V2 download gives a chunk up only after every archive assigned to it was
\* asked and did not deliver, and gives the manifest up only after every
\* assigned archive was asked or could not be sent to.
GivesUpLast ==
  /\ why = "exhausted" =>
       \E c \in Chunks : \A a \in ToSet(Ranking[c]) : <<c, a>> \in refused
  /\ why = "allfailed" /\ netUp => \A a \in Assigned : <<0, a>> \in refused

\* Passing an archive over costs it nothing but its turn: the archives of a
\* chunk that were not asked yet stay in the chain's ranking, and none is lost
\* or asked twice (mark_archive_asked).
LineKeepsRank ==
  \A c \in Chunks :
    /\ ToSet(order[c]) = ToSet(Ranking[c]) /\ Len(order[c]) = Len(Ranking[c])
    /\ \A i, j \in next[c] .. Len(order[c]) :
         i < j => \E m, n \in DOMAIN Ranking[c] :
                    m < n /\ Ranking[c][m] = order[c][i] /\ Ranking[c][n] = order[c][j]

\* No more than max_concurrent chunks, or fanout manifests, are awaited at once.
CapIsKept ==
  /\ Cardinality(InFlight(flight)) <= AtLeastOne(MaxConcurrent)
  /\ Cardinality(InState(status, "dispatched")) <= Fanout
  /\ Cardinality(inFlight) <= MaxConcurrent

Distinct == \A b, c \in Chunks : cids[b] = cids[c] => b = c

\* A Public download awaits only answers that can still come: the archive a
\* chunk is pinned to has an open request for it, so no slot is held for ever.
\* This is for files whose chunks differ; equal chunks share one CID.
AwaitedIsAsked ==
  Path = "public" /\ phase = "chunks" /\ Distinct =>
    \A c \in Chunks : flight[c] # None => ChunkRequest(flight[c], c, 0) \in wire

\* A V1 fetch has at most one open request, so an answer that is applied to it
\* is never one that was meant for an earlier fetch of that CID.
OneRequestPerFetch ==
  \A d \in Cids : Cardinality({r \in wire : r.kind = "chunk" /\ Path = "legacy"
                                            /\ cids[r.idx] = d}) <= 1

Servable == size > 0 /\ Distinct /\ \A c \in Chunks : ToSet(Ranking[c]) \cap Good # {}

Ended == phase = "done" \/ ~netUp \/ why \in {"deadline", "chain"}

\* A Public download of a file every chunk of which a good archive holds
\* completes, whatever the other archives do, unless time runs out.
PublicCompletes == Path = "public" /\ Servable => <>Ended

\* Every archive of a chunk gets its turn: nothing is given up before, the line
\* keeps the chain's ranking, and what is awaited was asked, once and within
\* the cap.
NoArchiveIsMissed ==
  /\ DownloadTypeOK
  /\ GivesUpLast /\ LineKeepsRank
  /\ CapIsKept /\ AwaitedIsAsked /\ OneRequestPerFetch
=============================================================================
