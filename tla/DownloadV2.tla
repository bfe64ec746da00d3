---------------------------- MODULE DownloadV2 ----------------------------
(***************************************************************************)
(* The Public (download.rs, run_v2_public) and Private (download_private   *)
(* .rs) downloads of a V2 file: the manifest is asked of the archives the  *)
(* chain assigned, several at a time, then every chunk of its own assigned *)
(* archives, one at a time in the chain's ranking (download_v2_routing.rs).*)
(***************************************************************************)
EXTENDS DownloadBase

CONSTANTS
  AddressOrder,  \* the archives in ascending address order
  Entries        \* possible access entries: "none", "nobundle", "expired", "ok"

ASSUME OrderAssumption == AddressOrder \in Seq(Archives)

VARIABLES
  entry,    \* the caller's access entry on chain
  status,   \* manifest status of each assigned archive
  order,    \* chunk -> archives in the order they are asked
  next,     \* chunk -> position of the next archive to ask
  flight,   \* chunk -> archive asked, or None
  got,      \* chunk -> bytes received and checked, "none" before
  skip,     \* skip_unresolved: UNRESOLVED_ARCHIVE_GRACE is over
  refused   \* history: <<chunk, archive>> that answered badly or failed

v2 == <<entry, status, order, next, flight, got, skip, refused>>

Assigned == UNION {ToSet(Ranking[c]) : c \in Chunks}

V2Init ==
  /\ entry \in IF row = 1 THEN Entries ELSE {"none"}
  /\ status = [a \in Archives |-> "none"] /\ order = Ranking
  /\ next = [c \in 1 .. MaxChunks |-> 1] /\ flight = [c \in 1 .. MaxChunks |-> None]
  /\ got = [c \in 1 .. MaxChunks |-> "none"] /\ skip = FALSE /\ refused = {}

AtLeastOne(n) == IF n = 0 THEN 1 ELSE n
Least(m, n) == IF m < n THEN m ELSE n

---------------------------------------------------------------------------
(* Manifest fan-out. *)

\* compute_manifest_fanout; the Public path has no upper clamp.
Fanout ==
  LET wanted == AtLeastOne(MaxConcurrent) IN
  Least(IF Path = "private" THEN Least(wanted, 3) ELSE wanted, Cardinality(Assigned))

InState(st, s) == {a \in Archives : st[a] = s}

\* select_manifest_dispatch: identified archives not tried yet, in address
\* order, until fanout are awaited.
ManifestTargets(st, ks) ==
  LET ready == {i \in DOMAIN AddressOrder : st[AddressOrder[i]] = "untried" /\ AddressOrder[i] \in ks}
      room == Fanout - Cardinality(InState(st, "dispatched"))
  IN {AddressOrder[i] : i \in FirstOf(room, ready)}

With(st, A, s) == [a \in Archives |-> IF a \in A THEN s ELSE st[a]]

\* dispatch_wave of the Private path: an archive that cannot be sent to is
\* failed.
PrivateWave(st, ks) ==
  With(st, ManifestTargets(st, ks), IF netUp THEN "dispatched" ELSE "failed")

\* That of the Public path goes on to the next archive, and so fails them all.
PublicWave(st, ks) ==
  IF netUp \/ ManifestTargets(st, ks) = {}
  THEN With(st, ManifestTargets(st, ks), "dispatched")
  ELSE With(st, InState(st, "untried") \cap ks, "failed")

\* Some archive was asked, or may yet be identified.
AnyAlive(st) == InState(st, "untried") \cup InState(st, "dispatched") # {}

\* A wave, then the test at the top of the loop.
DispatchWave(st, ks, w) ==
  LET after == IF Path = "public" THEN PublicWave(st, ks) ELSE PrivateWave(st, ks) IN
  /\ status' = after /\ known' = ks
  /\ wire' = IF netUp THEN w \cup {ManifestRequest(a) : a \in ManifestTargets(st, ks)} ELSE w
  /\ IF AnyAlive(after)
     THEN phase' = "manifest" /\ UNCHANGED <<why, output>>
     ELSE Fail("allfailed")

\* distinct_assigned, none of them tried.
ArchiveStatus == [a \in Archives |-> IF a \in Assigned THEN "untried" ELSE "none"]

\* The Private path reads the caller's entry, its bundle and its expiry before
\* anything else.  Either path ends if the chain cannot be read.
V2Start ==
  /\ phase = "start" /\ Path \in {"public", "private"}
  /\ \/ Fail("chain") /\ UNCHANGED <<known, wire, status>>
     \/ /\ Path = "private" /\ entry # "ok" /\ Fail("access")
        /\ UNCHANGED <<known, wire, status>>
     \/ /\ Path = "public" \/ entry = "ok"
        /\ DispatchWave(ArchiveStatus, known, wire)
  /\ UNCHANGED <<row, cids, netUp, store, entry, order, next, flight, got, skip, refused>>

---------------------------------------------------------------------------
(* Chunk dispatch. *)

\* next_assigned_archive: 0 when nothing can be asked now.
NextPos(ord, n, ks, sk) ==
  LET resolved == {p \in n .. Len(ord) : ord[p] \in ks} IN
  IF sk /\ resolved # {} THEN Min(resolved)
  ELSE IF n \in resolved THEN n ELSE 0

\* Mutant: the archive asked changes places with the next in line.
MarkAskedSwap(ord, n, pos) ==
  [ord EXCEPT ![n] = ord[pos], ![pos] = ord[n]]

\* mark_archive_asked: order[next..=pos] rotated right by one.
MarkAsked(ord, n, pos) ==
  [i \in DOMAIN ord |-> IF i = n THEN ord[pos]
                        ELSE IF i \in n + 1 .. pos THEN ord[i - 1] ELSE ord[i]]

InFlight(fl) == {c \in Chunks : fl[c] # None}

\* select_public_chunk_dispatches, select_chunks_to_dispatch: the chunks neither
\* received nor asked for that have an archive to ask.
Ready(nx, fl, gt, ks, sk) ==
  {c \in Chunks : gt[c] = "none" /\ fl[c] = None /\ NextPos(order[c], nx[c], ks, sk) # 0}

\* Mutant: what is already in flight is not counted.
ChunkTargetsUncounted(nx, fl, gt, ks, sk) ==
  LET ready == Ready(nx, fl, gt, ks, sk) IN
  FirstOf(AtLeastOne(MaxConcurrent), ready)

\* Of those, in manifest order, as many as max_concurrent has room for.
ChunkTargets(nx, fl, gt, ks, sk) ==
  LET ready == Ready(nx, fl, gt, ks, sk)
      room == AtLeastOne(MaxConcurrent) - Cardinality(InFlight(fl))
  IN FirstOf(room, ready)

\* Every chunk of to is asked of the archive at its position in line.
Ask(to, pos, fl, w) ==
  /\ order' = [c \in 1 .. MaxChunks |->
                 IF c \in to THEN MarkAsked(order[c], next[c], pos[c]) ELSE order[c]]
  /\ next' = [c \in 1 .. MaxChunks |-> IF c \in to THEN next[c] + 1 ELSE next[c]]
  /\ flight' = [c \in 1 .. MaxChunks |-> IF c \in to THEN order[c][pos[c]] ELSE fl[c]]
  /\ wire' = w \cup {ChunkRequest(order[c][pos[c]], c, 0) : c \in to}
  /\ phase' = "chunks" /\ UNCHANGED <<why, output>>

\* try_dispatch, try_dispatch_pending.  The download ends if a request cannot
\* be sent.
TryDispatch(fl, gt, ks, sk, w) ==
  LET to == ChunkTargets(next, fl, gt, ks, sk)
      pos == [c \in to |-> NextPos(order[c], next[c], ks, sk)] IN
  IF to # {} /\ ~netUp
  THEN Fail("send") /\ wire' = w /\ flight' = fl /\ UNCHANGED <<order, next>>
  ELSE Ask(to, pos, fl, w)

AllGot(gt) == \A c \in Chunks : gt[c] # "none"

\* The Public path reads the chunks back from disk; the Private path decrypts
\* what it received, and a chunk that does not decrypt ends the download.
AssembleV2(gt, st) ==
  IF Path = "public" THEN Assemble([c \in Chunks |-> st[cids[c]]])
  ELSE IF \E c \in Chunks : gt[c] = "wrong" THEN Fail("decrypt")
  ELSE Assemble(gt)

\* The Public path skips the chunks it has on disk.
Skipped == [c \in 1 .. MaxChunks |->
              IF Path = "public" /\ c \in Chunks THEN store[cids[c]] ELSE "none"]

\* The first requests of the chunk phase.  The Private path reads the assignment
\* from the chain again, which may fail.
BeginChunks(have) ==
  \/ TryDispatch(flight, have, known, FALSE, {})
  \/ Path = "private" /\ Fail("chain") /\ wire' = {} /\ UNCHANGED <<order, next, flight>>

\* ManifestData.  The first that decodes to the root asked for ends the fan-out.
V2Manifest(r, ans) ==
  /\ phase = "manifest" /\ r.kind = "manifest" /\ ans \in Answer(r)
  /\ \/ /\ ans = "good" /\ got' = Skipped
        /\ IF AllGot(Skipped)
           THEN AssembleV2(Skipped, store) /\ wire' = {} /\ UNCHANGED <<order, next, flight>>
           ELSE BeginChunks(Skipped)
        /\ UNCHANGED <<known, status, refused>>
     \/ /\ ans # "good" /\ refused' = refused \cup {<<0, r.peer>>}
        /\ DispatchWave([status EXCEPT ![r.peer] = "failed"], known, wire \ {r})
        /\ UNCHANGED <<order, next, flight, got>>
  /\ UNCHANGED <<row, cids, netUp, store, entry, skip>>

\* PeerIdentified and PeerDisconnected, in either phase.
V2PeerEvent(ks) ==
  /\ \/ /\ phase = "manifest" /\ DispatchWave(status, ks, wire)
        /\ UNCHANGED <<order, next, flight>>
     \/ /\ phase = "chunks" /\ known' = ks /\ TryDispatch(flight, got, ks, skip, wire)
        /\ UNCHANGED status
  /\ UNCHANGED <<row, cids, netUp, store, entry, got, skip, refused>>

\* The grace period is over: archives never identified may be passed over.
GraceOver ==
  /\ phase = "chunks" /\ Path # "legacy" /\ ~skip /\ skip' = TRUE
  /\ TryDispatch(flight, got, known, TRUE, wire)
  /\ UNCHANGED <<row, cids, known, netUp, store, entry, status, got, refused>>

\* cid_to_idx: of the chunks with one CID, the last.
IdxOf(d) == CHOOSE c \in Chunks : cids[c] = d /\ \A b \in Chunks : cids[b] = d => b <= c

\* Mutant: a window shorter than the chunk is taken for the chunk.
AcceptsPartial(ans) == ans # "error"

\* Mutant: the hash is not compared with the manifest's.
AcceptsAnyBytes(ans) == ans \in {"good", "wrong"}

\* offset, length and hash of the bytes of a Data response.
Accepts(ans) == ans = "good"

Exhausted(c) == next[c] > Len(order[c])

\* Mutant: the chunk is given up when its first archive fails.
NextArchiveOnce(c, r) ==
  /\ refused' = refused \cup {<<c, r.peer>>}
  /\ Fail("exhausted") /\ wire' = wire \ {r}
  /\ flight' = [flight EXCEPT ![c] = None]
  /\ UNCHANGED <<order, next, store, got>>

\* The archive asked for chunk c did not deliver.
NextArchive(c, r) ==
  /\ refused' = refused \cup {<<c, r.peer>>}
  /\ IF Exhausted(c)
     THEN /\ Fail("exhausted") /\ wire' = wire \ {r} /\ UNCHANGED <<order, next>>
          /\ flight' = [flight EXCEPT ![c] = None]
     ELSE TryDispatch([flight EXCEPT ![c] = None], got, known, skip, wire \ {r})
  /\ UNCHANGED <<store, got>>

\* Mutant: the Public path does not fill the slot either.
DeliverOnly(c, r, ans) ==
  LET gt == [got EXCEPT ![c] = ans]
      fl == [flight EXCEPT ![c] = None]
      st == IF Path = "public" THEN [store EXCEPT ![cids[c]] = ans] ELSE store IN
  /\ got' = gt /\ store' = st
  /\ IF AllGot(gt)
     THEN AssembleV2(gt, st) /\ wire' = wire \ {r} /\ flight' = fl /\ UNCHANGED <<order, next>>
     ELSE flight' = fl /\ wire' = wire \ {r} /\ UNCHANGED <<order, next, phase, why, output>>
  /\ UNCHANGED refused

\* Accepted bytes are stored, or kept in memory by the Private path; only the
\* Public path then fills the slot that came free.
Deliver(c, r, ans) ==
  LET gt == [got EXCEPT ![c] = ans]
      fl == [flight EXCEPT ![c] = None]
      st == IF Path = "public" THEN [store EXCEPT ![cids[c]] = ans] ELSE store IN
  /\ got' = gt /\ store' = st
  /\ IF AllGot(gt)
     THEN AssembleV2(gt, st) /\ wire' = wire \ {r} /\ flight' = fl /\ UNCHANGED <<order, next>>
     ELSE IF Path = "public" THEN TryDispatch(fl, gt, known, skip, wire \ {r})
     ELSE flight' = fl /\ wire' = wire \ {r} /\ UNCHANGED <<order, next, phase, why, output>>
  /\ UNCHANGED refused

Awaited(c, r) == got[c] = "none" /\ flight[c] = r.peer

Ignore(r) ==
  /\ wire' = wire \ {r}
  /\ UNCHANGED <<phase, why, store, output, order, next, flight, got, refused>>

V2Chunk(r, ans) ==
  LET c == IdxOf(cids[r.idx]) IN
  /\ phase = "chunks" /\ r.kind = "chunk" /\ ans \in Answer(r)
  /\ \/ ~Awaited(c, r) /\ Ignore(r)
     \/ Awaited(c, r) /\ Accepts(ans) /\ Deliver(c, r, ans)
     \/ Awaited(c, r) /\ ~Accepts(ans) /\ NextArchive(c, r)
  /\ UNCHANGED <<row, cids, known, netUp, entry, status, skip>>

\* Mutant: the Public path takes no notice of a failed chunk request.
V2RequestFailedDeaf(r) ==
  /\ \/ /\ Path = "public" /\ phase = "manifest" /\ r.kind = "manifest"
        /\ refused' = refused \cup {<<0, r.peer>>}
        /\ DispatchWave([status EXCEPT ![r.peer] = "failed"], known, wire \ {r})
        /\ UNCHANGED <<store, order, next, flight, got>>
     \/ ~(Path = "public" /\ phase = "manifest") /\ Ignore(r) /\ UNCHANGED <<known, status>>
  /\ UNCHANGED <<row, cids, netUp, entry, skip>>

\* ShardRequestFailed; the Private path has no arm for it.
V2RequestFailed(r) ==
  LET c == IdxOf(cids[r.idx]) IN
  /\ \/ /\ Path = "public" /\ phase = "manifest" /\ r.kind = "manifest"
        /\ refused' = refused \cup {<<0, r.peer>>}
        /\ DispatchWave([status EXCEPT ![r.peer] = "failed"], known, wire \ {r})
        /\ UNCHANGED <<store, order, next, flight, got>>
     \/ /\ Path = "public" /\ phase = "chunks" /\ r.kind = "chunk" /\ flight[c] = r.peer
        /\ NextArchive(c, r) /\ UNCHANGED <<known, status>>
     \/ /\ \/ Path = "private"
           \/ phase = "chunks" /\ r.kind = "chunk" /\ flight[c] # r.peer
        /\ Ignore(r) /\ UNCHANGED <<known, status>>
  /\ UNCHANGED <<row, cids, netUp, entry, skip>>

V2TypeOK ==
  /\ status \in [Archives -> {"none", "untried", "dispatched", "failed"}]
  /\ flight \in [1 .. MaxChunks -> Archives \cup {None}]
  /\ got \in [1 .. MaxChunks -> {"none", "good", "wrong"}]
  /\ \A c \in 1 .. MaxChunks : next[c] \in 1 .. Len(Ranking[c]) + 1
  /\ skip \in BOOLEAN
=============================================================================
