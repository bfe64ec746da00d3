----------------------------- MODULE ArchiveStore -----------------------------
(***************************************************************************)
(* One archive node's store while V2 pushes, V1 market sync, garbage       *)
(* collection and crashes share it: V2Dispatcher::accept_validated         *)
(* (crates/sum-node/src/inbound_v2.rs), the sidecar records and GC list of *)
(* ManifestIndex (crates/sum-store/src/manifest_index.rs),                 *)
(* MarketSyncWorker::sync_cycle (crates/sum-node/src/market_sync.rs) and   *)
(* GarbageCollector (crates/sum-store/src/gc.rs).                          *)
(*                                                                         *)
(* A position is a (file, chunk index) pair.  Two positions may hold the   *)
(* same bytes, hence the same CID, in a V1 file and in a V2 file.  A push  *)
(* starts here validated: chain and Merkle checks decide which positions   *)
(* are Pushable.                                                           *)
(*                                                                         *)
(* ChunkStore::put and delete are the atomic steps ChunkPublication is     *)
(* shown to implement: after Ok the chunk is durable, after an error it    *)
(* may be there or not, and a deletion may be undone by power loss.        *)
(***************************************************************************)
EXTENDS Naturals

CONSTANTS
    Roots,       \* Merkle roots of files
    Positions,   \* chunk positions of those files
    CIDs,        \* content identifiers
    RootOf,      \* RootOf[p]: the file of position p
    CidOf,       \* CidOf[p]: the CID of the chunk at p
    Private,     \* the files the chain lists as Private
    Pushable,    \* positions of V2 files the validator accepts here
    Fundable,    \* files that may be in the chain's funded V1 list
    Handlers,    \* tasks handling V2 pushes
    Grace,       \* GC grace period, in ticks
    Faults,      \* how nodes go down: by "kill", or by "power" loss
    None         \* no task, or no L1 snapshot

ASSUME ArchiveAssumption ==
    /\ RootOf \in [Positions -> Roots]
    /\ CidOf \in [Positions -> CIDs]
    /\ Pushable \subseteq Positions
    /\ Private \subseteq Roots
    /\ Fundable \subseteq Roots \ Private
    /\ Grace \in Nat
    /\ Faults \subseteq {"kill", "power"}
    /\ None \notin Handlers

(* Records: one line of the GC list (keyed by CID), of <root>.private_chunks,
   of <root>.v2_proofs and of <root>.v2_held.  FileOf is the file a line is
   in: syncing a file makes every line of it durable. *)
GcRec(c)    == <<"gc", c>>
MapRec(p)   == <<"map", <<CidOf[p], RootOf[p]>>>>
ProofRec(p) == <<"proof", p>>
HeldRec(p)  == <<"held", p>>

Records == {GcRec(c) : c \in CIDs} \cup {MapRec(p) : p \in Positions}
             \cup {ProofRec(p) : p \in Positions} \cup {HeldRec(p) : p \in Positions}

FileOf(x) == CASE x[1] = "gc"  -> <<"gc", None>>
               [] x[1] = "map" -> <<"map", x[2][2]>>
               [] OTHER        -> <<x[1], RootOf[x[2]]>>

ManifestFile == {"absent", "torn", "whole"}

VARIABLES
    fault,     \* how this node goes down
    up,        \* the node is running
    \* -- on disk --
    chunks,    \* CIDs under their final names
    unsettled, \* CIDs whose presence a power loss may change
    lines,     \* records in the sidecar files, as a reader sees them
    durable,   \* those that would survive power loss
    gcInit,    \* the GC list and its marker exist
    mfile,     \* mfile[r]: the .cbor or .opaque file of r
    \* -- in memory --
    known,     \* records loaded or recorded: gc_protected, private_cid_to_root, ...
    gcIntact,  \* gc_protection_intact
    manifest,  \* manifest[r]: by_root, or private_bytes for a Private file
    held,      \* the dispatcher's held tracker
    pc,        \* pc[h]: where push handler h is
    pos,       \* pos[h]: the position it is storing
    writer,    \* the handler holding the store's write lock across its records
    fetching,  \* FetchManager's active V1 fetches
    snap,      \* L1 state the running sync cycle read, or None
    tracked,   \* GC: keys of unassigned_since
    age,       \* GC: age[c], ticks since c was first seen unassigned
    \* -- history --
    acked,     \* positions whose push was acknowledged
    mAcked,    \* files whose ManifestPush was acknowledged since power was lost
    calm       \* calm[c]: ticks since c appeared, was found in use, or startup

disk   == <<chunks, unsettled, lines, durable, gcInit, mfile>>
push   == <<pc, pos, writer>>
gc     == <<tracked, age>>
sync   == <<fetching, snap>>
hist   == <<acked, mAcked, calm>>
vars   == <<fault, up, chunks, unsettled, lines, durable, gcInit, mfile, known,
            gcIntact, manifest, held, pc, pos, writer, fetching, snap, tracked, age,
            acked, mAcked, calm>>

HandlerSteps == {"idle", "exempt", "put", "map", "proof", "held"}

Snapshots == [funded : SUBSET Fundable, mine : SUBSET Positions]

TypeOK ==
    /\ fault \in Faults
    /\ up \in BOOLEAN /\ gcInit \in BOOLEAN /\ gcIntact \in BOOLEAN
    /\ chunks \subseteq CIDs /\ unsettled \subseteq CIDs
    /\ fetching \subseteq CIDs /\ tracked \subseteq CIDs
    /\ durable \subseteq lines /\ lines \subseteq Records /\ known \subseteq lines
    /\ mfile \in [Roots -> ManifestFile] /\ manifest \in [Roots -> ManifestFile]
    /\ held \subseteq Positions /\ acked \subseteq Pushable /\ mAcked \subseteq Roots
    /\ pc \in [Handlers -> HandlerSteps] /\ pos \in [Handlers -> Pushable]
    /\ writer \in Handlers \cup {None}
    /\ writer \in Handlers => pc[writer] \in {"proof", "held"}
    /\ snap \in Snapshots \cup {None}
    /\ age \in [CIDs -> 0..Grace] /\ calm \in [CIDs -> 0..Grace]

-------------------------------------------------------------------------------
(* The store directory of an earlier version: chunks and manifests, no      *)
(* records yet.  The node is down.                                          *)
Init ==
    /\ fault \in Faults
    /\ up = FALSE /\ gcInit = FALSE /\ gcIntact = FALSE
    /\ chunks \in SUBSET CIDs
    /\ unsettled = {} /\ lines = {} /\ durable = {} /\ known = {}
    /\ mfile \in [Roots -> {"absent", "whole"}]
    /\ manifest = [r \in Roots |-> "absent"]
    /\ held = {} /\ writer = None
    /\ pc = [h \in Handlers |-> "idle"] /\ pos \in [Handlers -> Pushable]
    /\ fetching = {} /\ snap = None
    /\ tracked = {} /\ age = [c \in CIDs |-> 0]
    /\ acked = {} /\ mAcked = {} /\ calm = [c \in CIDs |-> 0]

\* Mutant: the store is not asked whether it has the chunk.
HeldFromRecords(recs, mans) ==
    {p \in Positions :
        \/ HeldRec(p) \in recs
        \/ mans[RootOf[p]] = "whole" /\ RootOf[p] \notin Private}

\* held_from_disk: recorded positions, and positions of Public manifests,
\* whose chunk is in the store.
HeldFromDisk(recs, mans) ==
    {p \in Positions :
        /\ CidOf[p] \in chunks
        /\ \/ HeldRec(p) \in recs
           \/ mans[RootOf[p]] = "whole" /\ RootOf[p] \notin Private}

\* Mutant: a corrupt .cbor is taken as it is.
LoadManifestUnchecked(r) == mfile[r]

\* A corrupt .cbor is skipped; an .opaque file is taken as it is.
LoadManifest(r) ==
    IF mfile[r] = "torn" /\ r \notin Private THEN "absent" ELSE mfile[r]

(* SumStore::new and the startup of run_listen: load every sidecar, seed    *)
(* the GC list on the first run of this version, rebuild the held tracker.  *)
(* The list may turn out unreadable or malformed; that disables GC and      *)
(* every push until the next start.                                         *)
Open ==
    /\ ~up
    /\ up' = TRUE
    /\ gcInit' = TRUE
    /\ IF gcInit
         THEN /\ gcIntact' \in BOOLEAN
              /\ known' = {x \in lines : x[1] = "gc" => gcIntact'}
              /\ UNCHANGED <<lines, durable>>
         ELSE /\ gcIntact' = TRUE
              /\ lines' = lines \cup {GcRec(c) : c \in chunks}
              /\ durable' = durable \cup {GcRec(c) : c \in chunks}
              /\ known' = lines'
    /\ manifest' = [r \in Roots |-> LoadManifest(r)]
    /\ held' = HeldFromDisk(known', manifest')
    /\ UNCHANGED <<chunks, unsettled, mfile, push, sync, gc, hist>>

-------------------------------------------------------------------------------
(* V2 Push.  accept_validated holds the write lock for the GC exemption,    *)
(* a read lock for the put, and the write lock again for its records.       *)

Unlocked == up /\ writer = None

BeginPush(h, p) ==
    /\ up /\ pc[h] = "idle"
    /\ pc' = [pc EXCEPT ![h] = "exempt"]
    /\ pos' = [pos EXCEPT ![h] = p]
    /\ UNCHANGED <<up, disk, known, gcIntact, manifest, held, writer, sync, gc, hist>>

\* The files a sync of x's file makes durable, x included.
Synced(x) == durable \cup {y \in lines \cup {x} : FileOf(y) = FileOf(x)}

\* Mutant: the line is written and not synced.
AppendUnsynced(x) ==
    IF x \in known
      THEN UNCHANGED <<lines, durable, known>>
      ELSE /\ lines' = lines \cup {x}
           /\ known' = known \cup {x}
           /\ UNCHANGED durable

\* An append that returned Ok: x is written and synced, unless it was known
\* already, in which case nothing is written and nothing is synced.
AppendOk(x) ==
    IF x \in known
      THEN UNCHANGED <<lines, durable, known>>
      ELSE /\ lines' = lines \cup {x}
           /\ durable' = Synced(x)
           /\ known' = known \cup {x}

\* An append that failed: the line may be in the file, and is not known.
AppendFailed(x) ==
    /\ x \notin known
    /\ lines' \in {lines, lines \cup {x}}
    /\ UNCHANGED <<durable, known>>

\* record_v2_held_chunk before the chunk is written.
Exempt(h) ==
    LET x == GcRec(CidOf[pos[h]]) IN
    /\ Unlocked /\ pc[h] = "exempt"
    /\ x \in known \/ gcIntact
    /\ AppendOk(x)
    /\ pc' = [pc EXCEPT ![h] = "put"]
    /\ UNCHANGED <<up, chunks, unsettled, gcInit, mfile, gcIntact, manifest, held, pos,
                   writer, sync, gc, hist>>

\* The exemption cannot be recorded: the list is broken already, or the write
\* fails and breaks it, which stops all deletion.
ExemptFails(h) ==
    /\ Unlocked /\ pc[h] = "exempt"
    /\ GcRec(CidOf[pos[h]]) \notin known
    /\ \/ ~gcIntact /\ UNCHANGED <<lines, durable, known>>
       \/ gcIntact /\ AppendFailed(GcRec(CidOf[pos[h]]))
    /\ gcIntact' = FALSE
    /\ pc' = [pc EXCEPT ![h] = "idle"]
    /\ UNCHANGED <<up, chunks, unsettled, gcInit, mfile, manifest, held, pos, writer,
                   sync, gc, hist>>

\* A chunk appears under its name; for `calm` it is a new arrival.
Arrive(c) ==
    /\ chunks' = chunks \cup {c}
    /\ calm' = IF c \in chunks THEN calm ELSE [calm EXCEPT ![c] = 0]

\* ChunkStore::put returned Ok: the chunk is durable, and so is every other
\* entry of the directory.
Stored(c) == Arrive(c) /\ unsettled' = {}

\* It failed: the name may be there all the same, not durably.
NotStored(c) ==
    \/ UNCHANGED <<chunks, unsettled, calm>>
    \/ c \notin chunks /\ Arrive(c) /\ unsettled' = unsettled \cup {c}

PutOk(h) ==
    /\ Unlocked /\ pc[h] = "put"
    /\ Stored(CidOf[pos[h]])
    /\ pc' = [pc EXCEPT ![h] = IF RootOf[pos[h]] \in Private THEN "map" ELSE "proof"]
    /\ UNCHANGED <<up, lines, durable, gcInit, mfile, known, gcIntact, manifest, held, pos,
                   writer, sync, gc, acked, mAcked>>

PutFails(h) ==
    /\ Unlocked /\ pc[h] = "put"
    /\ NotStored(CidOf[pos[h]])
    /\ pc' = [pc EXCEPT ![h] = "idle"]
    /\ UNCHANGED <<up, lines, durable, gcInit, mfile, known, gcIntact, manifest, held, pos,
                   writer, sync, gc, acked, mAcked>>

\* record_private_chunk_cid refuses to move a CID to another file.
MapConflict(p) ==
    \E q \in Positions : MapRec(q) \in known /\ CidOf[q] = CidOf[p] /\ RootOf[q] # RootOf[p]

\* The first record of a Private push, and the lock the other two are under.
RecordMap(h) ==
    /\ Unlocked /\ pc[h] = "map"
    /\ ~MapConflict(pos[h])
    /\ AppendOk(MapRec(pos[h]))
    /\ writer' = h
    /\ pc' = [pc EXCEPT ![h] = "proof"]
    /\ UNCHANGED <<up, chunks, unsettled, gcInit, mfile, gcIntact, manifest, held, pos,
                   sync, gc, hist>>

\* record_pushed_proof, under the lock record_held needs next.
RecordProof(h) ==
    /\ up /\ writer \in {None, h} /\ pc[h] = "proof"
    /\ AppendOk(ProofRec(pos[h]))
    /\ writer' = h
    /\ pc' = [pc EXCEPT ![h] = "held"]
    /\ UNCHANGED <<up, chunks, unsettled, gcInit, mfile, gcIntact, manifest, held, pos,
                   sync, gc, hist>>

\* Mutant: the write lock is not released.
RecordHeldKeepsLock(h) ==
    /\ up /\ writer = h /\ pc[h] = "held"
    /\ AppendOk(HeldRec(pos[h]))
    /\ held' = held \cup {pos[h]}
    /\ acked' = acked \cup {pos[h]}
    /\ pc' = [pc EXCEPT ![h] = "idle"]
    /\ UNCHANGED <<up, chunks, unsettled, gcInit, mfile, gcIntact, manifest, pos, writer,
                   sync, gc, mAcked, calm>>

\* record_held: the durable record, then the tracker; the push is acknowledged.
RecordHeld(h) ==
    /\ up /\ writer = h /\ pc[h] = "held"
    /\ AppendOk(HeldRec(pos[h]))
    /\ held' = held \cup {pos[h]}
    /\ acked' = acked \cup {pos[h]}
    /\ writer' = None
    /\ pc' = [pc EXCEPT ![h] = "idle"]
    /\ UNCHANGED <<up, chunks, unsettled, gcInit, mfile, gcIntact, manifest, pos, sync, gc,
                   mAcked, calm>>

\* The record handler h is writing.
Writing(h) ==
    CASE pc[h] = "exempt" -> GcRec(CidOf[pos[h]])
      [] pc[h] = "map"    -> MapRec(pos[h])
      [] pc[h] = "proof"  -> ProofRec(pos[h])
      [] OTHER            -> HeldRec(pos[h])

\* One of the three records cannot be written; the push is refused.
RecordFails(h) ==
    /\ up /\ writer \in {None, h} /\ pc[h] \in {"map", "proof", "held"}
    /\ \/ AppendFailed(Writing(h))
       \/ pc[h] = "map" /\ MapConflict(pos[h]) /\ UNCHANGED <<lines, durable, known>>
    /\ writer' = None
    /\ pc' = [pc EXCEPT ![h] = "idle"]
    /\ UNCHANGED <<up, chunks, unsettled, gcInit, mfile, gcIntact, manifest, held, pos,
                   sync, gc, hist>>

-------------------------------------------------------------------------------
(* Manifests: handle_manifest_push once the chain has told the visibility   *)
(* and a Public manifest has been validated (a refusal before that changes  *)
(* nothing).  Public manifests also arrive by V1 push, V1 pull and re-fetch,*)
(* through the same insert.  The file is written in place and not synced.   *)
ManifestPush(r) ==
    /\ Unlocked
    /\ IF manifest[r] # "absent"
         THEN UNCHANGED <<manifest, mfile>>
         ELSE /\ mfile' = [mfile EXCEPT ![r] = "whole"]
              /\ manifest' = [manifest EXCEPT ![r] = "whole"]
    /\ mAcked' = mAcked \cup {r}
    /\ UNCHANGED <<up, chunks, unsettled, lines, durable, gcInit, known, gcIntact, held,
                   push, sync, gc, acked, calm>>

\* fs::write failed part-way: the push is refused and the fragment stays.
ManifestPushFails(r) ==
    /\ Unlocked /\ manifest[r] = "absent"
    /\ mfile' = [mfile EXCEPT ![r] = "torn"]
    /\ UNCHANGED <<up, chunks, unsettled, lines, durable, gcInit, known, gcIntact, manifest,
                   held, push, sync, gc, hist>>

-------------------------------------------------------------------------------
(* Market sync, V1 files only.                                              *)

\* The funded files and this archive's share of them, read from the chain at
\* the start of the cycle.  The chain may answer anything.
SyncBegin ==
    /\ up /\ snap = None
    /\ snap' \in Snapshots
    /\ snap'.funded # {}
    /\ \A p \in snap'.mine : RootOf[p] \in snap'.funded
    /\ UNCHANGED <<up, disk, known, gcIntact, manifest, held, push, fetching, gc, hist>>

\* sync_file starts the fetch of an assigned chunk that is neither on disk nor
\* already in flight.
SyncFetch(p) ==
    /\ Unlocked /\ snap # None /\ p \in snap.mine
    /\ manifest[RootOf[p]] = "whole"
    /\ CidOf[p] \notin chunks \cup fetching
    /\ fetching' = fetching \cup {CidOf[p]}
    /\ UNCHANGED <<up, disk, known, gcIntact, manifest, held, push, snap, gc, hist>>

\* on_chunk_received completes the fetch with a put, or ends it with an error.
FetchEnds(c) ==
    /\ Unlocked /\ c \in fetching
    /\ fetching' = fetching \ {c}
    /\ Stored(c) \/ NotStored(c)
    /\ UNCHANGED <<up, lines, durable, gcInit, mfile, known, gcIntact, manifest, held, push,
                   snap, gc, acked, mAcked>>

PublicManifest(r) == r \notin Private /\ manifest[r] = "whole"

\* Mutant: the list of chunks accepted by V2 push is not subtracted.
CandidatesWithoutExemptions ==
    LET indexed    == {p \in Positions : PublicManifest(RootOf[p])}
        funded     == {p \in indexed : RootOf[p] \in snap.funded}
        unassigned == {CidOf[p] : p \in funded \ snap.mine}
        protected  == {CidOf[p] : p \in (funded \cap snap.mine) \cup (indexed \ funded)}
        private    == {c \in CIDs : \E r \in Roots : <<"map", <<c, r>>>> \in known}
    IN IF gcIntact THEN unassigned \ (protected \cup private) ELSE {}

\* compute_gc_candidates over the snapshot and the index as it is now.
Candidates ==
    LET indexed    == {p \in Positions : PublicManifest(RootOf[p])}
        funded     == {p \in indexed : RootOf[p] \in snap.funded}
        unassigned == {CidOf[p] : p \in funded \ snap.mine}
        protected  == {CidOf[p] : p \in (funded \cap snap.mine) \cup (indexed \ funded)}
        private    == {c \in CIDs : \E r \in Roots : <<"map", <<c, r>>>> \in known}
        exempt     == {c \in CIDs : GcRec(c) \in known}
    IN IF gcIntact THEN unassigned \ (protected \cup private \cup exempt) ELSE {}

\* first_seen of a candidate this sweep meets for the first time is now.
AgeNow(c) == IF c \in tracked THEN age[c] ELSE 0

Expired == {c \in Candidates \cap chunks : AgeNow(c) >= Grace}

\* Mutant: a chunk back in use keeps its first_seen.
SweepNeverForgets ==
    /\ Unlocked /\ snap # None
    /\ \E failed \in SUBSET Expired :
          LET deleted == Expired \ failed IN
          /\ chunks' = chunks \ deleted
          /\ unsettled' = unsettled \cup deleted
          /\ tracked' = (tracked \cup (chunks \cap Candidates)) \ deleted
    /\ age' = [c \in CIDs |-> IF c \in tracked' THEN AgeNow(c) ELSE 0]
    /\ calm' = [c \in CIDs |-> IF c \in Candidates THEN calm[c] ELSE 0]
    /\ snap' = None
    /\ UNCHANGED <<up, lines, durable, gcInit, mfile, known, gcIntact, manifest, held, push,
                   fetching, acked, mAcked>>

\* compute_gc_candidates and sweep_candidates under one write guard, at the end
\* of the cycle.  last_l1_poll is set to the present when the guard is asked
\* for, not when the L1 was read, so the age of snap does not matter.  A deletion
\* may fail; its chunk stays tracked.
Sweep ==
    /\ Unlocked /\ snap # None
    /\ \E failed \in SUBSET Expired :
          LET deleted == Expired \ failed IN
          /\ chunks' = chunks \ deleted
          /\ unsettled' = unsettled \cup deleted
          /\ tracked' = ((tracked \cup chunks) \cap Candidates) \ deleted
    /\ age' = [c \in CIDs |-> IF c \in tracked' THEN AgeNow(c) ELSE 0]
    /\ calm' = [c \in CIDs |-> IF c \in Candidates THEN calm[c] ELSE 0]
    /\ snap' = None
    /\ UNCHANGED <<up, lines, durable, gcInit, mfile, known, gcIntact, manifest, held, push,
                   fetching, acked, mAcked>>

\* The guard came too late for gc.rs's age check, or the directory could not be
\* listed: the cycle ends and the tracking is as it was.
SweepSkipped ==
    /\ Unlocked /\ snap # None
    /\ snap' = None
    /\ UNCHANGED <<up, disk, known, gcIntact, manifest, held, push, fetching, gc, hist>>

Next1(n, cap) == IF n < cap THEN n + 1 ELSE cap

Tick ==
    /\ up
    /\ age' = [c \in CIDs |-> IF c \in tracked THEN Next1(age[c], Grace) ELSE 0]
    /\ calm' = [c \in CIDs |-> Next1(calm[c], Grace)]
    /\ UNCHANGED <<up, disk, known, gcIntact, manifest, held, push, fetching, snap, tracked,
                   acked, mAcked>>

-------------------------------------------------------------------------------
(* Going down.  Memory is lost; an append, a put or a manifest write that   *)
(* was under way may have reached the files.                                *)

\* At most one handler is writing a record: it has the write lock.
MidAppend ==
    {{}} \cup {{Writing(h)} : h \in {g \in Handlers :
                  /\ pc[g] \in {"exempt", "map", "proof", "held"}
                  /\ pc[g] = "exempt" => gcIntact
                  /\ writer \in {None, g}
                  /\ Writing(g) \notin known}}

MidPut == {CidOf[pos[h]] : h \in {g \in Handlers : pc[g] = "put"}} \cup fetching

MidWrite == {r \in Roots : manifest[r] = "absent"}

LoseMemory ==
    /\ up /\ up' = FALSE
    /\ known' = {} /\ held' = {} /\ gcIntact' = FALSE
    /\ manifest' = [r \in Roots |-> "absent"]
    /\ pc' = [h \in Handlers |-> "idle"] /\ writer' = None
    /\ fetching' = {} /\ snap' = None
    /\ tracked' = {} /\ age' = [c \in CIDs |-> 0] /\ calm' = [c \in CIDs |-> 0]
    /\ UNCHANGED <<gcInit, pos, acked>>

\* The process dies: the files stay as the kernel has them.
Kill ==
    /\ fault = "kill"
    /\ LoseMemory
    /\ UNCHANGED mAcked
    /\ \E x \in MidAppend : lines' = lines \cup x
    /\ durable' = durable
    /\ \E new \in SUBSET (MidPut \ chunks) :
          chunks' = chunks \cup new /\ unsettled' = unsettled \cup new
    /\ \/ mfile' = mfile
       \/ /\ writer = None /\ lines' = lines
          /\ \E r \in MidWrite : mfile' = [mfile EXCEPT ![r] = "torn"]

\* Power is lost: unsynced lines, unsettled entries and manifest files, which
\* are never synced, may be lost or cut.
PowerLoss ==
    /\ fault = "power"
    /\ LoseMemory
    /\ mAcked' = {}
    /\ \E x \in MidAppend : \E kept \in SUBSET ((lines \cup x) \ durable) :
          lines' = durable \cup kept
    /\ durable' = lines'
    /\ \E kept \in SUBSET (unsettled \cup (MidPut \ chunks)) :
          chunks' = (chunks \ unsettled) \cup kept
    /\ unsettled' = {}
    /\ \E w \in {{}} \cup {{r} : r \in MidWrite} :
          mfile' \in {f \in [Roots -> ManifestFile] :
                        \A r \in Roots \ w : mfile[r] = "absent" => f[r] = "absent"}

Next ==
    /\ UNCHANGED fault
    /\ \/ Open
       \/ \E h \in Handlers :
             \/ \E p \in Pushable : BeginPush(h, p)
             \/ Exempt(h) \/ ExemptFails(h) \/ PutOk(h) \/ PutFails(h)
             \/ RecordMap(h) \/ RecordProof(h) \/ RecordHeld(h) \/ RecordFails(h)
       \/ \E r \in Roots : ManifestPush(r) \/ ManifestPushFails(r)
       \/ SyncBegin \/ Sweep \/ SweepSkipped
       \/ \E p \in Positions : SyncFetch(p)
       \/ \E c \in CIDs : FetchEnds(c)
       \/ Tick
       \/ Kill \/ PowerLoss

Spec == Init /\ [][Next]_vars

-------------------------------------------------------------------------------
(* Properties                                                              *)

RecordsOf(p) ==
    {ProofRec(p), HeldRec(p)} \cup (IF RootOf[p] \in Private THEN {MapRec(p)} ELSE {})

\* A position whose push was acknowledged is never forgotten and its chunk
\* never deleted: whenever the node runs, through any number of restarts,
\* failed writes and sweeps, the chunk is on disk, its proof (and, for a
\* Private file, its cid-to-root mapping) is at hand, and the held tracker has
\* it, so it can be served, proved and attested.
AckedSurvives ==
    up => \A p \in acked : CidOf[p] \in chunks /\ p \in held /\ RecordsOf(p) \subseteq known

\* The tracker that decides what is attested names only chunks that are on
\* disk: "Attests only chunks on disk" (docs/status/implementation-status.md:25).
\* That is so for every recorded position, even if a V1 registration reuses the
\* root of its file (market_sync.rs:438), and for every position of a root that
\* is in no V1 registration.
HeldIsOnDisk ==
    \A p \in held :
        RootOf[p] \notin Fundable \/ HeldRec(p) \in known => CidOf[p] \in chunks

\* A recorded position always has the records that must precede it: its proof,
\* its mapping if Private and, while the GC list is usable, its GC exemption
\* ("a chunk this version accepts is never recorded as held, and so never
\* attested, without its proof").
HeldIsComplete ==
    \A p \in Positions : HeldRec(p) \in known =>
        /\ RecordsOf(p) \subseteq known
        /\ gcIntact => GcRec(CidOf[p]) \in known

\* Garbage collection deletes a chunk only after it has been seen out of use
\* for the whole grace period: a chunk fetched again after a deletion, or used
\* again for a while, gets a full grace period, and so does every chunk after a
\* restart.
GraceRespected ==
    [][(up /\ up') => \A c \in chunks \ chunks' : calm[c] = Grace]_vars

\* An acknowledged Public manifest is served whole after a process restart.
PublicManifestKept ==
    up => \A r \in mAcked \ Private : manifest[r] = "whole"

\* The held tracker is backed: all it names is on disk with every record that
\* must precede it, and the variables have their types.
HeldIsBacked == TypeOK /\ HeldIsOnDisk /\ HeldIsComplete
===============================================================================
