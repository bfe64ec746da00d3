--------------------------- MODULE ChunkPublication ---------------------------
(***************************************************************************)
(* PublicationStore (crates/sum-store/src/publication.rs): how a chunk     *)
(* gets its final name, run by any number of concurrent callers of `put`,  *)
(* with deletions, I/O faults, process crashes and power loss.             *)
(*                                                                         *)
(* The file system is modelled by what a reader sees now and by what a     *)
(* power loss could leave: `dir` and `data` are the live view, `dirDisk`   *)
(* and `dataDisk` the sets of values each directory entry and each file    *)
(* may have afterwards.  A sync of a file or of the directory shrinks its  *)
(* sets to the live value.  Entries of the directory persist               *)
(* independently of each other, which is more than any journal allows.     *)
(*                                                                         *)
(* File contents are abstracted to what verify_file tells apart: content c *)
(* is the bytes whose BLAKE3 CID is c, and Torn is every other content.    *)
(***************************************************************************)
EXTENDS Naturals

CONSTANTS
    CIDs,          \* canonical chunk CIDs
    Callers,       \* threads that may be inside publish_with at once
    Inodes,        \* files this program can create
    LegacyInodes,  \* files an earlier program left in the root
    Torn,          \* content that hashes to no CID of interest
    NoInode        \* an absent directory entry, or no open file

ASSUME PublicationAssumption ==
    /\ Inodes \cap LegacyInodes = {}
    /\ NoInode \notin Inodes \cup LegacyInodes
    /\ Torn \notin CIDs

VARIABLES
    dir,        \* dir[c]: inode the final name "<c>.chunk" refers to
    dirDisk,    \* dirDisk[c]: values dir[c] may have after a power loss
    data,       \* data[i]: content of inode i
    dataDisk,   \* dataDisk[i]: contents inode i may have after a power loss
    pc,         \* pc[t]: where caller t is inside put/publish_with
    cid,        \* cid[t]: the CID caller t is publishing
    payload,    \* payload[t]: inode of the caller's own staged file
    existing,   \* existing[t]: inode verify_existing has open
    result,     \* result[t]: what publish_with is about to return
    unlinked,   \* history: the name was deleted after t linked or opened it
    promised    \* history: CIDs whose put returned Ok and were not deleted since

fs     == <<dir, dirDisk, data, dataDisk>>
vars   == <<dir, dirDisk, data, dataDisk, pc, cid, payload, existing, result,
            unlinked, promised>>

Files    == Inodes \cup LegacyInodes
Entry    == Files \cup {NoInode}
Contents == CIDs \cup {Torn}
Results  == {"none", "inserted", "duplicate", "error"}
Steps    == {"idle", "write", "verify_file", "file_sync", "link_payload",
             "sync_directory", "open_existing", "verify_existing",
             "existing_file_sync", "existing_directory_sync", "close"}

\* The steps of publish_with at which an operating-system call can fail.
IOSteps == Steps \ {"idle", "close"}

TypeOK ==
    /\ dir \in [CIDs -> Entry]
    /\ dirDisk \in [CIDs -> SUBSET Entry]
    /\ data \in [Files -> Contents]
    /\ dataDisk \in [Files -> SUBSET Contents]
    /\ pc \in [Callers -> Steps]
    /\ cid \in [Callers -> CIDs]
    /\ payload \in [Callers -> Inodes \cup {NoInode}]
    /\ existing \in [Callers -> Entry]
    /\ result \in [Callers -> Results]
    /\ unlinked \in [Callers -> BOOLEAN]
    /\ promised \in SUBSET CIDs
    /\ \A t \in Callers : payload[t] = NoInode <=> pc[t] = "idle"

-------------------------------------------------------------------------------
(* The root as SumStore::new may find it: empty, or holding files an       *)
(* earlier program wrote in place.  Such a file may be complete or torn,   *)
(* and nothing is known of its durability.                                 *)
Init ==
    /\ dir \in [CIDs -> LegacyInodes \cup {NoInode}]
    /\ \A c, e \in CIDs : dir[c] = dir[e] => c = e \/ dir[c] = NoInode
    /\ dirDisk = [c \in CIDs |-> {dir[c], NoInode}]
    /\ data \in [Files -> Contents]
    /\ \A i \in Inodes : data[i] = Torn
    /\ dataDisk = [i \in Files |-> {data[i], Torn}]
    /\ pc = [t \in Callers |-> "idle"]
    /\ cid \in [Callers -> CIDs]
    /\ payload = [t \in Callers |-> NoInode]
    /\ existing = [t \in Callers |-> NoInode]
    /\ result = [t \in Callers |-> "none"]
    /\ unlinked = [t \in Callers |-> FALSE]
    /\ promised = {}

\* Inodes no name can reach, now or after a power loss, and nobody has open.
Free == {i \in Inodes :
            /\ \A c \in CIDs : dir[c] # i /\ i \notin dirDisk[c]
            /\ \A t \in Callers : payload[t] # i /\ existing[t] # i}

Goto(t, step) == pc' = [pc EXCEPT ![t] = step]

\* The closure inside publish_with returns r; only the cleanup is left.
Return(t, r) ==
    /\ Goto(t, "close")
    /\ result' = [result EXCEPT ![t] = r]

-------------------------------------------------------------------------------
(* put: the CID is canonical and the bytes in memory hash to it (anything  *)
(* else is refused before the file system is touched), and a fresh         *)
(* ".publish-*" directory with an empty payload file is created.           *)
Put(t, c) ==
    /\ pc[t] = "idle"
    /\ \E i \in Free :
          /\ payload' = [payload EXCEPT ![t] = i]
          /\ data' = [data EXCEPT ![i] = Torn]
          /\ dataDisk' = [dataDisk EXCEPT ![i] = {Torn}]
    /\ cid' = [cid EXCEPT ![t] = c]
    /\ Goto(t, "write")
    /\ UNCHANGED <<dir, dirDisk, existing, result, unlinked, promised>>

\* write_all into the caller's own payload.
Write(t) ==
    /\ pc[t] = "write"
    /\ data' = [data EXCEPT ![payload[t]] = cid[t]]
    /\ dataDisk' = [dataDisk EXCEPT ![payload[t]] = @ \cup {cid[t]}]
    /\ Goto(t, "verify_file")
    /\ UNCHANGED <<dir, dirDisk, cid, payload, existing, result, unlinked, promised>>

\* verify_file reads the payload back and compares its hash with the CID.
VerifyPayload(t) ==
    /\ pc[t] = "verify_file"
    /\ data[payload[t]] = cid[t]
    /\ Goto(t, "file_sync")
    /\ UNCHANGED <<fs, cid, payload, existing, result, unlinked, promised>>

\* Mutant: the payload is linked without sync_all.
SyncPayloadSkipped(t) ==
    /\ pc[t] = "file_sync"
    /\ Goto(t, "link_payload")
    /\ UNCHANGED <<fs, cid, payload, existing, result, unlinked, promised>>

\* payload.sync_all()
SyncPayload(t) ==
    /\ pc[t] = "file_sync"
    /\ dataDisk' = [dataDisk EXCEPT ![payload[t]] = {data[payload[t]]}]
    /\ Goto(t, "link_payload")
    /\ UNCHANGED <<dir, dirDisk, data, cid, payload, existing, result, unlinked, promised>>

\* Mutant: rename, which replaces whatever has the name.
LinkPayloadReplaces(t) ==
    /\ pc[t] = "link_payload"
    /\ dir' = [dir EXCEPT ![cid[t]] = payload[t]]
    /\ dirDisk' = [dirDisk EXCEPT ![cid[t]] = @ \cup {payload[t]}]
    /\ unlinked' = [unlinked EXCEPT ![t] = FALSE]
    /\ Goto(t, "sync_directory")
    /\ UNCHANGED <<data, dataDisk, cid, payload, existing, result, promised>>

\* linkat gives the payload the final name only if that name is free; the
\* directory entry is not durable yet.
LinkPayload(t) ==
    /\ pc[t] = "link_payload"
    /\ dir[cid[t]] = NoInode
    /\ dir' = [dir EXCEPT ![cid[t]] = payload[t]]
    /\ dirDisk' = [dirDisk EXCEPT ![cid[t]] = @ \cup {payload[t]}]
    /\ unlinked' = [unlinked EXCEPT ![t] = FALSE]
    /\ Goto(t, "sync_directory")
    /\ UNCHANGED <<data, dataDisk, cid, payload, existing, result, promised>>

\* Mutant: EEXIST alone is taken for a published duplicate.
LinkExistsTrusted(t) ==
    /\ pc[t] = "link_payload"
    /\ dir[cid[t]] # NoInode
    /\ Return(t, "duplicate")
    /\ UNCHANGED <<fs, cid, payload, existing, unlinked, promised>>

\* EEXIST: somebody else's file has the name.  That says nothing about its
\* content or its durability, so verify_existing is entered.
LinkExists(t) ==
    /\ pc[t] = "link_payload"
    /\ dir[cid[t]] # NoInode
    /\ Goto(t, "open_existing")
    /\ UNCHANGED <<fs, cid, payload, existing, result, unlinked, promised>>

\* sync_directory after an insertion: every entry of the directory is durable.
SyncDirectory(t) ==
    /\ pc[t] = "sync_directory"
    /\ dirDisk' = [c \in CIDs |-> {dir[c]}]
    /\ Return(t, "inserted")
    /\ UNCHANGED <<dir, data, dataDisk, cid, payload, existing, unlinked, promised>>

\* verify_existing: open the final name; if it disappeared, the put fails and
\* its caller may retry.
OpenExisting(t) ==
    /\ pc[t] = "open_existing"
    /\ IF dir[cid[t]] = NoInode
         THEN /\ Return(t, "error")
              /\ UNCHANGED <<existing, unlinked>>
         ELSE /\ existing' = [existing EXCEPT ![t] = dir[cid[t]]]
              /\ unlinked' = [unlinked EXCEPT ![t] = FALSE]
              /\ Goto(t, "verify_existing")
              /\ UNCHANGED result
    /\ UNCHANGED <<fs, cid, payload, promised>>

\* Mutant: the duplicate's bytes are not compared with the CID.
VerifyExistingSkipped(t) ==
    /\ pc[t] = "verify_existing"
    /\ Goto(t, "existing_file_sync")
    /\ UNCHANGED <<fs, cid, payload, existing, result, unlinked, promised>>

\* The open file's hash is compared with the CID; a mismatch is an error.
VerifyExisting(t) ==
    /\ pc[t] = "verify_existing"
    /\ IF data[existing[t]] = cid[t]
         THEN Goto(t, "existing_file_sync") /\ UNCHANGED result
         ELSE Return(t, "error")
    /\ UNCHANGED <<fs, cid, payload, existing, unlinked, promised>>

SyncExisting(t) ==
    /\ pc[t] = "existing_file_sync"
    /\ dataDisk' = [dataDisk EXCEPT ![existing[t]] = {data[existing[t]]}]
    /\ Goto(t, "existing_directory_sync")
    /\ UNCHANGED <<dir, dirDisk, data, cid, payload, existing, result, unlinked, promised>>

SyncExistingDirectory(t) ==
    /\ pc[t] = "existing_directory_sync"
    /\ dirDisk' = [c \in CIDs |-> {dir[c]}]
    /\ Return(t, "duplicate")
    /\ UNCHANGED <<dir, data, dataDisk, cid, payload, existing, unlinked, promised>>

\* Any operating-system call of publish_with or verify_existing may fail; the
\* `?` leaves the closure with an error and nothing is undone but the staging.
Fault(t) ==
    /\ pc[t] \in IOSteps
    /\ Return(t, "error")
    /\ UNCHANGED <<fs, cid, payload, existing, unlinked, promised>>

\* Mutant: the staging directory is not released.
CloseLeaksPayload(t) ==
    /\ pc[t] = "close"
    /\ promised' = IF result[t] # "error" /\ ~unlinked[t]
                     THEN promised \cup {cid[t]} ELSE promised
    /\ Goto(t, "idle")
    /\ existing' = [existing EXCEPT ![t] = NoInode]
    /\ result' = [result EXCEPT ![t] = "none"]
    /\ unlinked' = [unlinked EXCEPT ![t] = FALSE]
    /\ UNCHANGED <<fs, cid, payload>>

\* staging.close() removes this attempt's directory, never the final name, and
\* publish_with returns.  Ok is the promise the store makes to its caller.
Close(t) ==
    /\ pc[t] = "close"
    /\ promised' = IF result[t] # "error" /\ ~unlinked[t]
                     THEN promised \cup {cid[t]} ELSE promised
    /\ Goto(t, "idle")
    /\ payload' = [payload EXCEPT ![t] = NoInode]
    /\ existing' = [existing EXCEPT ![t] = NoInode]
    /\ result' = [result EXCEPT ![t] = "none"]
    /\ unlinked' = [unlinked EXCEPT ![t] = FALSE]
    /\ UNCHANGED <<fs, cid>>

-------------------------------------------------------------------------------
(* delete: unlinkat of the final name.  The directory is not synced, so a  *)
(* power loss may bring the chunk back.                                    *)
Delete(c) ==
    /\ dir[c] # NoInode
    /\ dir' = [dir EXCEPT ![c] = NoInode]
    /\ dirDisk' = [dirDisk EXCEPT ![c] = @ \cup {NoInode}]
    /\ promised' = promised \ {c}
    /\ unlinked' = [t \in Callers |-> unlinked[t] \/ (cid[t] = c /\ pc[t] # "idle")]
    /\ UNCHANGED <<data, dataDisk, pc, cid, payload, existing, result>>

\* Every attempt is abandoned where it stands; what it staged is inert residue.
AbandonCalls ==
    /\ pc' = [t \in Callers |-> "idle"]
    /\ payload' = [t \in Callers |-> NoInode]
    /\ existing' = [t \in Callers |-> NoInode]
    /\ result' = [t \in Callers |-> "none"]
    /\ unlinked' = [t \in Callers |-> FALSE]
    /\ UNCHANGED <<cid, promised>>

\* The process dies (S3P_CRASH_AT in the code's own tests); the kernel keeps
\* its caches.
ProcessCrash ==
    /\ \E t \in Callers : pc[t] # "idle"
    /\ AbandonCalls
    /\ UNCHANGED fs

\* The machine loses power: every entry and file falls back to a value the
\* disk may hold, and the process that starts next sees only that.
PowerLoss ==
    /\ dir' \in [CIDs -> Entry]
    /\ \A c \in CIDs : dir'[c] \in dirDisk[c]
    /\ data' \in [Files -> Contents]
    /\ \A i \in Files : data'[i] \in dataDisk[i]
    /\ dirDisk' = [c \in CIDs |-> {dir'[c]}]
    /\ dataDisk' = [i \in Files |-> {data'[i]}]
    /\ AbandonCalls

Next ==
    \/ \E t \in Callers :
          \/ \E c \in CIDs : Put(t, c)
          \/ Write(t) \/ VerifyPayload(t) \/ SyncPayload(t)
          \/ LinkPayload(t) \/ LinkExists(t) \/ SyncDirectory(t)
          \/ OpenExisting(t) \/ VerifyExisting(t)
          \/ SyncExisting(t) \/ SyncExistingDirectory(t)
          \/ Fault(t) \/ Close(t)
    \/ \E c \in CIDs : Delete(c)
    \/ ProcessCrash
    \/ PowerLoss

Spec == Init /\ [][Next]_vars

-------------------------------------------------------------------------------
(* Properties                                                              *)

\* Whatever happens next, power loss included, a final name this program
\* created refers to a complete file with the bytes of its CID: publish_with
\* syncs the payload before linkat, so a link that survives never outlives its
\* content, and a deletion undone by a crash brings back a whole chunk.
PublishedIsWhole ==
    \A c \in CIDs : \A i \in dirDisk[c] \cup {dir[c]} :
        i \in Inodes => data[i] = c /\ dataDisk[i] = {c}

\* The name of c and the bytes behind it survive any crash.
Durable(c) ==
    /\ dir[c] # NoInode
    /\ dirDisk[c] = {dir[c]}
    /\ data[dir[c]] = c
    /\ dataDisk[dir[c]] = {c}

\* A chunk whose put returned Ok, and that was not deleted since, is under its
\* name with the right bytes now and after any crash: also when put found a
\* duplicate that another caller had linked but not synced, or that an earlier
\* program wrote in place ("A successful put also synchronizes a previously
\* published duplicate").
AckedIsDurable == \A c \in promised : Durable(c)

\* Short of a power loss, a final name is never handed to another file and the
\* bytes behind it never change: a reader that opened or mapped a chunk keeps
\* reading the same bytes whichever callers publish the same CID meanwhile
\* ("Final names never open for writing").  linkat loses against a taken name,
\* and a caller writes only its own unpublished payload.
NeverClobbers ==
    [][~PowerLoss => \A c \in CIDs :
          (dir[c] # NoInode /\ dir'[c] # NoInode)
             => dir'[c] = dir[c] /\ data'[dir[c]] = data[dir[c]]]_vars

-------------------------------------------------------------------------------
(* Why the properties hold.                                                *)

\* What a caller stages is its own, and out of reach while it is written.
StagingIsPrivate ==
    /\ \A t, u \in Callers : payload[t] = payload[u] => t = u \/ payload[t] = NoInode
    /\ \A t \in Callers : pc[t] = "write" =>
          /\ \A c \in CIDs : dir[c] # payload[t] /\ payload[t] \notin dirDisk[c]
          /\ \A u \in Callers : existing[u] # payload[t]

\* A payload is verified, then synced, before it can be linked.
StagedIsVerified ==
    \A t \in Callers :
        /\ pc[t] \in {"file_sync", "link_payload"} => data[payload[t]] = cid[t]
        /\ pc[t] = "link_payload" => dataDisk[payload[t]] = {cid[t]}

\* So is a duplicate, through the handle verify_existing holds.
ExistingIsVerified ==
    \A t \in Callers :
        /\ pc[t] \in {"verify_existing", "existing_file_sync", "existing_directory_sync"}
              => existing[t] # NoInode
        /\ pc[t] \in {"existing_file_sync", "existing_directory_sync"}
              => data[existing[t]] = cid[t]
        /\ pc[t] = "existing_directory_sync" => dataDisk[existing[t]] = {cid[t]}

\* Unless the name was deleted meanwhile, the caller still looks at the file
\* that has it, and a caller about to return Ok is right to.
PendingPutHolds ==
    \A t \in Callers : ~unlinked[t] =>
        /\ pc[t] = "sync_directory" => dir[cid[t]] = payload[t]
        /\ pc[t] \in {"verify_existing", "existing_file_sync", "existing_directory_sync"}
              => dir[cid[t]] = existing[t]
        /\ (pc[t] = "close" /\ result[t] # "error") => Durable(cid[t])

LiveMayPersist == \A c \in CIDs : dir[c] \in dirDisk[c]

IInv ==
    /\ TypeOK
    /\ PublishedIsWhole
    /\ AckedIsDurable
    /\ StagingIsPrivate
    /\ StagedIsVerified
    /\ ExistingIsVerified
    /\ PendingPutHolds
    /\ LiveMayPersist

-------------------------------------------------------------------------------
(* The store implements the abstract one: what a reader finds under a name *)
(* is "intact" when its bytes hash to the CID.                             *)
BlobOf(c) ==
    IF dir[c] = NoInode THEN "absent"
    ELSE IF data[dir[c]] = c THEN "intact" ELSE "damaged"

Inherited == {c \in CIDs : dirDisk[c] \cap LegacyInodes # {}}

Abstract == INSTANCE DurableBlobStore WITH
                blob <- [c \in CIDs |-> BlobOf(c)],
                inherited <- Inherited,
                promised <- promised

\* publish_with, verify_existing and delete, interleaved and interrupted in
\* any way, are steps of the blob store: nothing partial is ever visible, an
\* Ok is only ever given for an intact blob, and a crash takes back no Ok.
RefinesBlobStore == Abstract!Spec
===============================================================================
