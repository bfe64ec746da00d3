------------------------------ MODULE DataPath ------------------------------
(* One file on its way: the owner cuts (and encrypts) it, registers it,      *)
(* pushes it to the assigned archives, may stop, resumes or re-pushes after  *)
(* a reassignment; the source is edited meanwhile and given under another    *)
(* name; archives verify what they are sent; a reader pulls the manifest and *)
(* the chunks and puts the file together.  Artifacts are computed in one     *)
(* step.  Everything a step computes is computed by FileFormat and       *)
(* Assignment.  Waits, retries and nonces of the owner are IngestV2's.       *)
EXTENDS FileFormat, Assignment

CONSTANTS
  Cases,     \* the inputs: what PathInit chooses from
  Accounts,  \* accounts that own or read the file
  FileOwner, \* the account that ingests
  Archives   \* addresses of the archives

\* The registry lists archives by their addresses, and every chunk a file can
\* have and every archive have a score.
ASSUME DataPathAssumption ==
  /\ FileOwner \in Accounts /\ Archives \subseteq Nat
  /\ \A c \in Cases :
       /\ Len(c.file) \in Nat /\ c.r \in Nat
       /\ c.records \in Seq([addr : Archives, role : STRING, status : STRING])
       /\ \A i \in 0..Len(c.file) : c.score[i] \in [Archives -> Nat]

VARIABLES
  case,     \* the input of this behaviour, never changed
  source,   \* the bytes of the owner's source file now
  records,  \* the chain's node registry now
  row,      \* the chain's row of the file, or Absent; its art field is no
            \* chain state but what was registered, for the properties
  owner,    \* the owner's process
  refused,  \* the last push an archive refused, << index, bytes >>, or Absent
  held,     \* per archive, the chunks it stored
  mans,     \* per archive, the manifest it stored, or Absent
  reader    \* the reader's download

pathVars == << case, source, records, row, owner, refused, held, mans, reader >>

Private == case.vis = "private"
FileKey == << "key", case.file >>   \* drawn at random for this ingest

Snapshot(epoch) == eligible_archive_addresses(row.epochs[epoch])
AssignmentAt(epoch) ==
  compute_assignment_v2(case.score, row.count, Snapshot(epoch), case.r)

-----------------------------------------------------------------------------
(* The owner *)

\* The X25519 keys of the access list: the owner's own is derived, a
\* recipient's is what it registered; one without a key aborts the ingest.
build_private_ingest_spec ==
  IF \E x \in case.recipients : case.keys[x] = Absent THEN Absent
  ELSE [x \in case.recipients \cup {FileOwner} |->
          IF x = FileOwner THEN PublicKeyOf(FileOwner) ELSE case.keys[x]]

\* The bundles, owner first; a key that cannot be used aborts the ingest.
InitialAccess(spec, key) ==
  LET bundles == [x \in DOMAIN spec |-> wrap_for_recipient(key, x, spec[x])]
  IN IF \E x \in DOMAIN spec : bundles[x] = Absent THEN Absent ELSE bundles

\* What the owner would register: artifacts and access list, or Absent.
encrypt_for_private(name) ==
  LET art == build_private_artifacts(source, name, FileKey)
      spec == build_private_ingest_spec
      access == IF spec = Absent THEN Absent ELSE InitialAccess(spec, FileKey)
  IN IF art = Absent \/ access = Absent THEN Absent ELSE [art |-> art, access |-> access]

Prepared(name) ==
  IF Private THEN encrypt_for_private(name)
  ELSE [art |-> chunk_file(source, name), access |-> << >>]

\* The chain's rule for a registration (external).
ChainAccepts(art) ==
  /\ art.manifest.chunk_count > 0
  /\ art.manifest.chunk_count = DivCeil(art.stored, CHUNK_SIZE)

Idle(last) == [pc |-> "idle", art |-> Absent, epoch |-> 0, last |-> last]
Pushing(art, epoch, how) == [pc |-> "push", art |-> art, epoch |-> epoch, last |-> how]

Ingest(name) ==
  /\ owner.pc = "new"
  /\ IF Prepared(name) # Absent /\ ChainAccepts(Prepared(name).art)
     THEN LET art == Prepared(name).art IN
          /\ row' = [root |-> art.manifest.merkle_root,
                     count |-> art.manifest.chunk_count,
                     size |-> art.manifest.total_size, stored |-> art.stored,
                     access |-> Prepared(name).access, epochs |-> << records >>,
                     art |-> art]
          /\ owner' = Pushing(art, 1, "ingest")
     ELSE /\ owner' = Idle("refused")
          /\ UNCHANGED row
  /\ UNCHANGED << case, source, records, refused, held, mans, reader >>

\* Mutant: the path is checked for the chunk the manifest lists, not for the bytes.
AcceptsListed(i, bytes, path) ==
  verify_for_tree(owner.art.manifest.chunks[i + 1].hash, i, path, row.root, row.count)

\* The archive's side of a push: the proof must hold for the chain's row.
Accepts(i, bytes, path) ==
  verify_for_tree(blake3(bytes), i, path, row.root, row.count)

send_one_push(i, a) ==
  /\ owner.pc = "push" /\ a \in ToSet(AssignmentAt(owner.epoch)[i + 1])
  /\ i < owner.art.manifest.chunk_count
  /\ LET bytes == PushedBytes(owner.art, i)
         ok == Accepts(i, bytes, proof_bytes(owner.art, i))
     IN /\ << i, bytes >> \notin held[a]
        /\ IF ok THEN /\ held' = [held EXCEPT ![a] = @ \cup {<< i, bytes >>}]
                      /\ UNCHANGED refused
           ELSE refused' = << i, bytes >> /\ UNCHANGED held
  /\ UNCHANGED << case, source, records, row, owner, mans, reader >>

\* S3: a public manifest is validated, a private one is kept as it is; an
\* archive that has a manifest keeps it.
push_manifest(a) ==
  /\ owner.pc = "push" /\ mans[a] = Absent
  /\ \E i \in 0..(row.count - 1) : a \in ToSet(AssignmentAt(owner.epoch)[i + 1])
  /\ IF Private THEN mans' = [mans EXCEPT ![a] = owner.art.sealed]
     ELSE /\ validate_manifest_push(row.root, owner.art.manifest)
          /\ mans' = [mans EXCEPT ![a] = owner.art.manifest]
  /\ UNCHANGED << case, source, records, row, owner, refused, held, reader >>

\* Mutant: the next process starts with the artifacts of this one.
StopKeepsArtifacts ==
  /\ owner.pc = "push"
  /\ owner' = [owner EXCEPT !.pc = "idle"]
  /\ UNCHANGED << case, source, records, row, refused, held, mans, reader >>

\* The process ends, done or not, or killed by a read past the end of the
\* mapped file.
Stop ==
  /\ owner.pc = "push"
  /\ owner' = Idle("stopped")
  /\ UNCHANGED << case, source, records, row, refused, held, mans, reader >>

\* Somebody writes another content to the source file, at any time after the
\* registration.  A public file is pushed from a mapping of the source: written
\* in place it is the new content that is mapped, replaced by another file it
\* is still the old one.  A private file is pushed from its temporary copy.
Edit ==
  /\ row # Absent /\ source' \in ({case.file} \cup case.edits) \ {source}
  /\ \/ UNCHANGED owner
     \/ owner.pc = "push" /\ ~Private /\ owner' = [owner EXCEPT !.art.blob = source']
  /\ UNCHANGED << case, records, row, refused, held, mans, reader >>

\* The file under the key of the owner's own bundle; Absent when it is empty.
Rebuilt(name) ==
  IF Private
  THEN build_private_artifacts(source, name, unwrap_for_self(row.access[FileOwner], FileOwner))
  ELSE chunk_file(source, name)

\* Mutant: the rebuilt file is pushed without comparing its root.
ResumeUnchecked(name) ==
  /\ owner.pc = "idle" /\ row # Absent /\ Rebuilt(name) # Absent
  /\ owner' = Pushing(Rebuilt(name), 1, "resume")
  /\ UNCHANGED << case, source, records, row, refused, held, mans, reader >>

\* resume compares the root only.
resume(name) ==
  /\ owner.pc = "idle" /\ row # Absent
  /\ owner' = IF Rebuilt(name) = Absent THEN Idle("failed")
              ELSE IF Rebuilt(name).manifest.merkle_root # row.root THEN Idle("mismatch")
              ELSE Pushing(Rebuilt(name), 1, "resume")
  /\ UNCHANGED << case, source, records, row, refused, held, mans, reader >>

\* Mutant: the root alone, as in resume.
RootOnly(art) == art.manifest.merkle_root = row.root

\* repush compares the root, the chunk count and both sizes, and pushes to
\* the archives of the latest epoch.
SameIdentity(art) ==
  /\ art.manifest.merkle_root = row.root
  /\ art.manifest.chunk_count = row.count
  /\ art.manifest.total_size = row.size
  /\ art.stored = row.stored

repush(name) ==
  /\ owner.pc = "idle" /\ row # Absent
  /\ owner' = IF Rebuilt(name) = Absent THEN Idle("failed")
              ELSE IF ~SameIdentity(Rebuilt(name)) THEN Idle("mismatch")
              ELSE Pushing(Rebuilt(name), Len(row.epochs), "repush")
  /\ UNCHANGED << case, source, records, row, refused, held, mans, reader >>

-----------------------------------------------------------------------------
(* The chain's registry (external) *)

\* An archive leaves, with everything it stored.
Depart(a) ==
  /\ row # Absent /\ case.departs
  /\ \A n \in 1..Len(records) : records[n].status # "Unbonding"
  /\ \E n \in 1..Len(records) : records[n].addr = a /\ is_active_archive(records[n])
  /\ records' = [n \in 1..Len(records) |->
                   IF records[n].addr = a THEN [records[n] EXCEPT !.status = "Unbonding"]
                   ELSE records[n]]
  /\ held' = [held EXCEPT ![a] = {}]
  /\ mans' = [mans EXCEPT ![a] = Absent]
  /\ UNCHANGED << case, source, row, owner, refused, reader >>

Reassign ==
  /\ row # Absent /\ row.epochs[Len(row.epochs)] # records
  /\ row' = [row EXCEPT !.epochs = Append(@, records)]
  /\ UNCHANGED << case, source, records, owner, refused, held, mans, reader >>

-----------------------------------------------------------------------------
(* The reader *)

\* The served manifest, as the reader believes it, or Absent.
ReadManifest(a) ==
  IF Private
  THEN LET key == IF case.reader \in DOMAIN row.access
                  THEN unwrap_for_self(row.access[case.reader], case.reader) ELSE Absent
       IN IF key = Absent THEN Absent
          ELSE decrypt_and_verify_manifest(key, mans[a], row.root)
  ELSE IF validate_manifest_push(row.root, mans[a]) THEN mans[a] ELSE Absent

pull_manifest(a) ==
  /\ reader.pc = "start" /\ case.reader # Absent /\ row # Absent /\ mans[a] # Absent
  /\ reader' = IF ReadManifest(a) = Absent THEN [reader EXCEPT !.pc = "refused"]
               ELSE [reader EXCEPT !.pc = "chunks", !.man = ReadManifest(a)]
  /\ UNCHANGED << case, source, records, row, owner, refused, held, mans >>

Next1(r) == r.man.chunks[Len(r.got) + 1]

\* One window of the next chunk, from any archive that stores its bytes: the
\* whole chunk over V2, case.width bytes at a time over V1.
Window(bytes, cd) ==
  IF case.width = Absent
  THEN resolve_pull_window(Len(bytes), 0, cd.size)
  ELSE resolve_chunk_window(Len(bytes), Len(reader.cur), case.width)

pull_chunk(a) ==
  /\ reader.pc = "chunks" /\ Len(reader.got) < Len(reader.man.chunks)
  /\ \E piece \in held[a] :
       LET cd == Next1(reader)
           bytes == piece[2]
           w == Window(bytes, cd)
           data == reader.cur \o Slice(bytes, w[1], w[2])
           plain == IF Private
                    THEN decrypt_and_verify_chunk(
                           unwrap_for_self(row.access[case.reader], case.reader), cd, data)
                    ELSE data
       IN /\ cid_from_blake3(blake3(bytes)) = cd.cid
          /\ reader' =
               IF Len(data) < Len(bytes) THEN [reader EXCEPT !.cur = data]
               ELSE IF blake3(data) # cd.hash \/ plain = Absent
               THEN [reader EXCEPT !.pc = "refused"]
               ELSE [reader EXCEPT !.got = Append(@, plain), !.cur = << >>]
  /\ UNCHANGED << case, source, records, row, owner, refused, held, mans >>

\* Mutant: the pieces are written in another order and nothing is checked.
AssembleReversed ==
  /\ reader.pc = "chunks" /\ Len(reader.got) = Len(reader.man.chunks)
  /\ reader' = [reader EXCEPT !.pc = "done", !.got = << >>,
                              !.out = FlattenSeq(Reverse(reader.got))]
  /\ UNCHANGED << case, source, records, row, owner, refused, held, mans >>

\* The pieces in order; a private file's whole hash is checked too.
assemble ==
  /\ reader.pc = "chunks" /\ Len(reader.got) = Len(reader.man.chunks)
  /\ LET out == FlattenSeq(reader.got) IN
     reader' = IF Private /\ blake3(out) # reader.man.file_hash
               THEN [reader EXCEPT !.pc = "refused"]
               ELSE [reader EXCEPT !.pc = "done", !.got = << >>, !.out = out]
  /\ UNCHANGED << case, source, records, row, owner, refused, held, mans >>

-----------------------------------------------------------------------------
PathInit ==
  /\ case \in Cases
  /\ source = case.file
  /\ records = case.records
  /\ row = Absent
  /\ owner = [Idle("none") EXCEPT !.pc = "new"]
  /\ refused = Absent
  /\ held = [a \in Archives |-> {}]
  /\ mans = [a \in Archives |-> Absent]
  /\ reader = [pc |-> "start", man |-> Absent, got |-> << >>, cur |-> << >>, out |-> Absent]

PathNext ==
  \/ Stop \/ Edit \/ Reassign \/ assemble
  \/ \E name \in case.names : Ingest(name) \/ resume(name) \/ repush(name)
  \/ \E a \in Archives :
       \/ push_manifest(a) \/ Depart(a) \/ pull_manifest(a) \/ pull_chunk(a)
       \/ \E i \in 0..(IF row = Absent THEN -1 ELSE row.count - 1) : send_one_push(i, a)

PathSpec == PathInit /\ [][PathNext]_pathVars

-----------------------------------------------------------------------------
(* Properties *)

PathTypeOK ==
  /\ case \in Cases
  /\ source \in {case.file} \cup case.edits
  /\ owner.pc \in {"new", "idle", "push"}
  /\ owner.pc = "push" <=> owner.art # Absent
  /\ owner.pc = "push" => owner.epoch \in 1..Len(row.epochs)
  /\ reader.pc \in {"start", "chunks", "refused", "done"}
  /\ \A a \in Archives : \A piece \in held[a] :
       piece[1] \in 0..(row.count - 1) /\ Len(piece[2]) <= CHUNK_SIZE

\* An ingest is refused only for a reason the operator can see: an empty
\* file, or a recipient without a usable key.  Whatever the length of the
\* file, public or private, its chunk count satisfies the chain's rule.
RefusedHasCause ==
  owner.last = "refused" =>
    \/ case.file = << >>
    \/ Private /\ \E x \in case.recipients : case.keys[x] \in {Absent, LowOrder}

\* An archive takes a chunk exactly if it is the registered one for its index,
\* although the source of a public file may be written to or cut short while it
\* is being pushed.  Of a private file nothing but the registered chunks leaves
\* the owner: after an edit nothing is pushed under the recovered key, so no key
\* and index ever encrypt two plaintexts that are both sent.
SentIsRegistered ==
  /\ \A a \in Archives : \A piece \in held[a] : piece[2] = PushedBytes(row.art, piece[1])
  /\ refused # Absent => ~Private /\ refused[2] # PushedBytes(row.art, refused[1])

\* The archive's verifier accepts a hash at an index only if it is that leaf
\* of the registered tree, whatever index, hash of the tree and path of
\* hashes of the tree it is given.
OnlyLeavesVerify ==
  (owner.pc = "push" /\ (\A a \in Archives : held[a] = {}) /\ row.count <= 4) =>
    LET tree == build(LeavesOf(row.art.manifest))
        nodes == UNION {ToSet(tree[l]) : l \in 1..Len(tree)}
        d == depth(tree)
    IN \A h \in nodes, i \in 0..(2 * row.count + 1),
          path \in UNION {[1..l -> nodes] : l \in (IF d = 0 THEN 0 ELSE d - 1)..(d + 1)} :
         verify_for_tree(h, i, path, row.root, row.count)
           => i < row.count /\ h = tree[1][i + 1]

\* What an archive computes as its own chunks is what the owner sends it, and
\* the audit's first chunk and the discovery's required set follow the same
\* assignment.
SidesAgree ==
  row # Absent =>
    \A e \in 1..Len(row.epochs) :
      LET snapshot == fetch_snapshot(row.epochs[e])
          Mine(a) == chunks_for_archive_v2(case.score, row.count, snapshot, case.r, a)
      IN /\ \A a \in Archives : Mine(a) =
              {i \in 0..(row.count - 1) : a \in ToSet(AssignmentAt(e)[i + 1])}
         /\ \A T \in SUBSET Archives :
              LET first == first_chunk_assigned_to_any(
                             case.score, row.count, snapshot, case.r, T)
                  all == UNION {Mine(a) : a \in T}
              IN IF all = {} THEN first = << >>
                 ELSE /\ first[2] \in T /\ first[1] \in Mine(first[2])
                      /\ \A i \in all : first[1] <= i
         /\ required_archives(case.score, snapshot, 0..(row.count - 1), case.r)
              = {a \in Archives : Mine(a) # {}}

\* A departure moves only the chunks of the archive that left: every other
\* archive keeps every chunk it had.
StaysPut ==
  row # Absent =>
    \A e \in 1..(Len(row.epochs) - 1) : \A i \in 0..(row.count - 1) :
      LET was == ToSet(AssignmentAt(e)[i + 1])
          is  == ToSet(AssignmentAt(e + 1)[i + 1])
          active == ToSet(Snapshot(e + 1))
      IN /\ was \cap active \subseteq is
         /\ was \subseteq active => is = was

\* A repush pushes what was registered, up to the name the file has by then
\* (and, of a public file, to what is written to it from then on).
Registered(art) ==
  [stored |-> art.stored, blob |-> IF Private THEN art.blob ELSE Absent,
   key |-> IF Private THEN art.sealed[2] ELSE Absent,
   manifest |-> [art.manifest EXCEPT !.file_name = Absent]]
RepushIsExact ==
  (owner.pc = "push" /\ owner.last = "repush") => Registered(owner.art) = Registered(row.art)

\* The key of a private file seals one manifest (sum-crypto, manifest.rs) up to
\* the name of the source: whatever was edited in between, the manifests the
\* archives have from an ingest, a resume and a repush are under the registered
\* key and differ in nothing else.  In the name they may, since it is sealed too
\* and neither resume nor repush compares it.
SealedAlike ==
  Private => \A a \in Archives :
    mans[a] # Absent =>
      \E name \in case.names :
        mans[a] = encrypt_manifest(FileKey, [row.art.manifest EXCEPT !.file_name = name])

\* What a reader puts together has the registered root, and for a private
\* file it is the registered content.  (For a public file the root leaves one
\* thing open: a last chunk repeated to fill an odd level.)
ReadHasTheRoot ==
  reader.pc = "done" =>
    IF Private THEN reader.out = case.file
    ELSE chunk_file(reader.out, Absent).manifest.merkle_root = row.root

\* A reader is refused only if it is not on the list of a private file, or
\* registered a key that is not its own.
RefusalHasCause ==
  reader.pc = "refused" =>
    /\ Private
    /\ \/ case.reader \notin DOMAIN row.access
       \/ case.reader # FileOwner /\ case.keys[case.reader] # PublicKeyOf(case.reader)

\* Every window an archive serves of the chunk the reader is at starts where
\* the reader is, is not empty and stays inside the chunk.
WindowAdvances ==
  (reader.pc = "chunks" /\ Len(reader.got) < Len(reader.man.chunks)) =>
    \A a \in Archives : \A piece \in held[a] :
      (cid_from_blake3(blake3(piece[2])) = Next1(reader).cid) =>
        LET w == Window(piece[2], Next1(reader))
        IN w[1] = Len(reader.cur) /\ w[1] < w[2] /\ w[2] <= Len(piece[2])

\* One content, from the registration to the reader.
FileIsIntact ==
  PathTypeOK /\ SentIsRegistered /\ RepushIsExact /\ SealedAlike /\ ReadHasTheRoot

\* Everyone computes the same assignment, and a departure changes no more of
\* it than it must.
PlacementAgrees == SidesAgree /\ StaysPut

\* The checks on the way accept exactly what they should.
ChecksAreExact ==
  OnlyLeavesVerify /\ RefusedHasCause /\ RefusalHasCause /\ WindowAdvances
=============================================================================
