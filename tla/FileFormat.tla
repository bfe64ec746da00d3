----------------------------- MODULE FileFormat -----------------------------
(* The bytes of a stored file: how a file is cut into chunks, hashed into a  *)
(* Merkle tree, encrypted, proved and read back.  These are pure functions   *)
(* of sum-store (chunker, merkle, verify, serve), sum-crypto and             *)
(* sum-node::ingest_v2.                                                      *)
(*                                                                           *)
(* A byte of a plaintext is a one-tuple, so that it can be compared with a   *)
(* byte of a ciphertext.  The hash, the cipher and the key agreement are     *)
(* external and ideal: a hash is the term it was computed from, a ciphertext *)
(* remembers its key, its position and its plaintext.  Terms of leaves and   *)
(* of inner nodes differ by a tag, which hash_pair of the code does not put  *)
(* in: that no chunk of 64 bytes hashes like a pair is assumed here.         *)
EXTENDS Integers, Sequences, FiniteSets

CONSTANTS
  CHUNK_SIZE,  \* bytes of a stored chunk
  TAG_SIZE,    \* bytes the cipher adds to a chunk
  MaxU64,      \* the largest value of the integers of a read request
  Absent       \* the absent value

ASSUME FormatAssumption ==
  /\ CHUNK_SIZE \in Nat /\ TAG_SIZE \in Nat /\ MaxU64 \in Nat
  /\ 0 < TAG_SIZE /\ TAG_SIZE < CHUNK_SIZE

\* Mutant: the room of the tag is forgotten.
TagForgotten == CHUNK_SIZE

PRIVATE_PLAINTEXT_CHUNK_SIZE == CHUNK_SIZE - TAG_SIZE

DivCeil(a, b) == (a + b - 1) \div b
Least(a, b)   == IF a < b THEN a ELSE b

\* Bytes start .. end - 1, counted from zero as the code does.
Slice(bytes, start, end) == SubSeq(bytes, start + 1, end)

-----------------------------------------------------------------------------
(* Hashes and content identifiers *)

blake3(bytes)       == << "leaf", bytes >>
hash_pair(l, r)     == << "node", l, r >>
ZeroHash            == << "zero" >>
cid_from_blake3(h)  == << "cid", h >>

-----------------------------------------------------------------------------
(* The Merkle tree: levels[1] are the leaves, the last level is the root.    *)

\* One level up; the last node of an odd level is paired with itself.
Parents(level) ==
  [j \in 1..DivCeil(Len(level), 2) |->
     hash_pair(level[2*j - 1],
               IF 2*j <= Len(level) THEN level[2*j] ELSE level[2*j - 1])]

build(leaves) ==
  LET up[l \in Nat] == IF l = 0 THEN leaves ELSE Parents(up[l - 1])
      Top == CHOOSE l \in 0..Len(leaves) :
               /\ Len(up[l]) = 1
               /\ \A k \in 0..(l - 1) : Len(up[k]) > 1
  IN IF leaves = << >> THEN << >> ELSE [l \in 1..(Top + 1) |-> up[l - 1]]

root(tree) == IF tree = << >> THEN ZeroHash ELSE tree[Len(tree)][1]

depth(tree) == IF Len(tree) <= 1 THEN 0 ELSE Len(tree) - 1

\* The siblings on the way from leaf i to the root, bottom up.
generate_proof(tree, i) ==
  [l \in 1..depth(tree) |->
     LET idx == i \div 2^(l - 1)
         sibling == IF idx % 2 = 0 THEN idx + 1 ELSE idx - 1
     IN IF sibling < Len(tree[l]) THEN tree[l][sibling + 1] ELSE tree[l][idx + 1]]

\* The walk of a proof: neither the index nor the length is bounded.
verify_merkle_proof(hash, i, path, expected) ==
  LET current[l \in Nat] ==
        IF l = 0 THEN hash
        ELSE IF (i \div 2^(l - 1)) % 2 = 0
             THEN hash_pair(current[l - 1], path[l])
             ELSE hash_pair(path[l], current[l - 1])
  IN current[Len(path)] = expected

\* The number of bits of total - 1.
expected_proof_depth(total) ==
  IF total <= 1 THEN 0
  ELSE CHOOSE d \in 1..total : 2^(d - 1) <= total - 1 /\ total - 1 < 2^d

\* Mutant: the length of the path is not checked.
DepthUnchecked(hash, i, path, expected, total) ==
  i < total /\ verify_merkle_proof(hash, i, path, expected)

\* What an archive asks of a pushed chunk; total comes from the chain.
verify_for_tree(hash, i, path, expected, total) ==
  /\ total # 0
  /\ i < total
  /\ Len(path) = expected_proof_depth(total)
  /\ IF total = 1 THEN hash = expected
     ELSE verify_merkle_proof(hash, i, path, expected)

-----------------------------------------------------------------------------
(* Encryption *)

\* One byte per plaintext byte, made with the key stream of (key, index), and
\* the tag, which depends on everything.
encrypt_chunk(key, i, plain) ==
  [j \in 1..Len(plain) |-> << "byte", key, i, j, plain[j] >>]
    \o [t \in 1..TAG_SIZE |-> << "tag", key, i, plain >>]

Plain(ct) == [j \in 1..(Len(ct) - TAG_SIZE) |-> ct[j][5]]

\* The tag check: only the bytes encrypt_chunk makes open, and only with the
\* same key at the same index.
decrypt_chunk(key, i, ct) ==
  IF /\ Len(ct) >= TAG_SIZE
     /\ \A j \in 1..(Len(ct) - TAG_SIZE) : Len(ct[j]) = 5
     /\ ct = encrypt_chunk(key, i, Plain(ct))
  THEN Plain(ct) ELSE Absent

encrypt_manifest(key, manifest) == << "sealed", key, manifest >>

\* The key pair is derived from the account's seed: pub is a name for it.
PublicKeyOf(account) == << "pub", account >>
LowOrder == << "low" >>

\* Mutant: the bundle is bound to the key's owner only by name.
WrapForKeyOnly(key, addr, pub) ==
  IF pub = LowOrder THEN Absent ELSE << "bundle", key, pub, pub >>

wrap_for_recipient(key, addr, pub) ==
  IF pub = LowOrder THEN Absent ELSE << "bundle", key, addr, pub >>

unwrap_for_self(bundle, account) ==
  IF bundle # Absent /\ bundle[3] = account /\ bundle[4] = PublicKeyOf(account)
  THEN bundle[2] ELSE Absent

-----------------------------------------------------------------------------
(* Manifests and artifacts *)

Descriptor(i, offset, stored, plainHash) ==
  [chunk_index |-> i, offset |-> offset, size |-> Len(stored),
   hash |-> blake3(stored), cid |-> cid_from_blake3(blake3(stored)),
   plain_hash |-> plainHash]

LeavesOf(manifest) ==
  [i \in 1..Len(manifest.chunks) |-> manifest.chunks[i].hash]

\* A public file: the chunks are slices of it.  The manifest carries the name of
\* the path it was given.
chunk_file(bytes, name) ==
  LET count == DivCeil(Len(bytes), CHUNK_SIZE)
      Piece(i) == Slice(bytes, i * CHUNK_SIZE,
                        Least(i * CHUNK_SIZE + CHUNK_SIZE, Len(bytes)))
      chunks == [n \in 1..count |->
                   Descriptor(n - 1, (n - 1) * CHUNK_SIZE, Piece(n - 1), Absent)]
  IN [blob |-> bytes, stored |-> Len(bytes), sealed |-> Absent,
      manifest |->
        [file_name |-> name, file_hash |-> IF Len(bytes) = 0 THEN ZeroHash ELSE blake3(bytes),
         total_size |-> Len(bytes), chunk_count |-> count,
         merkle_root |-> root(build([n \in 1..count |-> chunks[n].hash])),
         chunks |-> chunks]]

\* A private file: pieces of the plaintext, each encrypted at its index and
\* laid out one after the other in a temporary file; an empty file is refused.
build_private_artifacts(bytes, name, key) ==
  LET count == DivCeil(Len(bytes), PRIVATE_PLAINTEXT_CHUNK_SIZE)
      Piece(i) ==
        Slice(bytes, i * PRIVATE_PLAINTEXT_CHUNK_SIZE,
              Least(i * PRIVATE_PLAINTEXT_CHUNK_SIZE + PRIVATE_PLAINTEXT_CHUNK_SIZE,
                    Len(bytes)))
      Cipher(i) == encrypt_chunk(key, i, Piece(i))
      upTo[n \in Nat] == IF n = 0 THEN << >> ELSE upTo[n - 1] \o Cipher(n - 1)
      chunks == [n \in 1..count |->
                   Descriptor(n - 1, Len(upTo[n - 1]), Cipher(n - 1),
                              blake3(Piece(n - 1)))]
      manifest ==
        [file_name |-> name, file_hash |-> blake3(bytes), total_size |-> Len(bytes),
         chunk_count |-> count,
         merkle_root |-> root(build([n \in 1..count |-> chunks[n].hash])),
         chunks |-> chunks]
  IN IF Len(bytes) = 0 THEN Absent
     ELSE [blob |-> upTo[count], stored |-> Len(upTo[count]),
           sealed |-> encrypt_manifest(key, manifest), manifest |-> manifest]

\* What send_one_push reads for chunk i of the artifacts: the bytes that are now
\* in the mapped file at the chunk's place, and zeros past its end.
PushedBytes(art, i) ==
  LET cd == art.manifest.chunks[i + 1]
  IN [j \in 1..cd.size |-> IF cd.offset + j <= Len(art.blob) THEN art.blob[cd.offset + j]
                           ELSE << 0 >>]

proof_bytes(art, i) == generate_proof(build(LeavesOf(art.manifest)), i)

\* What an archive asks of a pushed or re-fetched public manifest.
validate_manifest_push(expected, manifest) ==
  /\ manifest.merkle_root = expected
  /\ Len(manifest.chunks) = manifest.chunk_count
  /\ \A n \in 1..Len(manifest.chunks) :
       /\ manifest.chunks[n].chunk_index = n - 1
       /\ manifest.chunks[n].cid = cid_from_blake3(manifest.chunks[n].hash)
  /\ root(build(LeavesOf(manifest))) = manifest.merkle_root

\* What a reader of a private file asks of the manifest it was served.
decrypt_and_verify_manifest(key, sealed, chainRoot) ==
  IF /\ sealed # Absent /\ sealed[2] = key
     /\ sealed[3].merkle_root = chainRoot
     /\ root(build(LeavesOf(sealed[3]))) = chainRoot
  THEN sealed[3] ELSE Absent

\* ... and of every chunk.
decrypt_and_verify_chunk(key, cd, ct) ==
  LET plain == decrypt_chunk(key, cd.chunk_index, ct)
  IN IF plain = Absent \/ cd.plain_hash = Absent \/ blake3(plain) # cd.plain_hash
     THEN Absent ELSE plain

-----------------------------------------------------------------------------
(* Read windows over a chunk of total bytes, as << start, end >> *)

\* Mutant: the sum wraps around.
WrappingAdd(a, b) == (a + b) % (MaxU64 + 1)

SaturatingAdd(a, b) == Least(a + b, MaxU64)

\* V1: an offset past the end is clamped, no limit means the rest.
resolve_chunk_window(total, offset, max_bytes) ==
  LET start == Least(IF offset = Absent THEN 0 ELSE offset, total)
      len   == IF max_bytes = Absent THEN total ELSE max_bytes
  IN << start, Least(SaturatingAdd(start, len), total) >>

\* V2: an offset past the end is an error.
resolve_pull_window(total, offset, max_bytes) ==
  IF offset > total THEN Absent
  ELSE << offset, Least(SaturatingAdd(offset, max_bytes), total) >>
=============================================================================
