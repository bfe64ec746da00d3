----------------------------- MODULE Assignment -----------------------------
(* Which archives store which chunk.  Addresses are numbers, ordered as the  *)
(* code orders their bytes.  A score is what the frozen hash gives a chunk   *)
(* and an address; start is where the V1 hash starts to probe.  Both are     *)
(* parameters: the functions must be right for every hash.                   *)
EXTENDS Integers, Sequences, FiniteSets, SequencesExt

\* A record of the chain's node registry.
Record(addr, role, status) == [addr |-> addr, role |-> role, status |-> status]

is_active_archive(r) == r.role = "ArchiveNode" /\ r.status = "Active"

\* The records that are kept; every caller sorts and merges their addresses.
filter_active_archives(records) ==
  {records[n] : n \in {m \in DOMAIN records : is_active_archive(records[m])}}

\* A finite set in the order Lt, a strict order of it: each element comes
\* after as many as there are before it.
Ranked(S, Lt(_, _)) ==
  [k \in 1..Cardinality(S) |->
     CHOOSE a \in S : Cardinality({b \in S : Lt(b, a)}) = k - 1]

Ascending(S) == Ranked(S, LAMBDA a, b : a < b)

\* The sorted, deduplicated snapshot of the owner.
eligible_archive_addresses(records) ==
  Ascending({rec.addr : rec \in filter_active_archives(records)})

\* Mutant: the archive counts every record of the registry.
UnfilteredSnapshot(records) ==
  Ascending({records[n].addr : n \in DOMAIN records})

\* The same for an archive's own queries.
fetch_snapshot(records) ==
  Ascending({rec.addr : rec \in filter_active_archives(records)})

presorted_addresses(snapshot) == Ascending(ToSet(snapshot))

-----------------------------------------------------------------------------
(* V2: the replicas lowest-scored archives, ties by address *)

Before(score, i, a, b) ==
  score[i][a] < score[i][b] \/ (score[i][a] = score[i][b] /\ a < b)

\* Mutant: the score picks a place in the sorted list instead of ranking it.
PlacedByScore(score, presorted, i, r) ==
  LET n == Len(presorted)
      s == IF n = 0 THEN 0 ELSE score[i][presorted[1]] % n
  IN [k \in 1..(IF r < n THEN r ELSE n) |-> presorted[((s + k - 1) % n) + 1]]

\* The scorer's crate: sort, take the first r.
wire_presorted(score, presorted, i, r) ==
  LET ranked == Ranked(ToSet(presorted), LAMBDA a, b : Before(score, i, a, b))
  IN SubSeq(ranked, 1, IF r < Len(ranked) THEN r ELSE Len(ranked))

assigned_archives(score, snapshot, i, r) ==
  wire_presorted(score, presorted_addresses(snapshot), i, r)

\* Position i + 1 holds the archives of chunk i.
compute_assignment_v2(score, count, snapshot, r) ==
  LET presorted == presorted_addresses(snapshot)
  IN [n \in 1..count |-> wire_presorted(score, presorted, n - 1, r)]

chunks_for_archive_v2(score, count, snapshot, r, archive) ==
  LET presorted == presorted_addresses(snapshot)
  IN IF archive \notin ToSet(presorted) THEN {}
     ELSE {i \in 0..(count - 1) :
             archive \in ToSet(wire_presorted(score, presorted, i, r))}

\* The first chunk one of the targets holds, and which of them, or << >>.
first_chunk_assigned_to_any(score, count, snapshot, r, targets) ==
  LET presorted == presorted_addresses(snapshot)
      wanted == targets \cap ToSet(presorted)
      Of(i) == wire_presorted(score, presorted, i, r)
      hits == {i \in 0..(count - 1) : ToSet(Of(i)) \cap wanted # {}}
      first == Min(hits)
      found == Of(first)
  IN IF hits = {} THEN << >>
     ELSE << first, found[Min({k \in DOMAIN found : found[k] \in wanted})] >>

\* The archives discovery has to reach for these chunks.
required_archives(score, snapshot, chunks, r) ==
  IF chunks = {} \/ r = 0 THEN {}
  ELSE IF r >= Cardinality(ToSet(snapshot)) THEN ToSet(snapshot)
  ELSE UNION {ToSet(assigned_archives(score, snapshot, i, r)) : i \in chunks}

-----------------------------------------------------------------------------
(* V1: probe from a hashed start for each replica *)

\* The first position from s on whose node is not taken yet.
Probe(nodes, taken, s) ==
  LET n == Len(nodes)
      At(k) == nodes[((s + k) % n) + 1]
      k == CHOOSE k \in 0..(n - 1) :
             At(k) \notin taken /\ \A m \in 0..(k - 1) : At(m) \in taken
  IN At(k)

compute_chunk_assignment(start, count, nodes, r) ==
  LET n == Len(nodes)
      replicas == IF r < n THEN r ELSE n
      picked[c \in 0..(count - 1), k \in 0..replicas] ==
        IF k = 0 THEN << >>
        ELSE Append(picked[c, k - 1],
                    Probe(nodes, ToSet(picked[c, k - 1]), start[c][k - 1] % n))
  IN [c \in 1..count |-> IF n = 0 THEN << >> ELSE picked[c - 1, replicas]]

nodes_for_chunk(assignment, i) == assignment[i + 1]

chunks_for_node(assignment, node) ==
  {i \in 0..(Len(assignment) - 1) : node \in ToSet(assignment[i + 1])}
=============================================================================
