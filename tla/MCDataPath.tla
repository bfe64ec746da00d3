----------------------------- MODULE MCDataPath -----------------------------
EXTENDS DataPath, TLC

CONSTANTS o, r1, r2

\* Files of n bytes whose chunks differ, and files of equal bytes.
Varied(n) == [j \in 1..n |-> << (j \div 2) % 2 >>]
Equal(n)  == [j \in 1..n |-> << 0 >>]

Arch(a) == Record(a, "ArchiveNode", "Active")
\* A registry with a validator, a slashed archive and a row listed twice.
Registry == << Arch(3), Arch(1), Record(2, "ArchiveNode", "Slashed"), Arch(2),
               Record(1, "Validator", "Active"), Arch(1) >>

Keys(k1, k2) == [x \in {r1, r2} |-> IF x = r1 THEN k1 ELSE k2]
OwnKeys == Keys(PublicKeyOf(r1), PublicKeyOf(r2))

Spread == [i \in 0..9 |-> [a \in 1..3 |-> (a + i) % 3]]

Case(file, vis) ==
  [file |-> file, edits |-> {}, names |-> {"a"}, vis |-> vis, score |-> Spread, r |-> 1,
   records |-> Registry, recipients |-> {r1}, keys |-> OwnKeys, reader |-> r1,
   width |-> Absent, departs |-> FALSE]

\* Every length up to three chunks; some read two bytes at a time.
Lengths ==
  { Case(Varied(n), v) : n \in 0..7, v \in {"public", "private"} }
  \cup { [Case(f, v) EXCEPT !.width = 2] :
      f \in {Varied(5), Equal(6)}, v \in {"public", "private"} }

\* Edits while the file is pushed and before a resume or a repush: other bytes,
\* a file cut short, and one that repeats its last chunk.
Longer(f) == f \o SubSeq(f, Len(f) - 2, Len(f))
Edits ==
  { [Case(Varied(n), v) EXCEPT !.edits = { Equal(n), SubSeq(Varied(n), 1, n - 2), << >> },
                               !.reader = Absent] :
      n \in {3, 6}, v \in {"public", "private"} }
  \cup { [Case(Varied(9), v) EXCEPT !.edits = { Longer(Varied(9)) },
                                     !.reader = IF v = "public" THEN r1 ELSE Absent] :
      v \in {"public", "private"} }

\* Every ranking of a chunk, with ties, under a departure.
Rankings ==
  { [Case(Varied(3), "public") EXCEPT !.score[0] = s, !.r = r, !.departs = TRUE,
                                      !.reader = Absent] :
      s \in [1..3 -> 0..2], r \in 1..2 }
  \cup { [Case(Varied(3), "public") EXCEPT !.r = r, !.departs = TRUE, !.reader = Absent] :
      r \in {0, 3, 4} }

\* Recipients without a key, with an unusable one, with a foreign one.
Sharing ==
  { [Case(Varied(3), "private") EXCEPT !.keys = k, !.recipients = R, !.reader = x] :
      k \in {OwnKeys, Keys(Absent, PublicKeyOf(r2)), Keys(LowOrder, PublicKeyOf(r2)),
             Keys(PublicKeyOf(r2), PublicKeyOf(r2))},
      R \in SUBSET {r1, r2}, x \in {o, r1, r2} }

\* A private file whose archive leaves before its owner comes back, and files
\* that come back under another name.
Moves ==
  { [Case(Varied(4), "private") EXCEPT !.departs = TRUE, !.edits = {Equal(4)}] }
Names ==
  { [Case(Varied(n), v) EXCEPT !.departs = (n = 2), !.names = {"a", "b"}] :
      n \in {2, 4}, v \in {"public", "private"} }

MCCases == Moves \cup Names \cup Lengths \cup Edits \cup Rankings \cup Sharing
=============================================================================
