---------------------------- MODULE MCClientSide ----------------------------
EXTENDS ClientSide, TLC

CONSTANTS p1, p2

-----------------------------------------------------------------------------
(* Discovery: two chunks on one of two archives each, and a snapshot that    *)
(* changes between S1a and S2.                                               *)
MCSnapshots == {<< >>, << 1 >>, << 1, 2 >>, << 2, 3 >>}
MCDScore == [i \in 0..1 |-> [a \in 1..3 |-> (a + i) % 3]]

-----------------------------------------------------------------------------
(* Uploads: equal chunks, unknown peers, more replicas than nodes, none.     *)
UploadOf(cids, nodes, r, known, slice) ==
  [cids |-> cids, nodes |-> nodes, r |-> r, known |-> known, slice |-> slice,
   start |-> [c \in 0..(Len(cids) - 1) |-> [k \in 0..2 |-> c + 2 * k]]]

MCUploads ==
  { UploadOf(cids, << 1, 2 >>, 2, {1, 2}, slice) :
      cids \in {<< 1, 2 >>, << 1, 1 >>, << 1, 2, 1 >>}, slice \in 1..2 }
  \cup { UploadOf(<< 1, 2, 3 >>, << 1, 2, 3 >>, r, {1, 3}, 2) : r \in 0..1 }
  \cup { UploadOf(<< 1 >>, << >>, 1, {}, 1), UploadOf(<< 1 >>, << 1 >>, 3, {1}, 1),
         UploadOf(<< >>, << 1 >>, 1, {1}, 1) }

-----------------------------------------------------------------------------
(* Commands: pairs that meet on one file or one store root.                  *)
Cmd(cmd) ==
  [cmd |-> cmd, library |-> FALSE, seed |-> TRUE, profile |-> "production",
   status |-> TRUE, root |-> 1]
Lib(cmd) == [Cmd(cmd) EXCEPT !.library = TRUE]
Dev(cmd) == [Cmd(cmd) EXCEPT !.profile = "dev"]

Row(row, vis, r) == [row |-> row, vis |-> vis, v1 |-> FALSE, r |-> r]

Pair(a, b, chain_) == [told |-> [p \in Procs |-> IF p = p1 THEN a ELSE b], chain |-> chain_]

Writers ==
  { Pair(Cmd("ingest"), b, Row("none", "public", r)) :
      b \in {Lib("ingest"), Dev("ingest"), Cmd("resume"), Cmd("repush"), Cmd("abandon")},
      r \in 0..1 }
  \cup { Pair(Cmd("resume"), b, Row(row, "private", 1)) :
      b \in {Cmd("repush"), Cmd("abandon"), [Cmd("ingest") EXCEPT !.status = FALSE]},
      row \in {"pending", "active", "abandoned"} }
  \cup { Pair([Cmd("ingest") EXCEPT !.seed = FALSE], Dev("ingest"),
              [Row("none", "public", r) EXCEPT !.v1 = TRUE]) : r \in 0..1 }

Readers ==
  { Pair(a, b, Row(row, vis, 1)) :
      a \in {Cmd("download"), [Cmd("download") EXCEPT !.seed = FALSE], Cmd("ingest")},
      b \in {Lib("download"), [Lib("download") EXCEPT !.root = 2]},
      row \in {"none", "active"}, vis \in {"public", "private", "sealed"} }
  \cup { Pair(Cmd("fetch"), b, Row("active", "public", 1)) :
      b \in {Cmd("listen"), [Cmd("listen") EXCEPT !.root = 2], Lib("download")} }

MCScenarios == Writers \cup Readers
=============================================================================
