--------------------------- MODULE OwnerCommands ---------------------------
(***************************************************************************)
(* What an operator runs against the chain after a file is stored: the     *)
(* access-list commands, the reassignment request and the repair audit.    *)
(***************************************************************************)
EXTENDS OwnerChain

---------------------------------------------------------------------------
(* The access-list commands of a Private V2 file's owner (share, revoke,   *)
(* update-access in access.rs), the account's own RegisterEncryptionKey    *)
(* (main.rs), and a recipient looking its entry up before a download       *)
(* (download_private.rs).  Each reads the list page by page, at an offset, *)
(* while other commands change it.                                         *)

\* require_v2_enabled; the chain of this model has V2 enabled, so only its
\* two reads matter.  update-access was refused before without a directive.
Gate(p) ==
  LET q == proc[p] IN
  /\ q.pc = "gate"
  /\ IF q.cmd.op = "key" THEN Go(p, [q EXCEPT !.pc = "pre"])
     ELSE IF q.cmd.op = "update" /\ q.cmd.until = None THEN End(p, q, "no-directive")
     ELSE Go(p, [q EXCEPT !.pc = "row"])
  /\ Quiet

PageOf(i) ==
  LET from == i * PageSize
      left == IF from < Len(now.list) THEN Len(now.list) - from ELSE 0 IN
  [k \in 1 .. (IF left < PageSize THEN left ELSE PageSize) |-> now.list[from + k]]

EntryIn(page, w) ==
  LET at == {i \in DOMAIN page : page[i].who = w} IN
  IF at = {} THEN NoEntry ELSE page[CHOOSE i \in at : \A j \in at : i <= j]

\* The last page read has fewer entries than were asked for.
ExhaustedFull(page) == Len(page) <= PageSize
Exhausted(page) == Len(page) < PageSize

-----------------------------------------------------------------------------
(* After the scan for the target (entry NoEntry: not found). *)

ShareFound(p, q, e) ==
  IF e # NoEntry THEN End(p, q, "already-listed") ELSE Go(p, [q EXCEPT !.pc = "key"])

RevokeFound(p, q, e) ==
  IF e = NoEntry THEN End(p, q, "not-listed") ELSE Go(p, [q EXCEPT !.pc = "nonce"])

UpdateFound(p, q, e) ==
  IF e = NoEntry THEN End(p, q, "not-listed")
  ELSE IF e.until = q.cmd.until THEN End(p, q, "no-op")
  ELSE Go(p, [q EXCEPT !.pc = "nonce", !.entry = e])

OpenFound(p, q, e) ==
  IF e = NoEntry THEN End(p, q, "not-listed")
  ELSE IF e.until = 0 THEN End(p, q, IF e.bundle = q.cmd.by THEN "opened" ELSE "unwrap")
  ELSE Go(p, [q EXCEPT !.pc = "expiry", !.entry = e])

Found(p, q, e) ==
  CASE q.cmd.op = "share"  -> ShareFound(p, q, e)
    [] q.cmd.op = "revoke" -> RevokeFound(p, q, e)
    [] q.cmd.op = "update" -> UpdateFound(p, q, e)
    [] q.cmd.op = "open"   -> OpenFound(p, q, e)

\* One page of find_access_entry or find_my_access_entry: the entry is on it,
\* or it was the last, or the next is read.
Scan(p, q, page, i) ==
  LET e == EntryIn(page, q.cmd.who) IN
  IF e # NoEntry \/ Exhausted(page) \/ i + 1 >= MaxPages
  THEN Found(p, q, e)
  ELSE Go(p, [q EXCEPT !.pc = "page", !.page = i + 1])

-----------------------------------------------------------------------------

\* require_private_v2_owner for the owner's commands.
OwnerRefusal ==
  CASE row = "none" -> "not-V2" [] row = "public" -> "not-Private"
    [] row \in {"pending", "abandoned"} -> "not-active" [] row = "foreign" -> "not-owner" [] OTHER -> "none"

NoSelfCheck(q) == FALSE
OwnerSelfRevoke(q) == q.cmd.op = "revoke" /\ q.cmd.who = Owner

ReadRow(p) ==
  LET page == PageOf(0)
      q == [proc[p] EXCEPT !.seed = page, !.cause = ~InReach(now.list, proc[p].cmd.who)] IN
  /\ q.pc = "row"
  /\ IF q.cmd.op = "open" /\ row \in {"none", "public"} THEN End(p, q, "another-route")
     ELSE IF q.cmd.op # "open" /\ OwnerRefusal # "none" THEN End(p, q, OwnerRefusal)
     ELSE IF OwnerSelfRevoke(q) THEN End(p, q, "self-revoke")
     ELSE Scan(p, q, page, 0)
  /\ Quiet

ReadPage(p) ==
  /\ proc[p].pc = "page"
  /\ Scan(p, proc[p], PageOf(proc[p].page), proc[p].page) /\ Quiet

\* share: the recipient's registered key, then K_file out of the owner's own
\* entry, looked for in the first page and then in the pages after it.
ReadKey(p) ==
  LET q == proc[p] IN
  /\ q.pc = "key"
  /\ IF q.cmd.who \notin now.keyed THEN End(p, q, "no-key")
     ELSE Go(p, [q EXCEPT !.pc = "own", !.page = 0])
  /\ Quiet

RecoverKey(p) ==
  LET q == proc[p]
      page == IF q.page = 0 THEN q.seed ELSE PageOf(q.page)
      e == EntryIn(page, Owner) IN
  /\ q.pc = "own"
  /\ IF e # NoEntry
     THEN IF e.bundle = Owner THEN Go(p, [q EXCEPT !.pc = "nonce"]) ELSE End(p, q, "unwrap")
     ELSE IF Exhausted(page) \/ q.page + 1 >= MaxPages THEN End(p, q, "owner-missing")
     ELSE Go(p, [q EXCEPT !.page = @ + 1])
  /\ Quiet

\* check_access_expiry: the finalized height is past expires_at.
Expired(e) == height > e.until - 1

ReadHeight(p) ==
  LET q == proc[p] IN
  /\ q.pc = "expiry"
  /\ IF Expired(q.entry) THEN End(p, q, "expired")
     ELSE End(p, q, IF q.entry.bundle = q.cmd.by THEN "opened" ELSE "unwrap")
  /\ Quiet

AccessStep(p) ==
  \/ Gate(p) \/ ReadRow(p) \/ ReadPage(p) \/ ReadKey(p) \/ RecoverKey(p) \/ ReadHeight(p)

---------------------------------------------------------------------------
(* reassign (reassign_v2.rs): owner check, coverage read twice between two *)
(* reads of the head, the N2 rule, the chain's builder, then sign and      *)
(* send.  A coverage answer is not a snapshot: the chain's handler reads   *)
(* the latest epoch's archives and then which of them are active.          *)

RowsOf(f) == [snap |-> now.snap[f], epoch |-> now.epoch[f]]

ReadInfo(p) ==
  LET q == proc[p] IN
  /\ q.pc = "info"
  /\ IF row = "none" THEN End(p, q, "not-registered")
     ELSE IF row = "foreign" THEN End(p, q, "not-owner")
     ELSE Go(p, [q EXCEPT !.pc = "params"])
  /\ Quiet

ReadParams(p) ==
  /\ proc[p].pc = "params" /\ Go(p, [proc[p] EXCEPT !.pc = "head1"]) /\ Quiet

ReadHead1(p) ==
  LET q == proc[p] IN
  /\ q.pc = "head1"
  /\ Go(p, [q EXCEPT !.pc = "rows", !.head1 = head, !.tries = @ + 1,
                     !.cause = DepartedAssignee(now, q.cmd.file)])
  /\ Quiet

\* The two parts of a coverage read; the flag is computed with either.
ReadEpochRows(p) ==
  LET q == proc[p] IN
  /\ q.pc \in {"rows", "rows2"}
  /\ Go(p, [q EXCEPT !.pc = IF q.pc = "rows" THEN "active" ELSE "active2",
                     !.saw = Coverage(RowsOf(q.cmd.file), {}, Needed(now, q.cmd.file))])
  /\ Quiet

ReadActive(p) ==
  LET q == proc[p]
      f == q.cmd.file IN
  /\ q.pc \in {"active", "active2"}
  /\ \E needed \in {q.saw.needed, Needed(now, f)} :
       LET c == Coverage(q.saw.rows, now.gone \cap q.saw.rows.snap, needed) IN
       IF q.pc = "active"
       THEN IF needed THEN Go(p, [q EXCEPT !.pc = "rows2", !.cov = c]) ELSE End(p, q, "not-needed")
       ELSE Go(p, [q EXCEPT !.pc = "head2", !.saw = c])
  /\ Quiet

\* evaluate_n2: archives that left and hold a chunk, by the chain's count or,
\* above its cap, by the same assignment computed here.
ChainRule(f, c) == c.gone
Departed(f, c) == Holders[f][c.rows.snap] \cap c.gone

\* The reads can be used: one head, equal coverage, a flag that agrees with it.
SameReads(q) == q.cov = q.saw
Stable(q) == q.head1 = head /\ SameReads(q) /\ q.cov.gone # {}

AgainOnce(p, q) ==
  IF q.tries <= ReadAttempts THEN Go(p, [q EXCEPT !.pc = "head1"]) ELSE End(p, q, "unstable")
Again(p, q) ==
  IF q.tries < ReadAttempts THEN Go(p, [q EXCEPT !.pc = "head1"]) ELSE End(p, q, "unstable")

ReadHead2(p) ==
  LET q == proc[p] IN
  /\ q.pc = "head2"
  /\ IF ~Stable(q) THEN Again(p, q)
     ELSE IF Departed(q.cmd.file, q.cov) = {} THEN End(p, q, "nobody-departed")
     ELSE Go(p, [q EXCEPT !.pc = "build"])
  /\ Quiet

\* A response without usable epochs is refused at once, whatever was decided.
Unusable(p) ==
  /\ proc[p].pc = "head2" /\ proc[p].head1 = head /\ SameReads(proc[p])
  /\ mishaps < MaxFaults /\ mishaps' = mishaps + 1 /\ End(p, proc[p], "unusable")
  /\ UNCHANGED <<row, now, fin, head, open, height, tx, menu, have, moves>>

\* storage_buildReassignChunksV2 and verify_unsigned_reassign: the built
\* transaction is the one asked for, or nothing is signed.
Build(p) ==
  LET q == proc[p] IN
  /\ q.pc = "build"
  /\ IF q.cmd.dry THEN End(p, q, "dry-run")
     ELSE Go(p, [q EXCEPT !.pc = "send", !.nonce = now.nonce[q.cmd.by]])
  /\ Quiet

Mismatch(p) ==
  /\ proc[p].pc = "build" /\ mishaps < MaxFaults /\ mishaps' = mishaps + 1
  /\ End(p, proc[p], "mismatch")
  /\ UNCHANGED <<row, now, fin, head, open, height, tx, menu, have, moves>>

ReassignStep(p) ==
  \/ ReadInfo(p) \/ ReadParams(p) \/ ReadHead1(p) \/ ReadEpochRows(p) \/ ReadActive(p)
  \/ ReadHead2(p) \/ Unusable(p) \/ Build(p) \/ Mismatch(p)

---------------------------------------------------------------------------
(* repush-audit (repair_audit.rs, run_repush_audit in main.rs): for every  *)
(* file of the operator's inventory, the epoch, its snapshot and the local *)
(* answers, then every file's epoch again.  It runs beside the archive, so *)
(* chunks arrive and files are reassigned meanwhile.                       *)

\* The files evaluated so far.  A verdict is "none" before, "usable" or
\* "lacking" after, and "moved" when the second read finds another epoch.
Evaluated(q) == {f \in Files : q.report[f].verdict # "none"}

\* The file rows: not registered is an error, an abandoned file owes nothing.
Begin(p) ==
  LET q == proc[p] IN
  /\ q.pc = "audit"
  /\ IF row = "none" THEN End(p, q, "audit-error")
     ELSE IF row = "abandoned" THEN End(p, q, "nothing-assigned")
     ELSE Go(p, [q EXCEPT !.pc = "epoch"])
  /\ Quiet

\* read_epoch, the first of a file's reads.
ReadEpoch(p) ==
  LET q == proc[p] IN
  /\ q.pc = "epoch"
  /\ \E f \in Files \ Evaluated(q) :
       /\ Go(p, [q EXCEPT !.pc = "answer", !.file = f, !.epoch = now.epoch[f],
                          !.snap = now.snap[f]])
  /\ Quiet

\* The chunks that epoch assigns this archive can be answered for, or not.
Answerable(f, S) == Me \in Holders[f][S] => f \in have

Evaluate(p) ==
  LET q == proc[p]
      r == [epoch |-> q.epoch,
            verdict |-> IF Answerable(q.file, q.snap) THEN "usable" ELSE "lacking"]
      last == Files \ Evaluated(q) = {q.file} IN
  /\ q.pc = "answer"
  /\ Go(p, [q EXCEPT !.pc = IF last THEN "recheck" ELSE "epoch", !.report[q.file] = r,
                     !.cause = @ \/ (last /\ \A f \in Files : Answerable(f, now.snap[f]))])
  /\ Quiet

Fault(p) ==
  /\ proc[p].pc \in {"epoch", "answer", "recheck"} /\ mishaps < MaxFaults
  /\ mishaps' = mishaps + 1 /\ End(p, proc[p], "audit-error")
  /\ UNCHANGED <<row, now, fin, head, open, height, tx, menu, have, moves>>

\* Each file's epoch again, once all are evaluated.
RecheckSkipped(p) ==
  LET q == proc[p] IN
  /\ q.pc = "recheck"
  /\ \E f \in Files \ q.again : Go(p, [q EXCEPT !.again = @ \cup {f}])
  /\ Quiet
Recheck(p) ==
  LET q == proc[p] IN
  /\ q.pc = "recheck"
  /\ \E f \in Files \ q.again :
       LET v == IF now.epoch[f] = q.report[f].epoch THEN q.report[f].verdict ELSE "moved" IN
       Go(p, [q EXCEPT !.report[f].verdict = v, !.again = @ \cup {f}])
  /\ Quiet

Verdict(p) ==
  LET q == proc[p] IN
  /\ q.pc = "recheck" /\ q.again = Files
  /\ End(p, q, IF \A f \in Files : q.report[f].verdict = "usable" THEN "complete"
                                                              ELSE "incomplete")
  /\ Quiet

AuditStep(p) ==
  Begin(p) \/ ReadEpoch(p) \/ Evaluate(p) \/ Fault(p) \/ Recheck(p) \/ Verdict(p)
=============================================================================
