----------------------------- MODULE OwnerChain -----------------------------
(***************************************************************************)
(* What the operator commands read and write: the chain, and the one       *)
(* submit-and-wait path they share (submit_and_wait in access.rs,          *)
(* wait_for_finalized in tx_wait.rs, run_register_node and                 *)
(* run_register_encryption_key in main.rs).                                *)
(*                                                                         *)
(* The chain is external, modelled from what the commands assume of it:    *)
(* RPC reads show the node's latest rows, those of a block still in        *)
(* execution included, while the head moves only when the block is stored  *)
(* (the module doc of reassign_v2.rs); an included transaction can be      *)
(* undone until it is final (Included keeps tx_wait.rs polling); of two    *)
(* transactions with one nonce at most one is executed.                    *)
(***************************************************************************)
EXTENDS Naturals, FiniteSets, Sequences, SequencesExt

CONSTANTS
  Owner,         \* account that owns the files
  People,        \* other accounts a file can be shared with
  Archives,      \* archive accounts
  Me,            \* the archive whose operator runs repush-audit
  Files,         \* V2 files; the access list is that of the Private file
  PrivateFile,
  Holders,       \* Holders[f][S]: archives of snapshot S that are assigned a chunk of f
  Procs,         \* command processes
  Menus,         \* bound: commands run together, rows, archives that leave, faults
  MaxRunning,    \* bound: commands running at a time
  FirstList,     \* the access list when the commands start
  PageSize, MaxPages,   \* ACCESS_PAGE_SIZE, ACCESS_MAX_PAGES
  ReadAttempts,         \* READ_ATTEMPTS
  MaxBlocks,     \* bound: heads after the first
  MaxMoves,      \* bound: archives that leave
  MaxFaults,     \* bound: RPC errors, bad answers and evictions
  None

Accounts == {Owner} \cup People \cup Archives

\* An access entry: who, expires_at as until (0 for none, h + 1 for h), and
\* whom its key bundle was wrapped for.
Entry(w, u, b) == [who |-> w, until |-> u, bundle |-> b]
NoEntry == Entry(None, 0, None)
Entries == [who : Accounts, until : Nat, bundle : Accounts]

Rows == {"none", "public", "pending", "foreign", "active", "abandoned"}

Commands ==
  [op : {"share", "revoke", "update", "open", "key", "reassign", "join", "audit"},
   by : Accounts, who : Accounts, until : Nat \cup {None}, file : Files, dry : BOOLEAN]

\* The list a Private file is registered with: the owner's own entry among
\* them, each account once, each bundle wrapped for its account.
ASSUME OwnerAssumption ==
  /\ Me \in Archives /\ PrivateFile \in Files /\ Owner \notin People
  /\ \A f \in Files, S \in SUBSET Archives : Holders[f][S] \subseteq S
  /\ PageSize \in Nat \ {0} /\ MaxPages \in Nat \ {0} /\ ReadAttempts \in Nat \ {0}
  /\ MaxBlocks \in Nat /\ MaxMoves \in Nat /\ MaxFaults \in Nat
  /\ Procs \subseteq Nat /\ None \notin Accounts \cup Files
  /\ \A m \in Menus : m.cmds \subseteq Commands /\ m.rows \subseteq Rows
  /\ FirstList \in Seq(Entries)
  /\ \A i, j \in DOMAIN FirstList : FirstList[i].who = FirstList[j].who => i = j
  /\ \A i \in DOMAIN FirstList : FirstList[i].bundle = FirstList[i].who
  /\ \E i \in DOMAIN FirstList : FirstList[i].who = Owner

VARIABLES
  row,       \* chain: what it has for the files: see Rows
  now,       \* chain: the rows RPC reads: [list, nonce, keyed, gone, snap, epoch]
  fin,       \* chain: the rows at the finalized height
  head,      \* chain: identity of the latest block
  open,      \* chain: a block is being executed
  height,    \* chain: finalized height
  tx,        \* tx[p]: the transaction process p sent, with its status
  menu,      \* the commands that may still be started
  proc,      \* proc[p]: a command process
  have,      \* files whose assigned chunks the audited archive can answer for
  moves, mishaps

ownerVars == <<row, now, fin, head, open, height, tx, menu, proc, have, moves, mishaps>>

NoTx == [op |-> "none", by |-> None, nonce |-> 0, arg |-> None, st |-> "none"]

\* What a coverage response carries: the rows of the latest epoch, the archives
\* of it that are not active, reassignment_needed.
Coverage(rows, gone, needed) == [rows |-> rows, gone |-> gone, needed |-> needed]
NoCoverage == Coverage([snap |-> {}, epoch |-> 0], {}, FALSE)

\* A process: where it is, what it was asked, what it read.  An audit has the
\* file at hand with its epoch and snapshot, the report of each file, and the
\* files rechecked.
Fresh(c) ==
  [pc |-> "gate", cmd |-> c, out |-> "none", seed |-> <<>>, page |-> 0, entry |-> NoEntry,
   nonce |-> 0, tries |-> 0, head1 |-> 0, cov |-> NoCoverage, saw |-> NoCoverage,
   file |-> None, epoch |-> 0, snap |-> {}, again |-> {},
   report |-> [f \in Files |-> [epoch |-> 0, verdict |-> "none"]], cause |-> FALSE]
NoCmd == [op |-> "none", by |-> None, who |-> None, until |-> 0, file |-> None, dry |-> FALSE]

FirstRows ==
  [list |-> FirstList, nonce |-> [a \in Accounts |-> 0], keyed |-> {e.who : e \in ToSet(FirstList)},
   gone |-> {}, snap |-> [f \in Files |-> Archives], epoch |-> [f \in Files |-> 1]]

OwnerInit ==
  /\ \E m \in Menus :
       /\ menu = m.cmds /\ row \in m.rows
       /\ moves = MaxMoves - m.leaves /\ mishaps = MaxFaults - m.faults
       /\ have \in IF m.leaves > 0 THEN {{}, Files} ELSE {Files}
  /\ now = FirstRows /\ fin = now /\ head = 0 /\ open = FALSE /\ height = 0
  /\ tx = [p \in Procs |-> NoTx]
  /\ proc = [p \in Procs |-> [Fresh(NoCmd) EXCEPT !.pc = "idle"]]

-----------------------------------------------------------------------------
(* The chain. *)

MovedUp(w, old, new) ==
  \E i \in DOMAIN old, j \in DOMAIN new : old[i].who = w /\ new[j].who = w /\ j < i

Listed(list, w) == \E i \in DOMAIN list : list[i].who = w

\* Listed where a scan can find it: among its first MaxPages pages.
InReach(list, w) == \E i \in DOMAIN list : i <= MaxPages * PageSize /\ list[i].who = w

\* The list without the entry of w, in the same order; with entry e for e.who.
Removed(list, w) ==
  LET i == CHOOSE i \in DOMAIN list : list[i].who = w IN
  [j \in 1 .. Len(list) - 1 |-> list[IF j < i THEN j ELSE j + 1]]
Updated(list, e) == [i \in DOMAIN list |-> IF list[i].who = e.who THEN e ELSE list[i]]

\* reassignment_needed: an archive of the latest snapshot is not active.
Needed(s, f) == s.snap[f] \cap s.gone # {}

\* An archive that left is assigned a chunk under the latest epoch.
DepartedAssignee(s, f) == Holders[f][s.snap[f]] \cap s.gone # {}

Accepts(s, t) ==
  CASE t.op = "share"    -> row = "active" /\ ~Listed(s.list, t.arg.who)
    [] t.op = "revoke"   -> row = "active" /\ Listed(s.list, t.arg)
    [] t.op = "update"   -> row = "active" /\ Listed(s.list, t.arg.who)
    [] t.op = "reassign" -> row # "abandoned" /\ Needed(s, t.arg)
    [] OTHER             -> TRUE

Effect(s, t) ==
  CASE t.op = "share"    -> [s EXCEPT !.list = Append(@, t.arg)]
    [] t.op = "revoke"   -> [s EXCEPT !.list = Removed(@, t.arg)]
    [] t.op = "update"   -> [s EXCEPT !.list = Updated(@, t.arg)]
    [] t.op = "reassign" -> [s EXCEPT !.snap[t.arg] = Archives \ s.gone,
                                      !.epoch[t.arg] = @ + 1]
    [] t.op = "key"      -> [s EXCEPT !.keyed = @ \cup {t.by}]
    [] t.op = "join"     -> [s EXCEPT !.gone = @ \ {t.by}]

\* What the properties say happened while a command was reading (ghosts):
\* the account it looks for moved up the list or was out of reach during its
\* scan, or the file it looks at had a departed assignee at some moment.  For
\* an audit: see Evaluate and Reorg.
Witness(s) ==
  [p \in Procs |->
     LET q == proc[p] IN
     CASE q.pc = "page" ->
            [q EXCEPT !.cause = @ \/ MovedUp(q.cmd.who, now.list, s.list)
                                  \/ ~InReach(s.list, q.cmd.who)]
       [] q.pc \in {"rows", "active", "rows2", "active2", "head2"} ->
            [q EXCEPT !.cause = @ \/ DepartedAssignee(s, q.cmd.file)]
       [] OTHER -> q]

Include(p) ==
  /\ tx[p].st = "pending" /\ tx[p].nonce = now.nonce[tx[p].by] /\ head < MaxBlocks
  /\ LET ok == Accepts(now, tx[p])
         s  == IF ok THEN Effect(now, tx[p]) ELSE now
         s1 == [s EXCEPT !.nonce[tx[p].by] = @ + 1] IN
     /\ now' = s1 /\ proc' = Witness(s1)
     /\ tx' = [tx EXCEPT ![p].st = IF ok THEN "included" ELSE "failed"]
  /\ open' = TRUE
  /\ UNCHANGED <<row, fin, head, height, menu, have, moves, mishaps>>

\* An archive leaves the active set.
Leave ==
  /\ moves < MaxMoves /\ moves' = moves + 1 /\ head < MaxBlocks
  /\ \E a \in Archives \ now.gone :
       LET s == [now EXCEPT !.gone = @ \cup {a}] IN now' = s /\ proc' = Witness(s)
  /\ open' = TRUE
  /\ UNCHANGED <<row, fin, head, height, tx, menu, have, mishaps>>

Seal ==
  /\ open /\ open' = FALSE /\ head' = head + 1
  /\ UNCHANGED <<row, now, fin, height, tx, menu, proc, have, moves, mishaps>>

Finalize ==
  /\ ~open /\ fin # now /\ fin' = now /\ height' = height + 1
  /\ tx' = [p \in Procs |-> IF tx[p].st = "included" THEN [tx[p] EXCEPT !.st = "finalized"]
                                                     ELSE tx[p]]
  /\ UNCHANGED <<row, now, head, open, menu, proc, have, moves, mishaps>>

\* A transaction refused by the chain stays refused; one that was undone
\* waits again or is dropped.
Reorg ==
  /\ ~open /\ fin # now /\ head < MaxBlocks /\ head' = head + 1
  /\ now' = fin
  /\ proc' = [p \in Procs |-> IF proc[p].pc \in {"epoch", "answer", "recheck"}
                              THEN [proc[p] EXCEPT !.cause = TRUE] ELSE Witness(fin)[p]]
  /\ \E st \in {"pending", "dropped"} :
       tx' = [p \in Procs |-> IF tx[p].st = "included" THEN [tx[p] EXCEPT !.st = st]
                                                       ELSE tx[p]]
  /\ UNCHANGED <<row, fin, open, height, menu, have, moves, mishaps>>

Evict(p) ==
  /\ tx[p].st = "pending" /\ mishaps < MaxFaults /\ mishaps' = mishaps + 1
  /\ tx' = [tx EXCEPT ![p].st = "dropped"]
  /\ UNCHANGED <<row, now, fin, head, open, height, menu, proc, have, moves>>

\* Chunks of a file the audited archive lacked arrive, while it is audited.
Arrive ==
  /\ \E p \in Procs : proc[p].cmd.op = "audit" /\ proc[p].pc # "done"
  /\ \E f \in Files \ have : have' = have \cup {f}
  /\ UNCHANGED <<row, now, fin, head, open, height, tx, menu, proc, moves, mishaps>>

ChainStep ==
  \/ \E p \in Procs : Include(p) \/ Evict(p)
  \/ Leave \/ Seal \/ Finalize \/ Reorg \/ Arrive

-----------------------------------------------------------------------------
(* A command's steps.  Go(p, q) replaces the process record. *)

Go(p, q) == proc' = [proc EXCEPT ![p] = q]
\* The process exits; what it did and why stays for the properties.
End(p, q, o) ==
  Go(p, [Fresh(q.cmd) EXCEPT !.pc = "done", !.out = o, !.cause = q.cause])

\* A read of the chain that leaves everything but the process alone.
Quiet == UNCHANGED <<row, now, fin, head, open, height, tx, menu, have, moves, mishaps>>

\* Processes are numbered in the order they are started.
Start(p) ==
  /\ proc[p].pc = "idle" /\ \A i \in Procs : i < p => proc[i].pc # "idle"
  /\ Cardinality({i \in Procs : proc[i].pc \notin {"idle", "done"}}) < MaxRunning
  /\ \E c \in menu :
       /\ menu' = menu \ {c}
       /\ Go(p, [Fresh(c) EXCEPT !.pc =
            CASE c.op = "reassign" -> "info" [] c.op = "audit" -> "audit"
              [] c.op = "join" -> "nonce" [] c.op = "open" -> "row" [] OTHER -> "gate"])
  /\ UNCHANGED <<row, now, fin, head, open, height, tx, have, moves, mishaps>>

\* Any RPC of a command may fail; the command ends with its error.
Reading == {"gate", "row", "page", "own", "expiry", "key", "pre", "nonce", "info", "params",
            "head1", "rows", "active", "rows2", "active2", "head2", "build", "wait"}
Fails(p) ==
  /\ proc[p].pc \in Reading /\ mishaps < MaxFaults /\ mishaps' = mishaps + 1
  /\ IF proc[p].pc = "pre" THEN Go(p, [proc[p] EXCEPT !.pc = "nonce"]) ELSE End(p, proc[p], "error")
  /\ UNCHANGED <<row, now, fin, head, open, height, tx, menu, have, moves>>

\* RegisterEncryptionKey reads the key on chain and goes on whatever it is.
Precheck(p) ==
  /\ proc[p].pc = "pre" /\ Go(p, [proc[p] EXCEPT !.pc = "nonce"]) /\ Quiet

GetNonce(p) ==
  /\ proc[p].pc = "nonce"
  /\ Go(p, [proc[p] EXCEPT !.pc = "send", !.nonce = now.nonce[proc[p].cmd.by]]) /\ Quiet

\* ExpiryDirective::to_chain_value: no directive is no expiry.
Expiry(u) == IF u = None THEN 0 ELSE u

\* What the command signs.
PayloadUnwrapped(q) ==
  CASE q.cmd.op = "share"    -> Entry(q.cmd.who, Expiry(q.cmd.until), q.cmd.by)
    [] q.cmd.op = "update"   -> Entry(q.cmd.who, q.cmd.until, q.entry.bundle)
    [] q.cmd.op = "revoke"   -> q.cmd.who
    [] q.cmd.op = "reassign" -> q.cmd.file
    [] OTHER                 -> None
Payload(q) ==
  CASE q.cmd.op = "share"    -> Entry(q.cmd.who, Expiry(q.cmd.until), q.cmd.who)
    [] q.cmd.op = "update"   -> Entry(q.cmd.who, q.cmd.until, q.entry.bundle)
    [] q.cmd.op = "revoke"   -> q.cmd.who
    [] q.cmd.op = "reassign" -> q.cmd.file
    [] OTHER                 -> None

\* send_raw_transaction: in the pool, or refused (a nonce already used, a full
\* pool, a lost call).
Send(p) ==
  LET q == proc[p] IN
  /\ q.pc = "send"
  /\ \/ /\ tx' = [tx EXCEPT ![p] = [op |-> q.cmd.op, by |-> q.cmd.by, nonce |-> q.nonce,
                                    arg |-> Payload(q), st |-> "pending"]]
        /\ Go(p, [q EXCEPT !.pc = "wait"]) /\ UNCHANGED mishaps
     \/ /\ q.nonce < now.nonce[q.cmd.by] \/ mishaps < MaxFaults
        /\ mishaps' = IF q.nonce < now.nonce[q.cmd.by] THEN mishaps ELSE mishaps + 1
        /\ End(p, q, "error") /\ UNCHANGED tx
  /\ UNCHANGED <<row, now, fin, head, open, height, menu, have, moves>>

\* wait_for_finalized: one poll that ends the wait, or its deadline.
SettledEarly ==
  [finalized |-> "ok", included |-> "ok", failed |-> "refused", dropped |-> "dropped"]
Settled == [finalized |-> "ok", failed |-> "refused", dropped |-> "dropped"]
Poll(p) ==
  /\ proc[p].pc = "wait" /\ tx[p].st \in DOMAIN Settled
  /\ End(p, proc[p], Settled[tx[p].st]) /\ Quiet
DeadlineUnsent(p) ==
  /\ proc[p].pc = "wait" /\ tx[p].st = "none"
  /\ End(p, proc[p], "timeout") /\ Quiet
Deadline(p) ==
  /\ proc[p].pc = "wait" /\ tx[p].st \notin DOMAIN Settled
  /\ End(p, proc[p], "timeout") /\ Quiet

SubmitStep(p) == Precheck(p) \/ GetNonce(p) \/ Send(p) \/ Poll(p) \/ Deadline(p)
=============================================================================
