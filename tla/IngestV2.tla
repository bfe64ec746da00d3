------------------------------- MODULE IngestV2 -------------------------------
(***************************************************************************)
(* The owner's side of one V2 file: IngestPipeline::run, run_private,      *)
(* resume, repush and abandon (crates/sum-node/src/ingest_v2.rs), against  *)
(* archives that accept, refuse or do not answer and a chain that executes,*)
(* rejects or never shows a transaction.                                   *)
(*                                                                         *)
(* The commands are run one after the other, in any order, and may die at  *)
(* any point.  The path is the right one (a wrong one is refused before    *)
(* anything is sent), R > 0, and no other owner registers the root.        *)
(*                                                                         *)
(* External, from how the code uses them: the chain (it registers a root   *)
(* once, pins the active archives at that moment, activates a Pending file *)
(* every chunk of which an active archive attests, abandons one after the  *)
(* grace period) and the archives, which store what they acknowledge       *)
(* (ArchiveStore) and attest what they hold (ArchiveSubmissions).          *)
(***************************************************************************)
EXTENDS Naturals, Sequences, FiniteSets

CONSTANTS
    Chunks,       \* chunks of the file
    Archives,     \* archive nodes
    Manifest,     \* the manifest, as a thing to push
    R,            \* assignment_replication_factor
    Assign,       \* Assign[s][c]: archives of chunk c under snapshot s
    PushRetries,  \* push_retries
    Grace,        \* activation_grace_blocks
    MaxHeight,    \* bound on the block height
    MaxOps,       \* bound on the number of commands
    MaxEpochs,    \* bound on the assignment epochs
    MaxLeave,     \* bound on the archives that leave the active set
    Cmds          \* commands the owner gives

Items == Chunks \cup {Manifest}
Ops   == 1..MaxOps
Kinds == {"register", "activate", "abandon"}

ASSUME IngestAssumption ==
    /\ IsFiniteSet(Chunks) /\ IsFiniteSet(Archives) /\ Manifest \notin Chunks
    /\ R \in Nat \ {0} /\ PushRetries \in Nat /\ Grace \in Nat
    /\ MaxHeight \in Nat /\ MaxOps \in Nat /\ MaxEpochs \in Nat \ {0} /\ MaxLeave \in Nat
    /\ Assign \in [SUBSET Archives -> [Chunks -> SUBSET Archives]]
    /\ \A s \in SUBSET Archives, c \in Chunks :
          /\ Assign[s][c] \subseteq s
          /\ Cardinality(Assign[s][c]) = IF Cardinality(s) < R THEN Cardinality(s) ELSE R
    /\ Cmds \subseteq {"run", "resume", "repush", "abandon"}

VARIABLES
    \* -- chain --
    stage,     \* lifecycle of the file
    height,    \* block height
    created,   \* height at which the file was registered
    taken,     \* the root is registered as a V1 file
    live,      \* active archives
    epochs,    \* epochs[e]: the active archives pinned for assignment epoch e
    attested,  \* (chunk, archive) pairs attested
    nonce,     \* next nonce of the owner's account
    pool,      \* transactions sent and not executed: <<kind, command, nonce>>
    status,    \* status[<<kind, k>>]: what became of that transaction of command k
    \* -- archives and network --
    holders,   \* (item, archive) pairs durably stored
    msgs,      \* <<"push" | "ack" | "nack", command, item, archive>>
    \* -- owner --
    n,         \* number of the present or last command; 0 before the first
    cmd,       \* that command
    pc,        \* its stage
    todo,      \* chunks_to_push
    snap,      \* the snapshot its targets come from
    reach,     \* archives with a live identified peer
    targets,   \* (item, archive) pairs of the wave it waits for
    attempts,  \* attempts[t]: pushes of target t
    acked,     \* pairs acknowledged to this command
    epoch,     \* the epoch repush works for
    outcome,   \* what the command returned, "none" while it runs
    told       \* everything the owner has been told so far

chain    == <<stage, height, created, taken, live, epochs, attested, nonce, pool, status>>
archives == <<holders, msgs>>
work     == <<todo, snap, reach, targets, attempts, acked, epoch>>
vars     == <<stage, height, created, taken, live, epochs, attested, nonce, pool,
              status, holders, msgs, n, cmd, pc, todo, snap, reach, targets, attempts, acked,
              epoch, outcome, told>>

Targets == Items \X Archives

Stages == {"s1a", "register", "registered?", "lookup", "inputs", "push", "s3", "manifest",
           "s4", "activate", "activated?", "info", "coverage", "missing", "repush",
           "rechunk", "remanifest", "abandon", "abandon!", "abandoned?"}

Outcomes == {"none", "active", "pending", "abandoned", "error", "refused", "already",
             "unconfirmed", "complete", "incomplete", "notyet", "died"}

TypeOK ==
    /\ stage \in {"none", "pending", "active", "abandoned"}
    /\ height \in 0..MaxHeight /\ created \in 0..MaxHeight /\ taken \in BOOLEAN
    /\ live \subseteq Archives /\ epochs \in Seq(SUBSET Archives) /\ Len(epochs) <= MaxEpochs
    /\ attested \subseteq Chunks \X Archives /\ attested \subseteq holders
    /\ holders \subseteq Targets
    /\ nonce \in Nat /\ pool \subseteq Kinds \X Ops \X Nat
    /\ status \in [Kinds \X Ops -> {"none", "ok", "failed", "dropped"}]
    /\ msgs \subseteq {"push", "ack", "nack"} \X (0..MaxOps) \X Items \X Archives
    /\ n \in 0..MaxOps /\ cmd \in Cmds \cup {"none"} /\ pc \in Stages \cup {"idle"}
    /\ todo \subseteq Chunks /\ snap \subseteq Archives /\ reach \subseteq Archives
    /\ targets \subseteq Targets /\ acked \subseteq Targets
    /\ attempts \in [Targets -> 0..(PushRetries + 1)]
    /\ epoch \in 0..MaxEpochs /\ outcome \in Outcomes

Init ==
    /\ stage = "none" /\ height = 0 /\ created = 0 /\ epochs = << >>
    /\ taken \in BOOLEAN /\ live = Archives
    /\ attested = {} /\ nonce = 0 /\ pool = {} /\ status = [tx \in Kinds \X Ops |-> "none"]
    /\ holders = {} /\ msgs = {}
    /\ n = 0 /\ cmd = "none" /\ pc = "idle" /\ outcome = "none" /\ told = {}
    /\ todo = {} /\ snap = {} /\ reach = {} /\ targets = {} /\ acked = {} /\ epoch = 0
    /\ attempts = [t \in Targets |-> 0]

-------------------------------------------------------------------------------
(* The chain (external).                                                    *)

Covered(c) == \E a \in live : <<c, a>> \in attested

\* can_activate_now
CanActivate == stage = "pending" /\ \A c \in Chunks : Covered(c)

\* A transaction with the account's nonce is executed; it fails, and is paid
\* for, when its operation is not admissible.
Execute(kind, k) ==
    LET admissible ==
          CASE kind = "register" -> stage = "none" /\ ~taken
            [] kind = "activate" -> CanActivate
            [] OTHER             -> stage = "pending" /\ height > created + Grace
    IN
    /\ <<kind, k, nonce>> \in pool
    /\ pool' = pool \ {<<kind, k, nonce>>}
    /\ nonce' = nonce + 1
    /\ status' = [status EXCEPT ![<<kind, k>>] = IF admissible THEN "ok" ELSE "failed"]
    /\ stage' = IF ~admissible THEN stage
                ELSE CASE kind = "register" -> "pending"
                       [] kind = "activate" -> "active"
                       [] OTHER             -> "abandoned"
    /\ IF admissible /\ kind = "register"
         THEN epochs' = <<live>> /\ created' = height
         ELSE UNCHANGED <<epochs, created>>
    /\ UNCHANGED <<height, taken, live, attested, archives, n, cmd, pc, work, outcome, told>>

\* A transaction whose nonce is used, or that the chain evicts.
Drop(kind, k, m) ==
    /\ <<kind, k, m>> \in pool
    /\ pool' = pool \ {<<kind, k, m>>}
    /\ status' = [status EXCEPT ![<<kind, k>>] = "dropped"]
    /\ UNCHANGED <<stage, height, created, taken, live, epochs, attested, nonce, archives,
                   n, cmd, pc, work, outcome, told>>

Block ==
    /\ height < MaxHeight
    /\ height' = height + 1
    /\ UNCHANGED <<stage, created, taken, live, epochs, attested, nonce, pool, status,
                   archives, n, cmd, pc, work, outcome, told>>

\* An archive leaves the active set.
Leave(a) ==
    /\ a \in live /\ Cardinality(Archives \ live) < MaxLeave
    /\ live' = live \ {a}
    /\ UNCHANGED <<stage, height, created, taken, epochs, attested, nonce, pool, status,
                   archives, n, cmd, pc, work, outcome, told>>

\* ReassignChunksV2: a new epoch with the archives active now.
Reassign ==
    /\ stage \in {"pending", "active"}
    /\ Len(epochs) < MaxEpochs /\ live # epochs[Len(epochs)]
    /\ epochs' = Append(epochs, live)
    /\ UNCHANGED <<stage, height, created, taken, live, attested, nonce, pool, status,
                   archives, n, cmd, pc, work, outcome, told>>

-------------------------------------------------------------------------------
(* The archives (external to this module).                                  *)

\* An answer goes back unless the command that asked has died (command 0).
Answer(k, answer, x, a) ==
    msgs' = (msgs \ {<<"push", k, x, a>>}) \cup (IF k = 0 THEN {} ELSE {<<answer, k, x, a>>})

\* A push of an assigned chunk, or of a manifest, is stored and acknowledged.
\* The validator's caches may be old: any epoch of the file will do.
Accept(k, x, a) ==
    /\ <<"push", k, x, a>> \in msgs
    /\ stage # "none"
    /\ x \in Chunks => \E e \in 1..Len(epochs) : a \in Assign[epochs[e]][x]
    /\ holders' = holders \cup {<<x, a>>}
    /\ Answer(k, "ack", x, a)
    /\ UNCHANGED <<chain, n, cmd, pc, work, outcome, told>>

\* Refused, for whatever reason.
Refuse(k, x, a) ==
    /\ <<"push", k, x, a>> \in msgs
    /\ Answer(k, "nack", x, a)
    /\ UNCHANGED <<chain, holders, n, cmd, pc, work, outcome, told>>

\* AcceptAssignmentV2 for a chunk held and assigned under the latest epoch.  The
\* epoch watcher needs no manifest for it.
Attest(c, a) ==
    /\ stage \in {"pending", "active"}
    /\ <<c, a>> \in holders \ attested /\ a \in Assign[epochs[Len(epochs)]][c]
    /\ attested' = attested \cup {<<c, a>>}
    /\ UNCHANGED <<stage, height, created, taken, live, epochs, nonce, pool, status, archives,
                   n, cmd, pc, work, outcome, told>>

-------------------------------------------------------------------------------
(* Commands.                                                                *)

Clear ==
    /\ todo' = {} /\ snap' = {} /\ reach' = {} /\ targets' = {} /\ acked' = {} /\ epoch' = 0
    /\ attempts' = [t \in Targets |-> 0]

FirstStage ==
    [run |-> "s1a", resume |-> "info", repush |-> "repush", abandon |-> "abandon"]

Start(command) ==
    /\ pc = "idle" /\ n < MaxOps
    /\ n' = n + 1 /\ cmd' = command /\ pc' = FirstStage[command]
    /\ outcome' = "none"
    /\ UNCHANGED <<chain, archives, work, told>>

\* The command returns.
Return(o) ==
    /\ pc' = "idle" /\ outcome' = o
    /\ Clear
    /\ UNCHANGED <<n, cmd>>

\* ... with what the owner may rely on from here on.
ReturnTold(o, pairs) == Return(o) /\ told' = told \cup {<<o, pairs>>}

ReturnFrom(stages, o) ==
    /\ pc \in stages
    /\ Return(o)
    /\ UNCHANGED <<chain, archives, told>>

Goto(s) == pc' = s /\ UNCHANGED <<n, cmd, outcome>>

\* The process dies.  Answers to it are lost; its pushes may still arrive.
Die ==
    /\ pc # "idle"
    /\ Return("died")
    /\ msgs' = {<<"push", 0, m[3], m[4]>> : m \in {m \in msgs : m[1] = "push"}}
    /\ UNCHANGED <<chain, holders, told>>

-------------------------------------------------------------------------------
(* Transactions: get_nonce, send_raw_transaction, wait_for_finalized.       *)

Sent(kind) == pool' = pool \cup {<<kind, n, nonce>>}

\* Sent; the command waits.
Send(kind, from, to) ==
    /\ pc = from
    /\ Sent(kind)
    /\ Goto(to)
    /\ UNCHANGED <<stage, height, created, taken, live, epochs, attested, nonce, status,
                   archives, work, told>>

\* send_raw_transaction returned an error: the node may have taken it or not.
SendFails(kind, from, o) ==
    /\ pc = from
    /\ Sent(kind) \/ UNCHANGED pool
    /\ Return(o)
    /\ UNCHANGED <<stage, height, created, taken, live, epochs, attested, nonce, status,
                   archives, told>>

Rejected(kind) == status[<<kind, n>>] \in {"failed", "dropped"}

-------------------------------------------------------------------------------
(* S1a and S1.                                                              *)

\* required_archives: everyone the assignment names.
AssignedTo(cs, s) == UNION {Assign[s][c] : c \in cs}

\* Enough active archives, and all the file would go to are identified.
S1aOk ==
    /\ pc = "s1a"
    /\ Cardinality(live) >= R
    /\ Goto("register")
    /\ UNCHANGED <<chain, archives, work, told>>

\* Stopped before there is a root: the V2 gate, chunking.
PreflightFails == ReturnFrom({"s1a"}, "refused")

\* Not sent: too few archives, discovery timed out, an RPC failed.  The exit
\* status depends on whether the root is on the chain.
NotSent ==
    /\ pc \in {"s1a", "register"}
    /\ Goto("lookup")
    /\ UNCHANGED <<chain, archives, work, told>>

\* Mutant: a submission that returned an error counts as not sent.
RegisterUnsureAsRefused ==
    SendFails("register", "register", "refused")

\* s1_register_pending: an error of the submission is Unconfirmed.
RegisterUnsure ==
    SendFails("register", "register", "unconfirmed")

RegisterEnds ==
    /\ pc = "registered?"
    /\ \/ status[<<"register", n>>] = "ok" /\ Goto("inputs")
       \/ Rejected("register") /\ Goto("lookup")
    /\ UNCHANGED <<chain, archives, work, told>>

\* The wait timed out or a status query failed.
RegisterUnconfirmed == ReturnFrom({"registered?"}, "unconfirmed")

\* ingest_exit_status: root_on_chain after NotSent or Rejected.
Lookup ==
    /\ pc = "lookup"
    /\ \/ Return(IF stage # "none" \/ taken THEN "already" ELSE "refused")
       \/ Return("error")
    /\ UNCHANGED <<chain, archives, told>>

-------------------------------------------------------------------------------
(* S2: push chunks, and S3: push the manifest.                              *)

\* A push to each target, some of which cannot be sent.
Wave(sent) ==
    /\ attempts' = [t \in Targets |-> IF t \in sent THEN 1 ELSE 0]
    /\ msgs' = msgs \cup {<<"push", n, t[1], t[2]>> : t \in sent}

\* s2_push_chunks up to its loop, for the chunks cs under snapshot s: wait for
\* the archives, then push to those identified by then.
PushWave(cs, s) ==
    /\ todo' = cs /\ snap' = s /\ acked' = {}
    /\ reach' \in SUBSET s
    /\ targets' = {t \in cs \X reach' : t[2] \in Assign[s][t[1]]}
    /\ \E sent \in SUBSET targets' : Wave(sent)
    /\ Goto("push")
    /\ UNCHANGED epoch

\* fetch_assignment_inputs after the registration; no push if nobody is pinned.
Inputs ==
    /\ pc = "inputs"
    /\ epochs[1] # {}
    /\ PushWave(Chunks, epochs[1])
    /\ UNCHANGED <<chain, holders, told>>

\* Mutant: one acknowledgement fewer is enough.
ReplicatedAlmost == \A c \in todo : Cardinality({t \in acked : t[1] = c}) + 1 >= R

\* chunks_replicated_in
Replicated == \A c \in todo : Cardinality({t \in acked : t[1] = c}) >= R

Answered(answer, k, t) == <<answer, k, t[1], t[2]>>

\* The event loops of the stages that wait for answers.
Waiting ==
    \/ pc = "push" /\ ~Replicated
    \/ pc = "manifest" /\ ~(targets \subseteq acked)
    \/ pc \in {"rechunk", "remanifest"}

\* A positive answer from a target, to this command or to an earlier one of the
\* same process.  Any other answer is skipped, which is the same as a lost one.
TakeAck(k, t) ==
    /\ Waiting
    /\ t \in targets /\ Answered("ack", k, t) \in msgs
    /\ acked' = acked \cup {t}
    /\ targets' = IF cmd = "repush" THEN targets \ {t} ELSE targets
    /\ msgs' = msgs \ {Answered("ack", k, t)}
    /\ UNCHANGED <<chain, holders, n, cmd, pc, todo, snap, reach, attempts, epoch,
                   outcome, told>>

\* Mutant: the attempts are not counted against push_retries.
PushRetryForever(k, t) ==
    /\ pc = "push" /\ Waiting
    /\ t \in targets /\ Answered("nack", k, t) \in msgs
    /\ attempts' = [attempts EXCEPT ![t] = @ + 1]
    /\ \E again \in SUBSET {Answered("push", n, t)} :
          msgs' = (msgs \ {Answered("nack", k, t)}) \cup again
    /\ UNCHANGED <<chain, holders, n, cmd, pc, todo, snap, reach, targets, acked, epoch,
                   outcome, told>>

\* An error from a target counts as an attempt and is answered by a new push,
\* which may not go out.
PushRetry(k, t) ==
    /\ pc = "push" /\ Waiting
    /\ t \in targets /\ Answered("nack", k, t) \in msgs
    /\ attempts[t] <= PushRetries
    /\ attempts' = [attempts EXCEPT ![t] = @ + 1]
    /\ \E again \in SUBSET {Answered("push", n, t)} :
          msgs' = (msgs \ {Answered("nack", k, t)}) \cup again
    /\ UNCHANGED <<chain, holders, n, cmd, pc, todo, snap, reach, targets, acked, epoch,
                   outcome, told>>

PushDone ==
    /\ pc = "push" /\ Replicated
    /\ Goto("s3")
    /\ UNCHANGED <<chain, archives, work, told>>

\* s3_push_manifest to every assigned archive of the whole file that has a peer.
ManifestWave ==
    LET all == {Manifest} \X (AssignedTo(Chunks, snap) \cap reach) IN
    /\ pc = "s3"
    /\ targets' = all
    /\ Wave(all)
    /\ Goto("manifest")
    /\ UNCHANGED <<chain, holders, todo, snap, reach, acked, epoch, told>>

\* The first push that cannot be sent ends the stage.
ManifestWaveFails ==
    /\ pc = "s3"
    /\ \E sent \in SUBSET (AssignedTo(Chunks, snap) \cap reach) :
          msgs' = msgs \cup {<<"push", n, Manifest, a>> : a \in sent}
    /\ Return("pending")
    /\ UNCHANGED <<chain, holders, told>>

ManifestDone ==
    /\ pc = "manifest" /\ targets \subseteq acked
    /\ Goto("s4")
    /\ UNCHANGED <<chain, archives, work, told>>

\* A deadline passes with answers missing, or a stage cannot read the chain.
StaysPending ==
    /\ pc \in {"inputs", "push", "manifest", "s4", "coverage", "missing", "activate",
               "activated?"}
    /\ pc \in {"push", "manifest"} => Waiting
    /\ Return("pending")
    /\ UNCHANGED <<chain, archives, told>>

-------------------------------------------------------------------------------
(* S4 and S5.                                                               *)

CoverageSeen ==
    /\ pc = "s4" /\ CanActivate
    /\ Goto("activate")
    /\ UNCHANGED <<chain, archives, work, told>>

ActivateUnsure == SendFails("activate", "activate", "pending")

\* Mutant: the end of the wait is taken for the activation.
ActivateEndsAnyhow ==
    /\ pc = "activated?" /\ status[<<"activate", n>>] # "none"
    /\ ReturnTold("active", {})
    /\ UNCHANGED <<chain, archives>>

\* Finalized; every other end of the wait leaves "pending" (StaysPending).
ActivateEnds ==
    /\ pc = "activated?" /\ status[<<"activate", n>>] = "ok"
    /\ ReturnTold("active", {})
    /\ UNCHANGED <<chain, archives>>

-------------------------------------------------------------------------------
(* resume                                                                   *)

\* The lifecycle on the chain decides.  The snapshot is the one pinned at
\* registration, whatever epochs followed; it may be empty for good.
ResumeInfo ==
    /\ pc = "info"
    /\ \/ stage = "none" /\ Return("error") /\ UNCHANGED told
       \/ stage \in {"active", "abandoned"} /\ ReturnTold(stage, {})
       \/ stage = "pending" /\ epochs[1] = {} /\ Return("pending") /\ UNCHANGED told
       \/ stage = "pending" /\ epochs[1] # {} /\ Goto("coverage") /\ UNCHANGED <<work, told>>
    /\ UNCHANGED <<chain, archives>>

\* Pushes are skipped when the chain says the file can be activated.
ResumeCoverage ==
    /\ pc = "coverage"
    /\ Goto(IF CanActivate THEN "activate" ELSE "missing")
    /\ UNCHANGED <<chain, archives, work, told>>

\* collect_missing_indices, then S2 for those chunks only.
ResumeMissing ==
    /\ pc = "missing"
    /\ PushWave({c \in Chunks : ~Covered(c)}, epochs[1])
    /\ UNCHANGED <<chain, holders, told>>

-------------------------------------------------------------------------------
(* repush                                                                   *)

PairsOf(s) == {t \in Chunks \X Archives : t[2] \in Assign[s][t[1]]}

\* Every chunk to every archive of the latest epoch that has a peer.
RepushStart ==
    LET latest == epochs[Len(epochs)] IN
    /\ pc = "repush" /\ stage \in {"pending", "active"} /\ latest # {}
    /\ epoch' = Len(epochs) /\ snap' = latest /\ todo' = Chunks
    /\ reach' \in SUBSET latest
    /\ targets' \in SUBSET {t \in PairsOf(latest) : t[2] \in reach'}
    /\ Wave(targets')
    /\ Goto("rechunk")
    /\ UNCHANGED <<chain, holders, acked, told>>

RepushRefused ==
    /\ pc = "repush"
    /\ IF stage = "abandoned" THEN ReturnTold("abandoned", {})
                              ELSE Return("error") /\ UNCHANGED told
    /\ UNCHANGED <<chain, archives>>

\* A refused push is sent again, at most PushRetries times ...
RepushRetry(k, t) ==
    /\ pc \in {"rechunk", "remanifest"}
    /\ t \in targets /\ Answered("nack", k, t) \in msgs
    /\ attempts[t] <= PushRetries
    /\ attempts' = [attempts EXCEPT ![t] = @ + 1]
    /\ msgs' = (msgs \ {Answered("nack", k, t)}) \cup {Answered("push", n, t)}
    /\ UNCHANGED <<chain, holders, n, cmd, pc, todo, snap, reach, targets, acked, epoch,
                   outcome, told>>

\* ... or given up, as it is when it cannot be sent again.
RepushGivesUp(k, t) ==
    /\ pc \in {"rechunk", "remanifest"}
    /\ t \in targets /\ Answered("nack", k, t) \in msgs
    /\ targets' = targets \ {t}
    /\ msgs' = msgs \ {Answered("nack", k, t)}
    /\ UNCHANGED <<chain, holders, n, cmd, pc, todo, snap, reach, attempts, acked, epoch,
                   outcome, told>>

\* All answers are in, or the deadline has passed.
RepushManifests ==
    /\ pc = "rechunk"
    /\ targets' \in SUBSET ({Manifest} \X (AssignedTo(Chunks, snap) \cap reach))
    /\ Wave(targets')
    /\ Goto("remanifest")
    /\ UNCHANGED <<chain, holders, todo, snap, reach, acked, epoch, told>>

AllAcked ==
    /\ PairsOf(snap) \subseteq acked
    /\ \A a \in AssignedTo(Chunks, snap) : <<Manifest, a>> \in acked

\* Mutant: the epoch is not read again.
RepushReportsAtOnce ==
    /\ pc = "remanifest"
    /\ \/ AllAcked /\ ReturnTold("complete", PairsOf(epochs[Len(epochs)]))
       \/ Return("incomplete") /\ UNCHANGED told
    /\ UNCHANGED <<chain, archives>>

\* RepushReport::complete, after the epoch was read again; it is incomplete too
\* when the epoch cannot be read.
RepushReports ==
    /\ pc = "remanifest"
    /\ \/ /\ AllAcked /\ Len(epochs) = epoch
          /\ ReturnTold("complete", PairsOf(epochs[Len(epochs)]))
       \/ Return("incomplete") /\ UNCHANGED told
    /\ UNCHANGED <<chain, archives>>

-------------------------------------------------------------------------------
(* abandon                                                                  *)

\* Mutant: the grace period ends one block early.
AbandonCheckEarly ==
    /\ pc = "abandon"
    /\ \E seen \in 0..height :
          IF stage = "pending" /\ seen >= created + Grace
            THEN Goto("abandon!") /\ UNCHANGED work
            ELSE Return("notyet")
    /\ UNCHANGED <<chain, archives, told>>

\* The height is read before the row.
AbandonCheck ==
    /\ pc = "abandon"
    /\ \E seen \in 0..height :
          IF stage = "pending" /\ seen >= created + Grace + 1
            THEN Goto("abandon!") /\ UNCHANGED work
            ELSE Return("notyet")
    /\ UNCHANGED <<chain, archives, told>>

AbandonUnsure == SendFails("abandon", "abandon!", "error")

AbandonEnds ==
    /\ pc = "abandoned?" /\ status[<<"abandon", n>>] = "ok"
    /\ ReturnTold("abandoned", {})
    /\ UNCHANGED <<chain, archives>>

\* An RPC call failed, or the transaction was rejected or not seen in time.
Fails == ReturnFrom({"info", "abandon", "abandon!", "abandoned?"}, "error")

-------------------------------------------------------------------------------
Command ==
    \/ \E command \in Cmds : Start(command)
    \/ Die \/ Fails
    \/ S1aOk \/ PreflightFails \/ NotSent
    \/ Send("register", "register", "registered?") \/ RegisterUnsure
    \/ RegisterEnds \/ RegisterUnconfirmed \/ Lookup
    \/ Inputs \/ PushDone \/ ManifestWave \/ ManifestWaveFails \/ ManifestDone
    \/ \E k \in Ops, t \in Targets :
          TakeAck(k, t) \/ PushRetry(k, t) \/ RepushRetry(k, t) \/ RepushGivesUp(k, t)
    \/ StaysPending \/ CoverageSeen
    \/ Send("activate", "activate", "activated?") \/ ActivateUnsure \/ ActivateEnds
    \/ ResumeInfo \/ ResumeCoverage \/ ResumeMissing
    \/ RepushStart \/ RepushRefused \/ RepushManifests \/ RepushReports
    \/ AbandonCheck \/ Send("abandon", "abandon!", "abandoned?") \/ AbandonUnsure
    \/ AbandonEnds

Environment ==
    \/ \E kind \in Kinds, k \in Ops :
          Execute(kind, k) \/ \E m \in 0..nonce : Drop(kind, k, m)
    \/ \E k \in 0..MaxOps, x \in Items, a \in Archives : Accept(k, x, a) \/ Refuse(k, x, a)
    \/ \E c \in Chunks, a \in Archives : Attest(c, a)
    \/ \E a \in Archives : Leave(a)
    \/ Block \/ Reassign

Next == Command \/ Environment

Spec == Init /\ [][Next]_vars

-------------------------------------------------------------------------------
(* Properties                                                               *)

Lifecycle == INSTANCE FileLifecycle

\* The commands implement the abstract lifecycle: the file is registered once
\* and ends in one way, is activated only with a holder for every chunk, and
\* what run, resume, repush and abandon report ("active", "abandoned", the
\* pairs a complete repush vouches for) is true when reported and stays true,
\* whatever was lost, late, repeated or answered to an earlier command.
RefinesLifecycle == Lifecycle!Spec

\* A stage that follows S2 is entered only with every chunk it pushed durably on
\* R distinct archives, and S4 only with the manifest on every assigned archive
\* it had a peer for: no acknowledgement is counted twice, from an archive that
\* was not asked, or from a refusal.
PushedIsReplicated ==
    /\ pc \in {"s3", "manifest", "s4"} =>
          \A c \in todo : Cardinality({a \in Archives : <<c, a>> \in holders}) >= R
    /\ pc = "s4" =>
          \A a \in AssignedTo(Chunks, snap) \cap reach : <<Manifest, a>> \in holders

\* ingest_exit::REFUSED: "this run registered nothing and nothing it sent can
\* register later" (ingest_v2.rs), so the file may safely be ingested again.
RefusedIsFinal ==
    (cmd = "run" /\ outcome \in {"refused", "already"}) =>
        /\ status[<<"register", n>>] # "ok"
        /\ \A tx \in pool : tx[2] # n

\* abandon never sends a transaction that would only burn its fee because the
\* grace period is not over ("Strict-greater grace check", ingest_v2.rs).
AbandonNotPremature ==
    \A tx \in pool : tx[1] = "abandon" => height > created + Grace

-------------------------------------------------------------------------------
(* The inductive invariants behind the proofs.                              *)

\* What is under way belongs to a command, and to a file that is registered.
UnderWay ==
    /\ pc # "idle" => n \in Ops /\ outcome = "none"
    /\ stage # "none" => Len(epochs) >= 1
    /\ \A tx \in Kinds \X Ops : status[tx] = "ok" => stage # "none"
    /\ pc \in {"inputs", "push", "s3", "manifest", "s4", "activate", "activated?", "coverage",
               "missing", "rechunk", "remanifest", "abandon!", "abandoned?"} => stage # "none"

\* Every positive answer, on its way or taken, is about something stored.
AnswersAreTrue ==
    /\ \A m \in msgs : m[1] = "ack" => <<m[3], m[4]>> \in holders
    /\ acked \subseteq holders

\* A transaction that ended the file did so for good.
EndsAreFinal ==
    \A k \in Ops : /\ status[<<"activate", k>>] = "ok" => stage = "active"
                   /\ status[<<"abandon", k>>] = "ok" => stage = "abandoned"

\* A repush works for the epoch it read.
RepushEpoch ==
    pc \in {"rechunk", "remanifest"} => epoch \in 1..Len(epochs) /\ snap = epochs[epoch]

Unsent(kind) ==
    /\ status[<<kind, n>>] = "none"
    /\ \A tx \in pool : ~(tx[1] = kind /\ tx[2] = n)

\* A command sends each of its transactions once, and learns what became of it
\* only when it is gone from the pool ...
OneTransactionEach ==
    /\ \A tx \in pool : tx[2] <= n /\ status[<<tx[1], tx[2]>>] = "none"
    /\ \A t1, t2 \in pool : t1[1] = t2[1] /\ t1[2] = t2[2] => t1 = t2
    /\ \A kind \in Kinds, k \in Ops : k > n => status[<<kind, k>>] = "none"

\* ... and has not sent what a later stage sends.
LaterUnsent ==
    /\ pc \in {"s1a", "register"} => Unsent("register")
    /\ pc \in Stages \ {"activated?"} => Unsent("activate")
    /\ pc \in Stages \ {"abandoned?"} => Unsent("abandon")
    /\ pc = "lookup" => /\ status[<<"register", n>>] # "ok"
                        /\ \A tx \in pool : tx[2] # n

\* The grace period is over for whoever is about to abandon, or has tried to.
GraceIsOver ==
    /\ pc = "abandon!" => height > created + Grace
    /\ \A tx \in pool : tx[1] = "abandon" => stage # "none"

\* The manifest goes to the assigned archives with a peer; the waves of run and
\* resume keep their targets.
ManifestTargets ==
    /\ pc # "idle" => (cmd = "repush" <=> pc \in {"repush", "rechunk", "remanifest"})
    /\ pc = "manifest" => targets = {Manifest} \X (AssignedTo(Chunks, snap) \cap reach)

\* The inductive invariant of the whole: the parts above with the properties they
\* support.
IInv ==
    /\ TypeOK /\ UnderWay
    /\ AnswersAreTrue /\ EndsAreFinal /\ RepushEpoch
    /\ OneTransactionEach /\ LaterUnsent /\ RefusedIsFinal
    /\ GraceIsOver /\ AbandonNotPremature
    /\ ManifestTargets /\ PushedIsReplicated
===============================================================================
