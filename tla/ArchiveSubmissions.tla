-------------------------- MODULE ArchiveSubmissions --------------------------
(***************************************************************************)
(* What one archive submits to the chain from its one account: attestation *)
(* runs (run_attestation and spawn_attestation in                          *)
(* crates/sum-node/src/inbound_v2.rs, AssignmentAttestor::attest in        *)
(* assignment_attestor.rs, wait_for_finalized in tx_wait.rs), the epoch    *)
(* watcher that starts some of them (epoch_watcher.rs) and the             *)
(* proof-of-retrievability responder (por_worker.rs).                      *)
(*                                                                         *)
(* One V2 file.  Runs for other files would differ only in what they       *)
(* attest; two runs for one file contend for the lock and the nonce just   *)
(* the same.  The chain is external: a transaction with the account's next *)
(* nonce is executed and final in one step, one with a nonce already used  *)
(* never is, and any may be evicted.  A signed transaction's hash depends  *)
(* on its content only, so the same batch with the same nonce is the same  *)
(* transaction.                                                            *)
(*                                                                         *)
(* The chunks held only grow, across restarts too: that is AckedSurvives   *)
(* of ArchiveStore.                                                        *)
(***************************************************************************)
EXTENDS Naturals, FiniteSets, Sequences

CONSTANTS
    Indices,      \* chunk indices of the file
    MaxEpoch,     \* assignment epochs are 1 .. MaxEpoch
    Assigned,     \* Assigned[e]: indices epoch e assigns to this archive
    BatchCap,     \* max_chunk_indices_per_tx
    MaxAttempts,  \* MAX_ATTEMPTS_PER_EPOCH
    Tasks,        \* attestation tasks spawned by ManifestPush or re-fetch
    Watcher,      \* the epoch watcher's own run
    Challenges,   \* PoR challenges the chain may issue to this archive
    IndexOf,      \* IndexOf[x]: the chunk challenge x is about
    MaxResponded, \* MAX_RESPONDED
    MaxSpawns,    \* bound: attestation tasks spawned
    MaxFaults,    \* bound: RPC errors, timeouts, evictions and restarts
    Nobody        \* no lock holder, no challenge, no watcher state

Epochs == 1..MaxEpoch
Runs   == Tasks \cup {Watcher}

ASSUME SubmissionAssumption ==
    /\ Indices \subseteq Nat /\ IsFiniteSet(Indices)
    /\ MaxEpoch \in Nat \ {0}
    /\ Assigned \in [Epochs -> SUBSET Indices]
    /\ BatchCap \in Nat \ {0} /\ MaxAttempts \in Nat \ {0}
    /\ MaxResponded \in Nat \ {0}
    /\ MaxSpawns \in Nat /\ MaxFaults \in Nat
    /\ IndexOf \in [Challenges -> Indices]
    /\ Watcher \notin Tasks
    /\ Nobody \notin Runs \cup Challenges

VARIABLES
    \* -- the chain --
    row,        \* it has a coverage row for the root
    latest,     \* the file's latest assignment epoch
    abandoned,  \* the file's lifecycle is Abandoned
    attested,   \* attested[e]: this archive's bitmap in epoch e
    nonce,      \* the account's next nonce
    mempool,    \* transactions sent and not executed
    final,      \* transactions finalized with success
    active,     \* challenges waiting for an answer
    proven,     \* challenges answered
    \* -- the archive --
    held,       \* the held tracker of this file
    pc,         \* pc[r]: where run r is
    snapshot,   \* snapshot[r]: the held set the run was started with
    left,       \* left[r]: indices it has still to attest
    runNonce,   \* runNonce[r]: nonce of its next or current batch
    lock,       \* holder of AssignmentAttestor::runs
    read,       \* the watcher's coverage row: epoch and own attested count
    state,      \* EpochState of the file, or Nobody
    notV2,      \* the root is in the watcher's not_v2 set
    porList,    \* what is left of the list of active challenges it polled
    porWork,    \* challenge the responder is answering, or Nobody
    porNonce,   \* the nonce it read for it
    responded,  \* the responder's FIFO of answered challenges
    \* -- bounds --
    spawns, faults

chain  == <<row, latest, abandoned, attested, nonce, mempool, final, active, proven>>
watch  == <<read, state, notV2>>
por    == <<porList, porWork, porNonce, responded>>
runs   == <<pc, snapshot, left, runNonce, lock>>
vars   == <<row, latest, abandoned, attested, nonce, mempool, final, active, proven,
            held, pc, snapshot, left, runNonce, lock, read, state, notV2,
            porList, porWork, porNonce, responded, spawns, faults>>

AttestTx(n, batch) == <<"attest", n, batch>>
ProofTx(n, x)      == <<"proof", n, x>>

RunSteps == {"idle", "check", "lock", "epoch", "nonce", "submit", "wait"}
Locked   == {"epoch", "nonce", "submit", "wait"}

EpochState == [epoch : Epochs, done : BOOLEAN, attempts : 0..MaxAttempts]

TypeOK ==
    /\ row \in BOOLEAN /\ latest \in Epochs /\ abandoned \in BOOLEAN
    /\ attested \in [Epochs -> SUBSET Indices]
    /\ nonce \in Nat
    /\ \A tx \in mempool \cup final :
          /\ tx[2] \in Nat
          /\ \/ tx[1] = "attest" /\ tx[3] \in SUBSET Indices
             \/ tx[1] = "proof" /\ tx[3] \in Challenges
    /\ active \subseteq Challenges /\ proven \subseteq Challenges
    /\ held \subseteq Indices
    /\ pc \in [Runs -> RunSteps]
    /\ snapshot \in [Runs -> SUBSET Indices]
    /\ left \in [Runs -> SUBSET Indices]
    /\ runNonce \in [Runs -> Nat]
    /\ lock \in Runs \cup {Nobody}
    /\ \A r \in Runs : pc[r] \in Locked <=> lock = r
    /\ read \in [epoch : Epochs, count : Nat]
    /\ state \in EpochState \cup {Nobody}
    /\ notV2 \in BOOLEAN
    /\ porList \subseteq Challenges
    /\ porWork \in Challenges \cup {Nobody} /\ porNonce \in Nat
    /\ responded \in Seq(Challenges) /\ Len(responded) <= MaxResponded
    /\ spawns \in 0..MaxSpawns /\ faults \in 0..MaxFaults

-------------------------------------------------------------------------------
(* The node has just started.  It holds chunks from earlier runs, of a V2   *)
(* file or of a V1 file with the same root, and may have attested some.     *)
Init ==
    /\ row \in BOOLEAN /\ latest = 1 /\ abandoned = FALSE
    /\ held \in SUBSET Indices
    /\ attested \in [Epochs -> SUBSET Indices]
    /\ \A e \in Epochs : attested[e] \subseteq
          IF row /\ e = latest THEN held \cap Assigned[e] ELSE {}
    /\ nonce = 0 /\ mempool = {} /\ final = {}
    /\ active = {} /\ proven = {}
    /\ pc = [r \in Runs |-> "idle"]
    /\ snapshot = [r \in Runs |-> {}] /\ left = [r \in Runs |-> {}]
    /\ runNonce = [r \in Runs |-> 0] /\ lock = Nobody
    /\ read = [epoch |-> 1, count |-> 0]
    /\ state = Nobody /\ notV2 = FALSE
    /\ porList = {} /\ porWork = Nobody /\ porNonce = 0 /\ responded = <<>>
    /\ spawns = 0 /\ faults = 0

Fault == faults < MaxFaults /\ faults' = faults + 1

-------------------------------------------------------------------------------
(* The chain, external.                                                     *)

Register ==
    /\ ~row /\ row' = TRUE
    /\ UNCHANGED <<latest, abandoned, attested, nonce, mempool, final, active, proven,
                   held, runs, watch, por, spawns, faults>>

\* ReassignChunksV2 adds an epoch.
Reassign ==
    /\ row /\ latest < MaxEpoch /\ latest' = latest + 1
    /\ UNCHANGED <<row, abandoned, attested, nonce, mempool, final, active, proven,
                   held, runs, watch, por, spawns, faults>>

Abandon ==
    /\ row /\ ~abandoned /\ abandoned' = TRUE
    /\ UNCHANGED <<row, latest, attested, nonce, mempool, final, active, proven,
                   held, runs, watch, por, spawns, faults>>

IssueChallenge(x) ==
    /\ x \notin active \cup proven
    /\ active' = active \cup {x}
    /\ UNCHANGED <<row, latest, abandoned, attested, nonce, mempool, final, proven,
                   held, runs, watch, por, spawns, faults>>

\* AcceptAssignmentV2 is judged as a whole against the latest epoch.
Admissible(tx) ==
    \/ tx[1] = "attest" /\ row /\ ~abandoned /\ tx[3] \subseteq Assigned[latest]
    \/ tx[1] = "proof" /\ tx[3] \in active

\* A transaction with the account's nonce is included and final; a refused one
\* uses up its nonce as well.
Execute(tx) ==
    /\ tx \in mempool /\ tx[2] = nonce
    /\ mempool' = mempool \ {tx}
    /\ nonce' = nonce + 1
    /\ final' = IF Admissible(tx) THEN final \cup {tx} ELSE final
    /\ attested' = IF tx[1] = "attest" /\ Admissible(tx)
                     THEN [attested EXCEPT ![latest] = @ \cup tx[3]] ELSE attested
    /\ LET answered == IF tx[1] = "proof" THEN {tx[3]} \cap active ELSE {} IN
          /\ active' = active \ answered
          /\ proven' = proven \cup answered
    /\ UNCHANGED <<row, latest, abandoned, held, runs, watch, por, spawns, faults>>

\* A transaction whose nonce was used is dropped; any other may be.
Evict(tx) ==
    /\ tx \in mempool
    /\ IF tx[2] < nonce THEN UNCHANGED faults ELSE Fault
    /\ mempool' = mempool \ {tx}
    /\ UNCHANGED <<row, latest, abandoned, attested, nonce, final, active, proven,
                   held, runs, watch, por, spawns>>

-------------------------------------------------------------------------------
(* Attestation runs.                                                        *)

\* A V2 push is acknowledged.  The push validator asks whether the latest epoch
\* assigns the chunk here, but may take an earlier epoch it has cached for it.
Push(i) ==
    /\ row /\ i \notin held
    /\ \E e \in 1..latest : i \in Assigned[e]
    /\ held' = held \cup {i}
    /\ UNCHANGED <<chain, runs, watch, por, spawns, faults>>

\* spawn_attestation after a ManifestPush, or after a re-fetch stored chunks.
Spawn(t) ==
    /\ row /\ pc[t] = "idle" /\ held # {}
    /\ spawns < MaxSpawns /\ spawns' = spawns + 1
    /\ snapshot' = [snapshot EXCEPT ![t] = held]
    /\ pc' = [pc EXCEPT ![t] = "lock"]
    /\ UNCHANGED <<chain, held, left, runNonce, lock, watch, por, faults>>

\* attestor.exclusive_run()
Acquire(r) ==
    /\ pc[r] = "lock" /\ lock = Nobody
    /\ lock' = r
    /\ pc' = [pc EXCEPT ![r] = "epoch"]
    /\ UNCHANGED <<chain, held, snapshot, left, runNonce, watch, por, spawns, faults>>

\* Mutant: what the archive holds is not looked at.
ReadEpochAll(r) ==
    /\ pc[r] = "epoch" /\ row
    /\ left' = [left EXCEPT ![r] = Assigned[latest]]
    /\ pc' = [pc EXCEPT ![r] = "nonce"]
    /\ UNCHANGED <<chain, held, snapshot, runNonce, lock, watch, por, spawns, faults>>

\* The latest epoch and the snapshot at its height, which fix the indices to
\* attest: the assigned ones among those held when the run was started.
ReadEpoch(r) ==
    /\ pc[r] = "epoch" /\ row
    /\ left' = [left EXCEPT ![r] = Assigned[latest] \cap snapshot[r]]
    /\ pc' = [pc EXCEPT ![r] = "nonce"]
    /\ UNCHANGED <<chain, held, snapshot, runNonce, lock, watch, por, spawns, faults>>

\* The state entry check() works on for the epoch it read.
Entry == IF state # Nobody /\ state.epoch = read.epoch
           THEN state ELSE [epoch |-> read.epoch, done |-> FALSE, attempts |-> 0]

\* Mutant: the lock is kept when a run does not finish.
EndLeaksLock(r, ok) ==
    /\ pc' = [pc EXCEPT ![r] = "idle"]
    /\ lock' = IF ok THEN Nobody ELSE lock
    /\ state' = IF r = Watcher
                  THEN [epoch |-> read.epoch, done |-> ok, attempts |-> Entry.attempts + 1]
                  ELSE state
    /\ snapshot' = IF r = Watcher THEN snapshot ELSE [snapshot EXCEPT ![r] = {}]
    /\ left' = [left EXCEPT ![r] = {}]
    /\ runNonce' = [runNonce EXCEPT ![r] = 0]

\* The run is over and the lock released.  The watcher, which waited for its
\* own run, stores the outcome under the epoch it read before; what it held
\* then stays in snapshot for DoneIsAttested.
End(r, ok) ==
    /\ pc' = [pc EXCEPT ![r] = "idle"]
    /\ lock' = Nobody
    /\ state' = IF r = Watcher
                  THEN [epoch |-> read.epoch, done |-> ok, attempts |-> Entry.attempts + 1]
                  ELSE state
    /\ snapshot' = IF r = Watcher THEN snapshot ELSE [snapshot EXCEPT ![r] = {}]
    /\ left' = [left EXCEPT ![r] = {}]
    /\ runNonce' = [runNonce EXCEPT ![r] = 0]

\* get_nonce; a run with nothing to attest ends as fully attested.
ReadNonce(r) ==
    /\ pc[r] = "nonce"
    /\ IF left[r] = {}
         THEN End(r, TRUE)
         ELSE /\ pc' = [pc EXCEPT ![r] = "submit"]
              /\ runNonce' = [runNonce EXCEPT ![r] = nonce]
              /\ UNCHANGED <<lock, state, snapshot, left>>
    /\ UNCHANGED <<chain, held, read, notV2, por, spawns, faults>>

\* The next batch: the lowest BatchCap of the indices that are left.
Batch(S) == {i \in S : Cardinality({j \in S : j < i}) < BatchCap}

TxOf(r) == AttestTx(runNonce[r], Batch(left[r]))

\* Mutant: the next batch is sent with the next nonce before this one is final.
SubmitAhead(r) ==
    /\ pc[r] = "submit"
    /\ mempool' = mempool \cup {TxOf(r), AttestTx(runNonce[r] + 1, left[r] \ Batch(left[r]))}
    /\ pc' = [pc EXCEPT ![r] = "wait"]
    /\ UNCHANGED <<row, latest, abandoned, attested, nonce, final, active, proven,
                   held, snapshot, left, runNonce, lock, watch, por, spawns, faults>>

\* send_raw_transaction
Submit(r) ==
    /\ pc[r] = "submit"
    /\ mempool' = mempool \cup {TxOf(r)}
    /\ pc' = [pc EXCEPT ![r] = "wait"]
    /\ UNCHANGED <<row, latest, abandoned, attested, nonce, final, active, proven,
                   held, snapshot, left, runNonce, lock, watch, por, spawns, faults>>

\* wait_for_finalized returned Ok: on to the next batch and nonce.
BatchFinalized(r) ==
    /\ pc[r] = "wait" /\ TxOf(r) \in final
    /\ IF left[r] = Batch(left[r])
         THEN End(r, TRUE)
         ELSE /\ pc' = [pc EXCEPT ![r] = "submit"]
              /\ left' = [left EXCEPT ![r] = @ \ Batch(@)]
              /\ runNonce' = [runNonce EXCEPT ![r] = @ + 1]
              /\ UNCHANGED <<lock, state, snapshot>>
    /\ UNCHANGED <<chain, held, read, notV2, por, spawns, faults>>

\* Mutant: the batch is sent again until it is final.
BatchSentAgain(r) ==
    /\ pc[r] = "wait" /\ TxOf(r) \notin mempool \cup final
    /\ pc' = [pc EXCEPT ![r] = "submit"]
    /\ UNCHANGED <<chain, held, snapshot, left, runNonce, lock, watch, por, spawns, faults>>

\* Failed or Dropped: the run stops, and what was final before stays.
BatchRejected(r) ==
    /\ pc[r] = "wait" /\ TxOf(r) \notin mempool \cup final
    /\ End(r, FALSE)
    /\ UNCHANGED <<chain, held, read, notV2, por, spawns, faults>>

\* An RPC error, or the wait timed out.  A transaction whose send failed may
\* have arrived all the same, and one that timed out may be executed later.
RunFails(r) ==
    /\ pc[r] \in Locked
    /\ Fault
    /\ End(r, FALSE)
    /\ \/ UNCHANGED mempool
       \/ pc[r] = "submit" /\ mempool' = mempool \cup {TxOf(r)}
    /\ UNCHANGED <<row, latest, abandoned, attested, nonce, final, active, proven,
                   held, read, notV2, por, spawns>>

-------------------------------------------------------------------------------
(* The epoch watcher's check() of the file, once per tick.                  *)

\* fetch_coverage.  With no row the root is never looked at again.
WatchRead ==
    /\ pc[Watcher] = "idle" /\ held # {} /\ ~notV2
    /\ IF row
         THEN /\ read' = [epoch |-> latest, count |-> Cardinality(attested[latest])]
              /\ pc' = [pc EXCEPT ![Watcher] = "check"]
              /\ UNCHANGED notV2
         ELSE notV2' = TRUE /\ UNCHANGED <<read, pc>>
    /\ UNCHANGED <<chain, held, snapshot, left, runNonce, lock, state, por, spawns, faults>>

\* A tick that has nothing to look at.
WatchSkip ==
    /\ pc[Watcher] = "idle" /\ (held = {} \/ notV2)
    /\ UNCHANGED vars

\* Mutant: one attested index is taken for all of them.
AlreadyAttestedAnyCount ==
    state = Nobody /\ read.count > 0

\* already_attested, on the first sight of the file only: enough indices are
\* attested in the epoch.  The chain reports how many, not which.
AlreadyAttested ==
    /\ state = Nobody
    /\ read.count >= Cardinality(Assigned[read.epoch] \cap held)

\* Mutant: a failed attempt is not repeated.
WatchDecideOnce ==
    /\ pc[Watcher] = "check"
    /\ IF abandoned \/ Entry.done \/ Entry.attempts > 0
         THEN /\ pc' = [pc EXCEPT ![Watcher] = "idle"]
              /\ UNCHANGED <<state, snapshot>>
         ELSE /\ snapshot' = [snapshot EXCEPT ![Watcher] = held]
              /\ IF AlreadyAttested
                   THEN /\ pc' = [pc EXCEPT ![Watcher] = "idle"]
                        /\ state' = [Entry EXCEPT !.done = TRUE]
                   ELSE /\ pc' = [pc EXCEPT ![Watcher] = "lock"]
                        /\ UNCHANGED state
    /\ UNCHANGED <<chain, held, left, runNonce, lock, read, notV2, por, spawns, faults>>

\* fetch_file_shape, then the decision.
WatchDecide ==
    /\ pc[Watcher] = "check"
    /\ IF abandoned \/ Entry.done \/ Entry.attempts >= MaxAttempts
         THEN /\ pc' = [pc EXCEPT ![Watcher] = "idle"]
              /\ UNCHANGED <<state, snapshot>>
         ELSE /\ snapshot' = [snapshot EXCEPT ![Watcher] = held]
              /\ IF AlreadyAttested
                   THEN /\ pc' = [pc EXCEPT ![Watcher] = "idle"]
                        /\ state' = [Entry EXCEPT !.done = TRUE]
                   ELSE /\ pc' = [pc EXCEPT ![Watcher] = "lock"]
                        /\ UNCHANGED state
    /\ UNCHANGED <<chain, held, left, runNonce, lock, read, notV2, por, spawns, faults>>

\* An RPC error: the next tick starts over.
WatchFails ==
    /\ pc[Watcher] = "check"
    /\ Fault
    /\ pc' = [pc EXCEPT ![Watcher] = "idle"]
    /\ UNCHANGED <<chain, held, snapshot, left, runNonce, lock, watch, por, spawns>>

-------------------------------------------------------------------------------
(* The proof-of-retrievability responder.                                   *)

\* get_active_challenges: the list is worked through before the next poll.
PorPoll ==
    /\ porWork = Nobody /\ porList = {}
    /\ active # {} /\ porList' = active
    /\ UNCHANGED <<chain, held, runs, watch, porWork, porNonce, responded, spawns, faults>>

Responded(x) == \E k \in 1..Len(responded) : responded[k] = x

\* The challenge was answered before, or build_answer has no answer to it.
PorSkip(x) ==
    /\ porWork = Nobody /\ x \in porList
    /\ Responded(x) \/ IndexOf[x] \notin held
    /\ porList' = porList \ {x}
    /\ UNCHANGED <<chain, held, runs, watch, porWork, porNonce, responded, spawns, faults>>

\* Mutant: nothing is answered while `responded` is full.
PorReadWhileRoom(x) ==
    /\ porWork = Nobody /\ x \in porList
    /\ ~Responded(x) /\ IndexOf[x] \in held
    /\ Len(responded) < MaxResponded
    /\ porWork' = x /\ porNonce' = nonce
    /\ UNCHANGED <<chain, held, runs, watch, porList, responded, spawns, faults>>

\* Mutant: the proof is made from records alone.
PorReadBlind(x) ==
    /\ porWork = Nobody /\ x \in porList
    /\ ~Responded(x)
    /\ porWork' = x /\ porNonce' = nonce
    /\ UNCHANGED <<chain, held, runs, watch, porList, responded, spawns, faults>>

\* build_answer has a proof; then the nonce for it.  The attestor's lock is not
\* taken, and the challenge may have been decided since the poll.
PorRead(x) ==
    /\ porWork = Nobody /\ x \in porList
    /\ ~Responded(x) /\ IndexOf[x] \in held
    /\ porWork' = x /\ porNonce' = nonce
    /\ UNCHANGED <<chain, held, runs, watch, porList, responded, spawns, faults>>

\* A FIFO of at most MaxResponded challenges.
Remember(x) ==
    Append(IF Len(responded) >= MaxResponded THEN Tail(responded) ELSE responded, x)

\* The proof is sent, and the challenge counts as answered from here on.
PorSend ==
    /\ porWork # Nobody
    /\ mempool' = mempool \cup {ProofTx(porNonce, porWork)}
    /\ responded' = Remember(porWork)
    /\ porList' = porList \ {porWork}
    /\ porWork' = Nobody /\ porNonce' = 0
    /\ UNCHANGED <<row, latest, abandoned, attested, nonce, final, active, proven,
                   held, runs, watch, spawns, faults>>

\* An RPC error, which the proof may have outrun.
PorFails ==
    /\ porWork # Nobody
    /\ Fault
    /\ porList' = porList \ {porWork}
    /\ porWork' = Nobody /\ porNonce' = 0
    /\ mempool' \in {mempool, mempool \cup {ProofTx(porNonce, porWork)}}
    /\ UNCHANGED <<row, latest, abandoned, attested, nonce, final, active, proven,
                   held, runs, watch, responded, spawns>>

-------------------------------------------------------------------------------
(* The process ends and starts again: everything but the held chunks is    *)
(* forgotten.                                                               *)
Restart ==
    /\ Fault
    /\ pc' = [r \in Runs |-> "idle"] /\ lock' = Nobody
    /\ snapshot' = [r \in Runs |-> {}] /\ left' = [r \in Runs |-> {}]
    /\ state' = Nobody /\ notV2' = FALSE
    /\ runNonce' = [r \in Runs |-> 0]
    /\ porList' = {} /\ porWork' = Nobody /\ porNonce' = 0 /\ responded' = <<>>
    /\ UNCHANGED <<chain, held, read, spawns>>

RunStep(r) ==
    \/ Acquire(r) \/ ReadEpoch(r) \/ ReadNonce(r) \/ Submit(r)
    \/ BatchFinalized(r) \/ BatchRejected(r)

Next ==
    \/ Register \/ Reassign \/ Abandon
    \/ \E x \in Challenges : IssueChallenge(x)
    \/ \E tx \in mempool : Execute(tx)
    \/ \E tx \in mempool : Evict(tx)
    \/ \E i \in Indices : Push(i)
    \/ \E t \in Tasks : Spawn(t)
    \/ \E r \in Runs : RunStep(r) \/ RunFails(r)
    \/ WatchRead \/ WatchSkip \/ WatchDecide \/ WatchFails
    \/ PorPoll
    \/ \E x \in Challenges : PorSkip(x)
    \/ \E x \in Challenges : PorRead(x)
    \/ PorSend \/ PorFails
    \/ Restart

Spec == Init /\ [][Next]_vars

(* Tokio keeps polling tasks, the watcher's and the responder's tickers     *)
(* keep firing, and the chain keeps making blocks: an executable            *)
(* transaction is executed unless it is evicted, a stale one is dropped.    *)
(* Nothing is assumed of faults, pushes, challenges or reassignments.       *)
Fairness ==
    /\ \A r \in Runs : WF_vars(RunStep(r))
    /\ WF_vars(WatchRead) /\ WF_vars(WatchDecide)
    /\ WF_vars(PorPoll)
    /\ \A x \in Challenges : WF_vars(PorSkip(x)) /\ WF_vars(PorRead(x))
    /\ WF_vars(PorSend)
    /\ WF_vars(\E tx \in mempool : Execute(tx))
    /\ WF_vars(\E tx \in mempool : tx[2] < nonce /\ Evict(tx))

FairSpec == Spec /\ Fairness

-------------------------------------------------------------------------------
(* Properties                                                              *)

\* Only chunks this archive holds, and an epoch assigns to it, are attested in
\* that epoch, whatever was reassigned between reading the epoch and the
\* execution of the transaction, and however late a transaction lands.
AttestedIsHeld ==
    \A e \in Epochs : attested[e] \subseteq held \cap Assigned[e]

\* When the watcher considers the file's latest epoch handled, every index it
\* held when it decided so is attested in that epoch: after a run that spanned
\* a reassignment, after a restart, and when it took a sufficient count for a
\* sufficient set.
DoneIsAttested ==
    (state # Nobody /\ state.done /\ state.epoch = latest)
        => snapshot[Watcher] \cap Assigned[latest] \subseteq attested[latest]

\* No transaction of this account ever waits behind a missing nonce ("the
\* mempool will reject k+1 if k hasn't been included"): each batch waits for
\* the previous one, and a run that stops leaves no gap behind.
NoNonceGap == \A tx \in mempool : tx[2] <= nonce

\* Every attestation run ends, so the lock that serializes runs is always
\* released, whichever RPC fails and whatever happens to its transactions.
RunsEnd == \A r \in Runs : (lock = r) ~> (lock # r)

\* The watcher has given up on epoch e until it changes or the node restarts.
GaveUp(e) == state # Nobody /\ state.epoch = e /\ state.attempts = MaxAttempts

\* "An epoch change is therefore acted on": a chunk that is held and assigned in
\* the latest epoch when the watcher has not handled that epoch is eventually
\* attested in it, unless the epoch is superseded, the file abandoned, or three
\* attempts failed.
EpochHandled ==
    \A e \in Epochs, i \in Indices :
        (/\ row /\ ~notV2 /\ latest = e /\ i \in held \cap Assigned[e]
         /\ pc[Watcher] = "idle"
         /\ state = Nobody \/ state.epoch # e)
            ~> (i \in attested[e] \/ latest # e \/ abandoned \/ GaveUp(e))

\* "No proof is sent for a chunk the archive does not hold"
\* (docs/protocol/proof-of-retrievability.md).
ProofsAreHeld ==
    \A tx \in mempool \cup final : tx[1] = "proof" => IndexOf[tx[3]] \in held

\* A challenge on a held chunk is eventually answered with a proof, or at least
\* one is sent, whichever RPC fails meanwhile and however many challenges are
\* active: the FIFO of answered challenges may overflow, and then a challenge is
\* answered twice rather than never.
ChallengeSent ==
    \A x \in Challenges : (x \in active /\ IndexOf[x] \in held)
        ~> (x \in proven \/ Responded(x))

\* Whatever this archive claims on the chain, by an attestation or a proof, is
\* about chunks it holds.
OnlyHeldIsClaimed == TypeOK /\ AttestedIsHeld /\ ProofsAreHeld

\* The archive's tasks do their work: runs end, epochs are handled and
\* challenges are answered.
ArchiveResponds == RunsEnd /\ EpochHandled /\ ChallengeSent
===============================================================================
