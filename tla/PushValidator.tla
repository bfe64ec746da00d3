--------------------------- MODULE PushValidator ---------------------------
(***************************************************************************)
(* The gate every chunk passes on its way into an archive                  *)
(* (push_validator.rs): the file's row, its latest assignment epoch and    *)
(* the Merkle proof, with the row and the epoch read through caches that   *)
(* the chain outruns.  One file and one archive.  Two callers are in the   *)
(* gate at once: the listen loop, which handles pushes one after another,  *)
(* and the re-fetch task.  Time is the age of what was read; an answer of  *)
(* the chain is of a bounded age when it arrives.                          *)
(***************************************************************************)
EXTENDS Naturals, Sequences, FiniteSets, SequencesExt

CONSTANTS
  Archives, Me, None,
  ChunkCount,      \* chunk_count of the file
  Assignments,     \* possible assignments: chunk -> its archives, best first
  Callers,         \* who validates: the listen loop, the re-fetch task
  Trusted,         \* the re-fetch task
  Timings          \* [refetch, ttl, recheck, latency, epochs, pushes, good, ahead]:
                   \* epoch_ttl, epoch_recheck_min, the age of a chain answer on
                   \* arrival (an assumption), the assignment epochs and the pushes
                   \* (bounds), the archives that can be relied on, what a run may
                   \* have behind it when it comes to the file

Chunks == 1 .. ChunkCount

ASSUME ValidatorAssumption ==
  /\ Me \in Archives /\ None \notin Archives
  /\ ChunkCount \in Nat \ {0}
  /\ \A t \in Timings : t.ttl \in Nat /\ t.recheck \in 0 .. t.ttl /\ t.latency \in Nat
  /\ \A t \in Timings : t.pushes \subseteq [chunk : Nat, good : BOOLEAN]
  /\ Assignments \subseteq [Chunks -> Seq(Archives) \ {<<>>}]

VARIABLES
  timing,      \* how this node is configured
  life,        \* chain: lifecycle of the file
  epochs,      \* chain: the assignments, oldest first
  since,       \* chain: since[e], how long ago epoch e was superseded
  infoCache,   \* file_info: the cached lifecycle, or None
  epochCache,  \* epochs: [epoch, age]; epoch 0 for no entry
  job          \* caller -> where its validate_push is; with a verdict, stale is
               \* how long ago the epoch it rests on had been superseded when it was
               \* taken up (reading its snapshot, which never changes, comes after)

validator == <<timing, life, epochs, since, infoCache, epochCache, job>>

Horizon == timing.ttl + timing.latency + 1
Older(n, cap) == IF n < cap THEN n + 1 ELSE cap

\* good: the bytes and their Merkle path verify against the root.
Idle == [pc |-> "idle", chunk |-> 0, good |-> TRUE, info |-> None, epoch |-> 0,
         val |-> 0, wait |-> 0, stale |-> 0]

\* check_assigned: snapshots are immutable, so only the epoch can be stale.
Mine(e) == {c \in Chunks : Me \in ToSet(epochs[e][c])}

NoEpoch == [epoch |-> 0, age |-> 0]

ValidatorInit ==
  /\ timing \in Timings
  /\ life = "live" /\ epochs \in {<<a>> : a \in Assignments} /\ since = <<0>>
  /\ infoCache = None /\ epochCache = NoEpoch
  /\ job = [w \in Callers |-> Idle]

---------------------------------------------------------------------------
(* The chain, and time. *)

\* ReassignChunksV2 takes effect.
Reassign ==
  /\ Len(epochs) < timing.epochs /\ life # "abandoned"
  /\ \E a \in Assignments : epochs' = Append(epochs, a)
  /\ since' = Append(since, 0)
  /\ UNCHANGED <<timing, life, infoCache, epochCache, job>>

\* AbandonFileV2 takes effect (pending and active are one to the gate).
Abandon ==
  /\ life = "live" /\ life' = "abandoned"
  /\ UNCHANGED <<timing, epochs, since, infoCache, epochCache, job>>

Ticked ==
  /\ since' = [e \in DOMAIN since |->
                 IF e = Len(epochs) THEN 0 ELSE Older(since[e], Horizon)]
  /\ epochCache' = [epochCache EXCEPT !.age = IF epochCache.epoch = 0 THEN 0
                                              ELSE Older(@, timing.ttl)]
  /\ job' = [w \in Callers |->
               IF job[w].val # 0 THEN [job[w] EXCEPT !.wait = @ + 1] ELSE job[w]]

\* An answer on its way arrives before it is older than the latency assumed.
\* Where nothing is reused, time makes no difference.
Tick ==
  /\ timing.ttl > 0
  /\ \A w \in Callers : job[w].val # 0 => job[w].wait < timing.latency
  /\ Ticked
  /\ UNCHANGED <<timing, life, epochs, infoCache>>

\* Other files push this one out of the LRU caches.
Evict ==
  /\ infoCache # None /\ infoCache' = None /\ epochCache' = NoEpoch
  /\ UNCHANGED <<timing, life, epochs, since, job>>

---------------------------------------------------------------------------
(* validate_push. *)

\* A verdict; the ones that rest on the assignment keep what they rest on.
Decide(w, what, j) ==
  job' = [job EXCEPT ![w] =
            IF what \in {"accepted", "notassigned"}
            THEN [Idle EXCEPT !.pc = what, !.chunk = j.chunk, !.epoch = j.epoch,
                              !.good = j.good, !.stale = since[j.epoch]]
            ELSE [Idle EXCEPT !.pc = what]]

\* assignment_epoch: an entry younger than maxAge is used as it is.
Cached(maxAge) == epochCache.epoch # 0 /\ epochCache.age < maxAge

\* Mutant: the path is not verified.
ProofUnread(w, j) == Decide(w, "accepted", j)

\* The strict Merkle gate, for a chunk that is assigned here.
Proof(w, j) == Decide(w, IF j.good THEN "accepted" ELSE "badproof", j)

\* Mutant: a refusal by the cached epoch is final.
RefusedAtOnce(w, j, readNow) == Decide(w, "notassigned", j)

\* A refusal that rests on a cached epoch: read it again before refusing,
\* unless the entry is very young.
Refused(w, j, readNow) ==
  IF readNow THEN Decide(w, "notassigned", j)
  ELSE IF Cached(timing.recheck)
  THEN IF epochCache.epoch = j.epoch THEN Decide(w, "notassigned", j)
       ELSE IF j.chunk \in Mine(epochCache.epoch)
       THEN Proof(w, [j EXCEPT !.epoch = epochCache.epoch])
       ELSE Decide(w, "notassigned", [j EXCEPT !.epoch = epochCache.epoch])
  ELSE job' = [job EXCEPT ![w] = [Idle EXCEPT !.pc = "again", !.chunk = j.chunk,
                                              !.good = j.good, !.epoch = j.epoch]]

Check(w, j, readNow) ==
  IF j.chunk \in Mine(j.epoch) THEN Proof(w, j) ELSE Refused(w, j, readNow)

\* Mutant: a cached epoch is used however old it is.
HasInfoAnyAge(w, j) ==
  IF j.info = "abandoned" THEN Decide(w, "abandoned", j)
  ELSE IF j.chunk \notin Chunks THEN Decide(w, "outofrange", j)
  ELSE IF epochCache.epoch # 0 THEN Check(w, [j EXCEPT !.epoch = epochCache.epoch], FALSE)
  ELSE job' = [job EXCEPT ![w] = [Idle EXCEPT !.pc = "epoch", !.chunk = j.chunk,
                                              !.good = j.good]]

\* After the row: lifecycle, index, then the epoch.
HasInfo(w, j) ==
  IF j.info = "abandoned" THEN Decide(w, "abandoned", j)
  ELSE IF j.chunk \notin Chunks THEN Decide(w, "outofrange", j)
  ELSE IF Cached(timing.ttl) THEN Check(w, [j EXCEPT !.epoch = epochCache.epoch], FALSE)
  ELSE job' = [job EXCEPT ![w] = [Idle EXCEPT !.pc = "epoch", !.chunk = j.chunk,
                                              !.good = j.good]]

\* fetch_file_info, from the cache or by asking.
Begin(w, c, good) ==
  LET j == [Idle EXCEPT !.chunk = c, !.good = good, !.info = infoCache] IN
  /\ job[w].pc = "idle"
  /\ IF infoCache # None THEN HasInfo(w, j)
     ELSE job' = [job EXCEPT ![w] = [j EXCEPT !.pc = "info"]]
  /\ UNCHANGED <<timing, life, epochs, since, infoCache, epochCache>>

Asking(w) == job[w].pc \in {"info", "epoch", "again"}

\* The chain answers with what holds now; the answer is on its way.
ChainAnswers(w) ==
  /\ Asking(w) /\ job[w].val = 0
  /\ job' = [job EXCEPT ![w].val = Len(epochs),
                        ![w].info = IF job[w].pc = "info" THEN life ELSE @]
  /\ UNCHANGED <<timing, life, epochs, since, infoCache, epochCache>>

\* Mutant: the failure is cached in place of the row.
ChainFailsCached(w) ==
  /\ Asking(w) /\ job[w].val = 0 /\ Decide(w, "error", job[w]) /\ infoCache' = "error"
  /\ UNCHANGED <<timing, life, epochs, since, epochCache>>

ChainFails(w) ==
  /\ Asking(w) /\ job[w].val = 0 /\ Decide(w, "error", job[w])
  /\ UNCHANGED <<timing, life, epochs, since, infoCache, epochCache>>

\* The row arrives and is cached.
InfoArrives(w) ==
  /\ job[w].pc = "info" /\ job[w].val # 0
  /\ infoCache' = job[w].info /\ HasInfo(w, job[w])
  /\ UNCHANGED <<timing, life, epochs, since, epochCache>>

\* The epoch arrives and is cached with the time of its arrival.
EpochArrives(w) ==
  LET j == job[w] IN
  /\ j.pc \in {"epoch", "again"} /\ j.val # 0
  /\ epochCache' = [epoch |-> j.val, age |-> 0]
  /\ IF j.pc = "again" /\ j.val = j.epoch THEN Decide(w, "notassigned", j)
     ELSE Check(w, [j EXCEPT !.epoch = j.val], TRUE)
  /\ UNCHANGED <<timing, life, epochs, since, infoCache>>

Validate(w) == ChainAnswers(w) \/ ChainFails(w) \/ InfoArrives(w) \/ EpochArrives(w)

Verdicts == {"accepted", "badproof", "notassigned", "abandoned", "outofrange", "error"}

ValidatorTypeOK ==
  /\ life \in {"live", "abandoned"}
  /\ Len(since) = Len(epochs) /\ \A e \in DOMAIN since : since[e] \in 0 .. Horizon
  /\ infoCache \in {None, "live", "abandoned"}
  /\ epochCache.epoch \in 0 .. Len(epochs) /\ epochCache.age \in 0 .. timing.ttl
  /\ \A w \in Callers : /\ job[w].pc \in {"idle", "info", "epoch", "again"} \cup Verdicts
                        /\ job[w].wait \in 0 .. timing.latency

\* A chunk is accepted by the assignment of an epoch that was the latest one
\* within the cache's lifetime: a reassignment away from this archive is seen by
\* every push that starts later than that, whatever is cached and whoever fills
\* the cache.
AcceptedRecently ==
  \A w \in Callers : job[w].pc = "accepted" =>
     /\ job[w].chunk \in Mine(job[w].epoch)
     /\ job[w].stale <= timing.ttl + timing.latency

\* A chunk is refused as not assigned here only by an epoch at most
\* epoch_recheck_min old: a cached epoch alone, whatever its age, does not
\* refuse what a reassignment has just placed here.
RefusedRecently ==
  \A w \in Callers : job[w].pc = "notassigned" =>
     /\ job[w].chunk \notin Mine(job[w].epoch)
     /\ job[w].stale <= timing.recheck + timing.latency
=============================================================================
