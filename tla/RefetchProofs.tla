---------------------------- MODULE RefetchProofs ----------------------------
(***************************************************************************)
(* Proofs about Refetch and the gate it and the listen loop share          *)
(* (PushValidator), for any archives, assignments, pushes, cache times and *)
(* limits.  IInv is inductive; PlacementIsSound follows.                   *)
(***************************************************************************)
EXTENDS Refetch, SequenceTheorems, WellFoundedInduction, TLAPS

Steps == {"idle", "info", "epoch", "again"} \cup Verdicts

Jobs ==
  [pc : Steps, chunk : Nat, good : BOOLEAN, info : {None, "live", "abandoned"},
   epoch : Nat, val : Nat, wait : Nat, stale : Nat]

Runs ==
  [pc : {"idle", "shape", "coverage", "manifest", "chunk", "gate", "gated"},
   plan : SUBSET Chunks, at : Nat, src : Nat, fetched : BOOLEAN, done : Nat]

\* The chain: the latest epoch is not superseded.
ChainOK ==
  /\ timing \in Timings /\ life \in {"live", "abandoned"}
  /\ epochs \in Seq(Assignments) /\ epochs # << >>
  /\ since \in Seq(Nat) /\ Len(since) = Len(epochs)
  /\ \A e \in 1 .. Len(since) : since[e] <= Horizon
  /\ since[Len(epochs)] = 0

\* An entry of the cache that may still be used was superseded no longer ago
\* than its age and the latency of the answer it came with.
CacheOK ==
  /\ infoCache \in {None, "live", "abandoned"}
  /\ epochCache \in [epoch : Nat, age : Nat]
  /\ epochCache.epoch <= Len(epochs) /\ epochCache.age <= timing.ttl
  /\ epochCache.epoch # 0 /\ epochCache.age < timing.ttl =>
       since[epochCache.epoch] <= epochCache.age + timing.latency

\* An answer on its way names an epoch superseded no longer ago than it was
\* given; a second look is for a chunk the first epoch did not give; a verdict
\* keeps what it rests on.
JobOK(j) ==
  /\ j.wait <= timing.latency
  /\ j.val # 0 => j.val <= Len(epochs) /\ since[j.val] <= j.wait
  /\ j.pc \in {"again", "accepted", "notassigned"} => j.epoch \in 1 .. Len(epochs)
  /\ j.pc = "again" => j.chunk \notin Mine(j.epoch)
  /\ j.pc = "accepted" => /\ j.good /\ j.chunk \in Mine(j.epoch)
                          /\ j.stale <= timing.ttl + timing.latency
  /\ j.pc = "notassigned" => /\ j.chunk \notin Mine(j.epoch)
                             /\ j.stale <= timing.recheck + timing.latency

JobsOK == job \in [Callers -> Jobs] /\ \A w \in Callers : JobOK(job[w])

\* A run past its plan has chunks left, a pull is waited for by a run that
\* pulls, and nothing goes on for a Private file.
RunOK ==
  /\ run \in Runs /\ manifest \in BOOLEAN
  /\ peers \subseteq Archives \ {Me} /\ wire \subseteq Pulls
  /\ pending \in {NoPull} \cup Pulls
  /\ run.pc \in {"manifest", "chunk", "gate", "gated"} => run.plan # {}
  /\ pending # NoPull => run.pc \in {"manifest", "chunk"}
  /\ visibility = "private" => wire = {} /\ run.pc \in {"idle", "shape"}

HeldOK == held \in [Chunks -> {"none", "good"}]

Gate == ChainOK /\ CacheOK /\ JobsOK

IInv == Gate /\ RunOK /\ HeldOK

---------------------------------------------------------------------------
(* Facts about the data. *)

\* The times are natural numbers.
LEMMA Times ==
  ASSUME ChainOK
  PROVE  /\ timing.ttl \in Nat /\ timing.latency \in Nat /\ timing.recheck \in Nat
         /\ timing.recheck <= timing.ttl /\ Horizon \in Nat
         /\ timing.pushes \subseteq [chunk : Nat, good : BOOLEAN]
BY ValidatorAssumption DEF ChainOK, Horizon

\* There is an epoch, and the ages of all are known.
LEMMA Lengths ==
  ASSUME ChainOK
  PROVE  /\ Len(epochs) \in Nat \ {0} /\ Len(since) = Len(epochs)
         /\ \A e \in 1 .. Len(epochs) : since[e] \in Nat
<1>1. Len(epochs) \in Nat \ {0}
  BY EmptySeq DEF ChainOK
<1> QED BY <1>1, ElementOfSeq DEF ChainOK

\* A nonempty set of naturals has a least element.
LEMMA LeastOf ==
  ASSUME NEW T \in SUBSET Nat, T # {}
  PROVE  \E n \in T : \A m \in T : n <= m
<1>1. PICK n \in T : \A m \in T : ~(<<m, n>> \in OpToRel(<, Nat))
  BY NatLessThanWellFounded, WFMin, Zenon
<1>2. \A m \in T : ~(m < n)
  BY <1>1 DEF OpToRel
<1> QED BY <1>2

\* The chunk that is fetched next is planned.
LEMMA NowIsPlanned ==
  ASSUME run \in Runs, run.plan # {}
  PROVE  Now \in run.plan /\ Now \in Chunks /\ Now \in Nat
<1>1. run.plan \in SUBSET Nat /\ run.plan \subseteq Chunks
  BY ValidatorAssumption DEF Runs, Chunks
<1>2. \E n \in run.plan : \A m \in run.plan : n <= m
  BY <1>1, LeastOf
<1>3. Now \in run.plan
  BY <1>2 DEF Now, Min
<1> QED BY <1>1, <1>3

\* A new epoch changes none of the earlier ones.
LEMMA MineKept ==
  ASSUME ChainOK, NEW a \in Assignments, epochs' = Append(epochs, a),
         NEW e \in 1 .. Len(epochs)
  PROVE  Mine(e)' = Mine(e)
<1>1. epochs'[e] = epochs[e]
  BY AppendProperties DEF ChainOK
<1> QED BY <1>1 DEF Mine

---------------------------------------------------------------------------
(* The gate. *)

\* A caller is put where its job is sound.
Put(w) == \E v \in Jobs : JobOK(v) /\ job' = [job EXCEPT ![w] = v]

\* The fields of Idle.
LEMMA IdleFields ==
  /\ Idle \in Jobs
  /\ Idle.pc = "idle" /\ Idle.epoch = 0 /\ Idle.val = 0 /\ Idle.wait = 0
<1>1. Idle \in Jobs
  BY DEF Idle, Jobs, Steps
<1>2. Idle.pc = "idle" /\ Idle.epoch = 0 /\ Idle.val = 0 /\ Idle.wait = 0
  BY DEF Idle
<1> QED BY <1>1, <1>2

\* Idle is a sound job.
LEMMA IdleOK ==
  ASSUME ChainOK
  PROVE  JobOK(Idle)
BY Times, IdleFields DEF JobOK

\* A verdict that does not rest on an epoch.
LEMMA PlainVerdict ==
  ASSUME Gate, NEW w \in Callers, NEW j,
         NEW what \in {"badproof", "abandoned", "outofrange", "error"}, Decide(w, what, j)
  PROVE  Put(w)
<1> DEFINE v == [Idle EXCEPT !.pc = what]
<1>1. v \in Jobs /\ v.pc = what /\ v.val = 0 /\ v.wait = 0
  BY IdleFields DEF Jobs, Steps, Verdicts
<1>2. job' = [job EXCEPT ![w] = v]
  BY DEF Decide
<1> HIDE DEF v
<1>3. JobOK(v)
  BY <1>1, Times DEF JobOK, Gate
<1> QED BY <1>1, <1>2, <1>3 DEF Put

\* A verdict that rests on an epoch, known recently enough.
LEMMA EpochVerdict ==
  ASSUME Gate, NEW w \in Callers, NEW j \in Jobs,
         NEW what \in {"accepted", "notassigned"}, Decide(w, what, j),
         j.epoch \in 1 .. Len(epochs),
         what = "accepted" => /\ j.good /\ j.chunk \in Mine(j.epoch)
                              /\ since[j.epoch] <= timing.ttl + timing.latency,
         what = "notassigned" => /\ j.chunk \notin Mine(j.epoch)
                                 /\ since[j.epoch] <= timing.recheck + timing.latency
  PROVE  Put(w)
<1> DEFINE v == [Idle EXCEPT !.pc = what, !.chunk = j.chunk, !.epoch = j.epoch,
                             !.good = j.good, !.stale = since[j.epoch]]
<1>1. since[j.epoch] \in Nat
  BY Lengths DEF Gate
<1>2. /\ v \in Jobs /\ v.pc = what /\ v.chunk = j.chunk /\ v.epoch = j.epoch
      /\ v.val = 0 /\ v.wait = 0 /\ v.stale = since[j.epoch]
  BY <1>1, IdleFields DEF Jobs, Steps, Verdicts
<1>3. v.good <=> j.good
  BY IdleFields DEF Jobs
<1>4. job' = [job EXCEPT ![w] = v]
  BY DEF Decide
<1> HIDE DEF v
<1>5. JobOK(v)
  BY <1>2, <1>3, Times DEF JobOK, Gate
<1> QED BY <1>2, <1>4, <1>5 DEF Put

\* The chunk is assigned here: the proof decides.
LEMMA ProofOK ==
  ASSUME Gate, NEW w \in Callers, NEW j \in Jobs, Proof(w, j),
         j.epoch \in 1 .. Len(epochs), j.chunk \in Mine(j.epoch),
         since[j.epoch] <= timing.ttl + timing.latency
  PROVE  Put(w)
<1>1. CASE j.good
  <2>1. Decide(w, "accepted", j)
    BY <1>1 DEF Proof
  <2> QED BY <1>1, <2>1, EpochVerdict
<1>2. CASE ~j.good
  <2>1. Decide(w, "badproof", j)
    BY <1>2 DEF Proof
  <2> QED BY <2>1, PlainVerdict
<1> QED BY <1>1, <1>2

\* What a cached epoch younger than a bound was superseded since.
LEMMA CachedOK ==
  ASSUME Gate, NEW n \in Nat, n <= timing.ttl, Cached(n)
  PROVE  /\ epochCache.epoch \in 1 .. Len(epochs)
         /\ since[epochCache.epoch] <= n + timing.latency
<1>1. epochCache.epoch \in Nat /\ epochCache.age \in Nat
  BY DEF Gate, CacheOK
<1>2. epochCache.epoch \in 1 .. Len(epochs) /\ epochCache.age < n
  BY <1>1, Lengths DEF Gate, CacheOK, Cached
<1>3. since[epochCache.epoch] <= epochCache.age + timing.latency
  BY <1>1, <1>2, Times DEF Gate, CacheOK
<1>4. since[epochCache.epoch] \in Nat
  BY <1>2, Lengths DEF Gate
<1> QED BY <1>1, <1>2, <1>3, <1>4, Times DEF Gate

\* A job with another epoch is the job but for the epoch.
LEMMA WithEpoch ==
  ASSUME NEW j \in Jobs, NEW e \in Nat
  PROVE  /\ [j EXCEPT !.epoch = e] \in Jobs
         /\ [j EXCEPT !.epoch = e].epoch = e
         /\ [j EXCEPT !.epoch = e].chunk = j.chunk
         /\ [j EXCEPT !.epoch = e].good = j.good
BY DEF Jobs

\* A refusal is by the epoch just read, by a very young one, or it is put off.
LEMMA RefusedOK ==
  ASSUME Gate, NEW w \in Callers, NEW j \in Jobs, NEW readNow \in BOOLEAN,
         Refused(w, j, readNow), j.epoch \in 1 .. Len(epochs),
         j.chunk \notin Mine(j.epoch),
         readNow => since[j.epoch] <= timing.latency
  PROVE  Put(w)
<1>0. /\ timing.recheck \in Nat /\ timing.latency \in Nat /\ timing.recheck <= timing.ttl
      /\ timing.ttl \in Nat /\ since[j.epoch] \in Nat
  BY Times, Lengths DEF Gate
<1>1. CASE readNow
  <2>1. Decide(w, "notassigned", j)
    BY <1>1 DEF Refused
  <2>2. since[j.epoch] <= timing.recheck + timing.latency
    BY <1>0, <1>1
  <2> QED BY <2>1, <2>2, EpochVerdict
<1>2. CASE ~readNow /\ Cached(timing.recheck)
  <2> DEFINE k == [j EXCEPT !.epoch = epochCache.epoch]
  <2>1. /\ epochCache.epoch \in 1 .. Len(epochs)
        /\ since[epochCache.epoch] <= timing.recheck + timing.latency
    BY <1>0, <1>2, CachedOK
  <2>2. k \in Jobs /\ k.epoch = epochCache.epoch /\ k.chunk = j.chunk
    BY <2>1, WithEpoch DEF Gate, CacheOK
  <2>3. CASE epochCache.epoch = j.epoch
    <3>1. Decide(w, "notassigned", j)
      BY <1>2, <2>3 DEF Refused
    <3> QED BY <2>1, <2>3, <3>1, EpochVerdict
  <2>4. CASE epochCache.epoch # j.epoch /\ j.chunk \in Mine(epochCache.epoch)
    <3>1. Proof(w, k)
      BY <1>2, <2>4 DEF Refused
    <3> HIDE DEF k
    <3>2. since[k.epoch] <= timing.ttl + timing.latency
      <4>1. since[epochCache.epoch] \in Nat
        BY <2>1, Lengths DEF Gate
      <4> QED BY <1>0, <2>1, <2>2, <4>1
    <3> QED BY <2>1, <2>2, <2>4, <3>1, <3>2, ProofOK
  <2>5. CASE epochCache.epoch # j.epoch /\ j.chunk \notin Mine(epochCache.epoch)
    <3>1. Decide(w, "notassigned", k)
      BY <1>2, <2>5 DEF Refused
    <3> HIDE DEF k
    <3> QED BY <2>1, <2>2, <2>5, <3>1, EpochVerdict
  <2> QED BY <2>3, <2>4, <2>5
<1>3. CASE ~readNow /\ ~Cached(timing.recheck)
  <2> DEFINE v == [Idle EXCEPT !.pc = "again", !.chunk = j.chunk,
                               !.good = j.good, !.epoch = j.epoch]
  <2>1. /\ v \in Jobs /\ v.pc = "again" /\ v.chunk = j.chunk /\ v.epoch = j.epoch
        /\ v.val = 0 /\ v.wait = 0
    BY IdleFields DEF Jobs, Steps
  <2>2. job' = [job EXCEPT ![w] = v]
    BY <1>3 DEF Refused
  <2> HIDE DEF v
  <2>3. JobOK(v)
    BY <1>0, <2>1 DEF JobOK
  <2> QED BY <2>1, <2>2, <2>3 DEF Put
<1> QED BY <1>1, <1>2, <1>3

\* The assignment of the epoch decides.
LEMMA CheckOK ==
  ASSUME Gate, NEW w \in Callers, NEW j \in Jobs, NEW readNow \in BOOLEAN,
         Check(w, j, readNow), j.epoch \in 1 .. Len(epochs),
         since[j.epoch] <= timing.ttl + timing.latency,
         readNow => since[j.epoch] <= timing.latency
  PROVE  Put(w)
<1>1. CASE j.chunk \in Mine(j.epoch)
  <2>1. Proof(w, j)
    BY <1>1 DEF Check
  <2> QED BY <1>1, <2>1, ProofOK
<1>2. CASE j.chunk \notin Mine(j.epoch)
  <2>1. Refused(w, j, readNow)
    BY <1>2 DEF Check
  <2> QED BY <1>2, <2>1, RefusedOK
<1> QED BY <1>1, <1>2

\* With the row at hand the job goes on soundly.
LEMMA HasInfoOK ==
  ASSUME Gate, NEW w \in Callers, NEW j \in Jobs, HasInfo(w, j)
  PROVE  Put(w)
<1>1. CASE j.info = "abandoned"
  <2>1. Decide(w, "abandoned", j)
    BY <1>1 DEF HasInfo
  <2> QED BY <2>1, PlainVerdict
<1>2. CASE j.info # "abandoned" /\ j.chunk \notin Chunks
  <2>1. Decide(w, "outofrange", j)
    BY <1>2 DEF HasInfo
  <2> QED BY <2>1, PlainVerdict
<1>3. CASE j.info # "abandoned" /\ j.chunk \in Chunks /\ Cached(timing.ttl)
  <2> DEFINE k == [j EXCEPT !.epoch = epochCache.epoch]
  <2>1. Check(w, k, FALSE)
    BY <1>3 DEF HasInfo
  <2>2. timing.ttl \in Nat /\ timing.ttl <= timing.ttl
    BY Times DEF Gate
  <2>3. /\ epochCache.epoch \in 1 .. Len(epochs)
        /\ since[epochCache.epoch] <= timing.ttl + timing.latency
    BY <1>3, <2>2, CachedOK
  <2>4. k \in Jobs /\ k.epoch = epochCache.epoch
    BY <2>3, WithEpoch DEF Gate, CacheOK
  <2> HIDE DEF k
  <2> QED BY <2>1, <2>3, <2>4, CheckOK
<1>4. CASE j.info # "abandoned" /\ j.chunk \in Chunks /\ ~Cached(timing.ttl)
  <2> DEFINE v == [Idle EXCEPT !.pc = "epoch", !.chunk = j.chunk, !.good = j.good]
  <2>1. v \in Jobs /\ v.pc = "epoch" /\ v.val = 0 /\ v.wait = 0
    BY IdleFields DEF Jobs, Steps
  <2>2. job' = [job EXCEPT ![w] = v]
    BY <1>4 DEF HasInfo
  <2> HIDE DEF v
  <2>3. JobOK(v)
    BY <2>1, Times DEF JobOK, Gate
  <2> QED BY <2>1, <2>2, <2>3 DEF Put
<1> QED BY <1>1, <1>2, <1>3, <1>4

\* A validation begins soundly.
LEMMA BeginOK ==
  ASSUME Gate, NEW w \in Callers, NEW c \in Nat, NEW good \in BOOLEAN, Begin(w, c, good)
  PROVE  Put(w)
<1> DEFINE j == [Idle EXCEPT !.chunk = c, !.good = good, !.info = infoCache]
<1>2. j \in Jobs /\ j.val = 0 /\ j.wait = 0
  BY IdleFields DEF Jobs, Gate, CacheOK
<1>3. CASE infoCache # None
  <2>1. HasInfo(w, j)
    BY <1>3 DEF Begin
  <2> HIDE DEF j
  <2> QED BY <1>2, <2>1, HasInfoOK
<1>4. CASE infoCache = None
  <2> DEFINE v == [j EXCEPT !.pc = "info"]
  <2>1. job' = [job EXCEPT ![w] = v]
    BY <1>4 DEF Begin
  <2> HIDE DEF j
  <2>2. v \in Jobs /\ v.pc = "info" /\ v.val = 0 /\ v.wait = 0
    BY <1>2 DEF Jobs, Steps
  <2> HIDE DEF v
  <2>3. JobOK(v)
    BY <2>2, Times DEF JobOK, Gate
  <2> QED BY <2>1, <2>2, <2>3 DEF Put
<1> QED BY <1>3, <1>4

\* A sound job stays sound while the chain stands still.
LEMMA SoundKept ==
  ASSUME NEW v, JobOK(v), UNCHANGED <<timing, epochs, since>>
  PROVE  JobOK(v)'
<1>1. \A e : Mine(e)' = Mine(e)
  BY DEF Mine
<1> QED BY <1>1 DEF JobOK

\* The jobs are sound after a step if each is.
LEMMA SoundAfter ==
  ASSUME job' \in [Callers -> Jobs], \A w \in Callers : \E v : v = job'[w] /\ JobOK(v)'
  PROVE  JobsOK'
<1>1. ASSUME NEW w \in Callers PROVE JobOK(job[w])'
  <2>1. PICK v : v = job'[w] /\ JobOK(v)'
    OBVIOUS
  <2> QED BY <2>1 DEF JobOK
<1> QED BY <1>1 DEF JobsOK

\* Nothing else changes where a sound job is put.
LEMMA PutKeeps ==
  ASSUME Gate, NEW w \in Callers, Put(w), UNCHANGED <<timing, epochs, since>>
  PROVE  JobsOK'
<1>1. PICK v \in Jobs : JobOK(v) /\ job' = [job EXCEPT ![w] = v]
  BY DEF Put
<1>2. job' \in [Callers -> Jobs]
  BY <1>1 DEF Gate, JobsOK
<1>3. ASSUME NEW u \in Callers PROVE \E x : x = job'[u] /\ JobOK(x)'
  <2>1. CASE u = w
    <3>1. v = job'[u]
      BY <1>1, <2>1 DEF Gate, JobsOK
    <3>2. JobOK(v)'
      BY <1>1, SoundKept
    <3> QED BY <3>1, <3>2
  <2>2. CASE u # w
    <3>1. PICK x : x = job[u]
      OBVIOUS
    <3>2. x = job'[u] /\ JobOK(x)
      BY <1>1, <2>2, <3>1 DEF Gate, JobsOK
    <3>3. JobOK(x)'
      BY <3>2, SoundKept
    <3> QED BY <3>2, <3>3
  <2> QED BY <2>1, <2>2
<1> QED BY <1>2, <1>3, SoundAfter

\* The chain and the caches are none of a step's business.
LEMMA GateUntouched ==
  ASSUME Gate, UNCHANGED <<timing, life, epochs, since, infoCache, epochCache>>
  PROVE  ChainOK' /\ CacheOK'
<1>1. ChainOK'
  BY DEF Gate, ChainOK, Horizon
<1>2. CacheOK'
  BY DEF Gate, CacheOK
<1> QED BY <1>1, <1>2

---------------------------------------------------------------------------
(* The steps of the gate. *)

\* A new epoch: what the jobs use is as old as before.
LEMMA ReassignStep ==
  ASSUME Gate, Reassign
  PROVE  Gate'
<1>1. PICK a \in Assignments : epochs' = Append(epochs, a)
  BY DEF Reassign
<1>2. /\ since' = Append(since, 0)
      /\ UNCHANGED <<timing, life, infoCache, epochCache, job>>
  BY DEF Reassign
<1>3. /\ Len(epochs) \in Nat \ {0} /\ Len(since) = Len(epochs)
      /\ timing.latency \in Nat /\ Horizon \in Nat
  BY Lengths, Times DEF Gate
<1>4. /\ epochs' \in Seq(Assignments) /\ epochs' # << >> /\ Len(epochs') = Len(epochs) + 1
      /\ since' \in Seq(Nat) /\ Len(since') = Len(since) + 1
      /\ \A e \in 1 .. Len(since) : since'[e] = since[e]
      /\ since'[Len(since) + 1] = 0
  BY <1>1, <1>2, AppendProperties DEF Gate, ChainOK
<1>5. Horizon' = Horizon
  BY <1>2 DEF Horizon
<1>6. ChainOK'
  <2>1. ASSUME NEW e \in 1 .. Len(since') PROVE since'[e] <= Horizon
    <3>1. CASE e = Len(since) + 1
      BY <1>3, <1>4, <3>1
    <3>2. CASE e # Len(since) + 1
      <4>1. e \in 1 .. Len(since)
        BY <1>3, <1>4, <3>2
      <4> QED BY <1>4, <4>1 DEF Gate, ChainOK
    <3> QED BY <3>1, <3>2
  <2> QED BY <1>2, <1>3, <1>4, <1>5, <2>1 DEF Gate, ChainOK
<1>7. CacheOK'
  <2>1. epochCache.epoch \in Nat /\ epochCache.epoch <= Len(epochs)
    BY DEF Gate, CacheOK
  <2>2. epochCache.epoch # 0 => since'[epochCache.epoch] = since[epochCache.epoch]
    BY <1>3, <1>4, <2>1
  <2> QED BY <1>2, <1>3, <1>4, <2>1, <2>2 DEF Gate, CacheOK
<1>8. JobsOK'
  <2>1. ASSUME NEW w \in Callers PROVE \E x : x = job'[w] /\ JobOK(x)'
    <3>1. PICK j : j = job[w]
      OBVIOUS
    <3>2. j \in Jobs /\ JobOK(j) /\ j = job'[w]
      BY <1>2, <3>1 DEF Gate, JobsOK
    <3>3. j.epoch \in Nat /\ j.val \in Nat /\ j.wait \in Nat
      BY <3>2 DEF Jobs
    <3>4. j.val # 0 => j.val <= Len(epochs') /\ since'[j.val] <= j.wait
      BY <1>3, <1>4, <3>2, <3>3 DEF JobOK
    <3>5. \A e \in 1 .. Len(epochs) : Mine(e)' = Mine(e)
      BY <1>1, MineKept DEF Gate
    <3>6. ASSUME j.pc \in {"again", "accepted", "notassigned"}
          PROVE  j.epoch \in 1 .. Len(epochs') /\ Mine(j.epoch)' = Mine(j.epoch)
      <4>1. j.epoch \in 1 .. Len(epochs)
        BY <3>2, <3>6 DEF JobOK
      <4> QED BY <1>3, <1>4, <3>5, <4>1
    <3>7. JobOK(j)'
      BY <1>2, <3>2, <3>4, <3>6 DEF JobOK
    <3> QED BY <3>2, <3>7
  <2>2. job' \in [Callers -> Jobs]
    BY <1>2 DEF Gate, JobsOK
  <2> QED BY <2>1, <2>2, SoundAfter
<1> QED BY <1>6, <1>7, <1>8 DEF Gate

\* The file is abandoned, or its cached row evicted.
LEMMA AbandonEvictStep ==
  ASSUME Gate, Abandon \/ Evict
  PROVE  Gate'
<1>1. /\ life' \in {"live", "abandoned"} /\ infoCache' \in {None, infoCache}
      /\ epochCache' \in {NoEpoch, epochCache}
      /\ UNCHANGED <<timing, epochs, since, job>>
  BY DEF Gate, ChainOK, Abandon, Evict
<1>2. ChainOK'
  BY <1>1 DEF Gate, ChainOK, Horizon
<1>3. CacheOK'
  <2>1. NoEpoch \in [epoch : Nat, age : Nat] /\ NoEpoch.epoch = 0 /\ NoEpoch.age = 0
    BY DEF NoEpoch
  <2>2. timing.ttl \in Nat /\ Len(epochs) \in Nat
    BY Times, Lengths DEF Gate
  <2> QED BY <1>1, <2>1, <2>2 DEF Gate, CacheOK
<1>4. JobsOK'
  BY <1>1 DEF Gate, JobsOK, JobOK, Mine
<1> QED BY <1>2, <1>3, <1>4 DEF Gate

\* Time passes: the caches age with the chain, and a job waits no longer than the
\* latency.
LEMMA TickStep ==
  ASSUME Gate, Tick
  PROVE  Gate'
<1>1. /\ UNCHANGED <<timing, life, epochs, infoCache>>
      /\ since' = [e \in DOMAIN since |->
                     IF e = Len(epochs) THEN 0 ELSE Older(since[e], Horizon)]
      /\ epochCache' = [epochCache EXCEPT !.age = IF epochCache.epoch = 0 THEN 0
                                                  ELSE Older(@, timing.ttl)]
      /\ job' = [w \in Callers |->
                   IF job[w].val # 0 THEN [job[w] EXCEPT !.wait = @ + 1] ELSE job[w]]
      /\ \A w \in Callers : job[w].val # 0 => job[w].wait < timing.latency
  BY DEF Tick, Ticked
<1>2. /\ Len(epochs) \in Nat \ {0} /\ Len(since) = Len(epochs)
      /\ \A e \in 1 .. Len(epochs) : since[e] \in Nat
      /\ timing.ttl \in Nat /\ timing.latency \in Nat /\ Horizon \in Nat
      /\ DOMAIN since = 1 .. Len(epochs)
  BY Lengths, Times, LenProperties DEF Gate, ChainOK
<1>3. /\ \A e \in 1 .. Len(epochs) : /\ since'[e] \in Nat
                                   /\ since'[e] <= since[e] + 1
                                   /\ since'[e] <= Horizon
      /\ since'[Len(epochs)] = 0
  BY <1>1, <1>2 DEF Older, Gate, ChainOK
<1>4. since' \in Seq(Nat) /\ Len(since') = Len(epochs)
  <2>1. since' \in [1 .. Len(epochs) -> Nat]
    BY <1>1, <1>2, <1>3
  <2> QED BY <1>2, <2>1, IsASeq, LenProperties
<1>5. ChainOK'
  BY <1>1, <1>2, <1>3, <1>4 DEF Gate, ChainOK, Horizon
<1>6. CacheOK'
  <2> DEFINE c == epochCache
  <2>1. c \in [epoch : Nat, age : Nat] /\ c.epoch <= Len(epochs) /\ c.age <= timing.ttl
    BY DEF Gate, CacheOK
  <2>2. /\ epochCache' \in [epoch : Nat, age : Nat] /\ epochCache'.epoch = c.epoch
        /\ c.epoch # 0 =>
             epochCache'.age = IF c.age < timing.ttl THEN c.age + 1 ELSE timing.ttl
        /\ epochCache'.age <= timing.ttl
    BY <1>1, <1>2, <2>1 DEF Older
  <2>3. c.epoch # 0 /\ epochCache'.age < timing.ttl =>
           since'[c.epoch] <= epochCache'.age + timing.latency
    <3> SUFFICES ASSUME c.epoch # 0, epochCache'.age < timing.ttl
                 PROVE  since'[c.epoch] <= epochCache'.age + timing.latency
      OBVIOUS
    <3>1. c.epoch \in 1 .. Len(epochs) /\ c.age \in Nat /\ c.age < timing.ttl
          /\ epochCache'.age = c.age + 1
      BY <1>2, <2>1, <2>2
    <3>2. c.epoch # 0 /\ c.age < timing.ttl => since[c.epoch] <= c.age + timing.latency
      BY DEF Gate, CacheOK
    <3> QED BY <1>2, <1>3, <3>1, <3>2
  <2> QED BY <1>1, <2>1, <2>2, <2>3 DEF Gate, CacheOK
<1>7. JobsOK'
  <2>1. ASSUME NEW w \in Callers
        PROVE  job'[w] \in Jobs /\ \E x : x = job'[w] /\ JobOK(x)'
    <3>1. PICK j, k : j = job[w] /\ k = job'[w]
      OBVIOUS
    <3>2. j \in Jobs /\ JobOK(j)
      BY <3>1 DEF Gate, JobsOK
    <3>3. \A e : Mine(e)' = Mine(e)
      BY <1>1 DEF Mine
    <3>4. CASE j.val = 0
      <4>1. k = j
        BY <1>1, <3>1, <3>4
      <4>2. JobOK(k)'
        BY <1>1, <3>2, <3>3, <3>4, <4>1 DEF JobOK
      <4> QED BY <3>1, <3>2, <4>1, <4>2
    <3>5. CASE j.val # 0
      <4>1. k = [j EXCEPT !.wait = @ + 1]
        BY <1>1, <3>1, <3>5
      <4>2. /\ k \in Jobs /\ k.pc = j.pc /\ k.chunk = j.chunk /\ k.epoch = j.epoch
            /\ k.val = j.val /\ k.wait = j.wait + 1 /\ k.stale = j.stale
        BY <3>2, <4>1 DEF Jobs
      <4>3. k.good <=> j.good
        BY <3>2, <4>1 DEF Jobs
      <4>4. j.wait < timing.latency /\ j.wait \in Nat /\ j.val \in 1 .. Len(epochs)
            /\ since[j.val] <= j.wait
        BY <1>1, <1>2, <3>1, <3>2, <3>5 DEF Jobs, JobOK
      <4>5. k.wait <= timing.latency /\ since'[k.val] <= k.wait /\ k.val <= Len(epochs)
        BY <1>2, <1>3, <4>2, <4>4
      <4>6. JobOK(k)'
        BY <1>1, <3>2, <3>3, <4>2, <4>3, <4>5 DEF JobOK
      <4> QED BY <3>1, <4>2, <4>6
    <3> QED BY <3>4, <3>5
  <2>2. job' \in [Callers -> Jobs]
    BY <1>1, <2>1
  <2> QED BY <2>1, <2>2, SoundAfter
<1> QED BY <1>5, <1>6, <1>7 DEF Gate

\* A validation goes on by one await.
LEMMA ValidateStep ==
  ASSUME Gate, NEW w \in Callers, Validate(w)
  PROVE  Gate'
<1> DEFINE j == job[w]
<1>0. /\ j \in Jobs /\ JobOK(j)
      /\ Len(epochs) \in Nat \ {0} /\ timing.ttl \in Nat /\ timing.latency \in Nat
  BY Lengths, Times DEF Gate, JobsOK
<1>1. CASE ChainAnswers(w)
  <2> DEFINE i == IF j.pc = "info" THEN life ELSE j.info
             v == [j EXCEPT !.val = Len(epochs), !.info = i]
  <2>1. i \in {None, "live", "abandoned"}
    BY <1>0 DEF Gate, ChainOK, Jobs
  <2>2. /\ job' = [job EXCEPT ![w] = v]
        /\ UNCHANGED <<timing, life, epochs, since, infoCache, epochCache>>
    BY <1>1 DEF ChainAnswers, Gate, JobsOK, Jobs
  <2> HIDE DEF i
  <2>3. /\ v \in Jobs /\ v.pc = j.pc /\ v.chunk = j.chunk /\ v.epoch = j.epoch
        /\ v.val = Len(epochs) /\ v.wait = j.wait /\ v.stale = j.stale
    BY <1>0, <2>1 DEF Jobs
  <2>4. v.good <=> j.good
    BY <1>0 DEF Jobs
  <2>5. since[v.val] <= v.wait
    BY <1>0, <2>3 DEF Gate, ChainOK, Jobs
  <2> HIDE DEF v
  <2>6. JobOK(v)
    BY <1>0, <2>3, <2>4, <2>5 DEF JobOK
  <2>7. Put(w)
    BY <2>2, <2>3, <2>6 DEF Put
  <2> QED BY <2>2, <2>7, PutKeeps, GateUntouched DEF Gate
<1>2. CASE ChainFails(w)
  <2>1. /\ Decide(w, "error", j)
        /\ UNCHANGED <<timing, life, epochs, since, infoCache, epochCache>>
    BY <1>2 DEF ChainFails
  <2>2. Put(w)
    BY <2>1, PlainVerdict
  <2> QED BY <2>1, <2>2, PutKeeps, GateUntouched DEF Gate
<1>3. CASE InfoArrives(w)
  <2>1. /\ infoCache' = j.info /\ HasInfo(w, j)
        /\ UNCHANGED <<timing, life, epochs, since, epochCache>>
    BY <1>3 DEF InfoArrives
  <2>2. Put(w)
    BY <1>0, <2>1, HasInfoOK
  <2>3. ChainOK'
    BY <2>1 DEF Gate, ChainOK, Horizon
  <2>4. CacheOK'
    BY <1>0, <2>1 DEF Gate, CacheOK, Jobs
  <2> QED BY <2>1, <2>2, <2>3, <2>4, PutKeeps DEF Gate
<1>4. CASE EpochArrives(w)
  <2> DEFINE k == [j EXCEPT !.epoch = j.val]
  <2>1. /\ j.pc \in {"epoch", "again"} /\ j.val # 0
        /\ epochCache' = [epoch |-> j.val, age |-> 0]
        /\ IF j.pc = "again" /\ j.val = j.epoch THEN Decide(w, "notassigned", j)
           ELSE Check(w, k, TRUE)
        /\ UNCHANGED <<timing, life, epochs, since, infoCache>>
    BY <1>4 DEF EpochArrives
  <2>2. j.val \in 1 .. Len(epochs) /\ since[j.val] <= timing.latency /\ since[j.val] \in Nat
    <3>1. j.val \in Nat /\ j.wait \in Nat /\ j.wait <= timing.latency
          /\ j.val <= Len(epochs) /\ since[j.val] <= j.wait
      BY <1>0, <2>1 DEF Jobs, JobOK
    <3>2. j.val \in 1 .. Len(epochs)
      BY <1>0, <2>1, <3>1
    <3>3. since[j.val] \in Nat
      BY <3>2, Lengths DEF Gate
    <3> QED BY <1>0, <3>1, <3>2, <3>3
  <2>3. Put(w)
    <3>1. CASE j.pc = "again" /\ j.val = j.epoch
      <4>1. Decide(w, "notassigned", j)
        BY <2>1, <3>1
      <4>2. j.chunk \notin Mine(j.epoch)
        BY <1>0, <3>1 DEF JobOK
      <4>3. timing.recheck \in Nat
        BY Times DEF Gate
      <4>4. since[j.epoch] <= timing.recheck + timing.latency
        BY <1>0, <2>2, <3>1, <4>3
      <4> HIDE DEF j
      <4> QED BY <1>0, <2>2, <3>1, <4>1, <4>2, <4>4, EpochVerdict
    <3>2. CASE ~(j.pc = "again" /\ j.val = j.epoch)
      <4>1. Check(w, k, TRUE)
        BY <2>1, <3>2
      <4>2. k \in Jobs /\ k.epoch = j.val
        BY <1>0, <2>2, WithEpoch
      <4>3. since[k.epoch] <= timing.ttl + timing.latency
        BY <1>0, <2>2, <4>2
      <4> HIDE DEF k, j
      <4> QED BY <2>2, <4>1, <4>2, <4>3, CheckOK
    <3> QED BY <3>1, <3>2
  <2>4. ChainOK'
    BY <2>1 DEF Gate, ChainOK, Horizon
  <2>5. CacheOK'
    BY <1>0, <2>1, <2>2 DEF Gate, CacheOK
  <2> QED BY <2>1, <2>3, <2>4, <2>5, PutKeeps DEF Gate
<1> QED BY <1>1, <1>2, <1>3, <1>4 DEF Validate

---------------------------------------------------------------------------
(* The steps of the listen loop and of the re-fetch task. *)

\* The gate is where it was.
LEMMA GateSame ==
  ASSUME Gate, UNCHANGED validator
  PROVE  Gate'
<1>1. UNCHANGED <<timing, life, epochs, since, infoCache, epochCache, job>>
  BY DEF validator
<1>2. JobsOK'
  BY <1>1 DEF Gate, JobsOK, JobOK, Mine
<1> QED BY <1>1, <1>2, GateUntouched DEF Gate

\* A caller has begun.
LEMMA GateBegins ==
  ASSUME Gate, NEW w \in Callers, NEW c \in Nat, NEW good \in BOOLEAN, Begin(w, c, good)
  PROVE  Gate'
<1>1. UNCHANGED <<timing, life, epochs, since, infoCache, epochCache>>
  BY DEF Begin
<1>2. Put(w)
  BY BeginOK
<1> QED BY <1>1, <1>2, PutKeeps, GateUntouched DEF Gate

\* A caller leaves with its verdict: what it stores verifies.
LEMMA GateLeaves ==
  ASSUME Gate, HeldOK, NEW w \in Callers, job' = [job EXCEPT ![w] = Idle],
         held' = Stored(job[w]),
         UNCHANGED <<timing, life, epochs, since, infoCache, epochCache>>
  PROVE  Gate' /\ HeldOK'
<1>1. Put(w)
  BY IdleFields, IdleOK DEF Put, Gate
<1>2. Gate'
  BY <1>1, PutKeeps, GateUntouched DEF Gate
<1>3. CASE job[w].pc # "accepted"
  BY <1>2, <1>3 DEF Stored, HeldOK
<1>4. CASE job[w].pc = "accepted"
  <2>1. job[w].good /\ job[w].chunk \in Chunks
    BY <1>4 DEF Gate, JobsOK, JobOK, Mine
  <2>2. held' = [held EXCEPT ![job[w].chunk] = "good"]
    BY <1>4, <2>1 DEF Stored
  <2> QED BY <1>2, <2>1, <2>2 DEF HeldOK
<1> QED BY <1>3, <1>4

\* The run and what it works with are where they were.
LEMMA RunSame ==
  ASSUME RunOK, UNCHANGED <<visibility, manifest, peers, run, pending, wire>>
  PROVE  RunOK'
BY DEF RunOK

\* The fields of NoRun.
LEMMA NoRunOK ==
  NoRun \in Runs /\ NoRun.pc = "idle"
<1>1. NoRun \in Runs
  BY DEF NoRun, Runs
<1> QED BY <1>1 DEF NoRun

\* A settled chunk leaves the plan.
LEMMA NextChunkOK ==
  ASSUME run \in Runs, run.plan # {}, NEW r \in Runs, r.plan = run.plan
  PROVE  /\ NextChunk(r) \in Runs
         /\ \/ NextChunk(r).pc = "idle"
            \/ NextChunk(r).pc = "chunk" /\ NextChunk(r).plan # {}
<1> DEFINE n == [r EXCEPT !.plan = @ \ {Now}, !.src = 1, !.done = @ + 1, !.pc = "chunk"]
<1>1. Now \in run.plan
  BY NowIsPlanned
<1>2. n \in Runs /\ n.pc = "chunk" /\ n.plan = run.plan \ {Now}
  <2>1. PICK x : x = Now
    OBVIOUS
  <2>2. r.plan \ {x} \in SUBSET Chunks /\ r.done + 1 \in Nat
    BY DEF Runs
  <2> QED BY <2>1, <2>2 DEF Runs
<1> HIDE DEF n
<1>3. CASE r.plan = {Now} \/ r.done + 1 >= ChunksPerRun
  BY <1>3, NoRunOK DEF NextChunk
<1>4. CASE ~(r.plan = {Now} \/ r.done + 1 >= ChunksPerRun)
  <2>1. NextChunk(r) = n
    BY <1>4 DEF NextChunk, n
  <2> QED BY <1>1, <1>2, <1>4, <2>1
<1> QED BY <1>3, <1>4

\* The steps that only move the run.
LEMMA RunMoves ==
  ASSUME IInv, RunStarts \/ ShapeRead \/ CoverageRead \/ ReadFails \/ GiveUp
  PROVE  IInv'
<1>1. UNCHANGED validator /\ UNCHANGED <<visibility, held, manifest, peers, pending, wire>>
  BY DEF RunStarts, ShapeRead, CoverageRead, ReadFails, GiveUp
<1>2. Gate' /\ HeldOK'
  BY <1>1, GateSame DEF IInv, HeldOK
<1>3. /\ run \in Runs
      /\ run.pc \in {"manifest", "chunk", "gate", "gated"} => run.plan # {}
      /\ visibility = "private" => wire = {} /\ run.pc \in {"idle", "shape"}
      /\ pending = NoPull
  BY DEF IInv, RunOK, RunStarts, ShapeRead, CoverageRead, ReadFails, GiveUp, Pulling
<1>4. ASSUME run' \in Runs,
             run'.pc \in {"manifest", "chunk", "gate", "gated"} => run'.plan # {},
             visibility = "private" => run'.pc \in {"idle", "shape"}
      PROVE  IInv'
  <2>1. RunOK'
    BY <1>1, <1>3, <1>4 DEF IInv, RunOK
  <2> QED BY <1>2, <2>1 DEF IInv
<1>5. CASE RunStarts
  <2>1. CASE run' = NoRun
    BY <1>4, <2>1, NoRunOK
  <2>2. CASE run' # NoRun
    <3>1. PICK used \in timing.ahead :
                 run' = [NoRun EXCEPT !.pc = "shape", !.done = used.chunks]
      BY <1>5, <2>2 DEF RunStarts
    <3>2. used.chunks \in Nat
      BY <1>3, RefetchAssumption DEF IInv, Gate, ChainOK
    <3>3. run' \in Runs /\ run'.pc = "shape"
      BY <3>1, <3>2, NoRunOK DEF Runs
    <3> QED BY <1>4, <3>3
  <2> QED BY <2>1, <2>2
<1>6. CASE ShapeRead
  <2>1. CASE run' = NoRun
    BY <1>4, <2>1, NoRunOK
  <2>2. CASE run' # NoRun
    <3>1. visibility # "private" /\ run' = [run EXCEPT !.pc = "coverage"]
      BY <1>6, <2>2 DEF ShapeRead
    <3>2. run' \in Runs /\ run'.pc = "coverage"
      BY <1>3, <3>1 DEF Runs
    <3> QED BY <1>4, <3>1, <3>2
  <2> QED BY <2>1, <2>2
<1>7. CASE CoverageRead
  <2>1. visibility # "private"
    BY <1>3, <1>7 DEF CoverageRead
  <2>2. CASE run' = NoRun
    BY <1>4, <2>2, NoRunOK
  <2>3. CASE run' # NoRun
    <3>1. /\ Plan # {}
          /\ run' = [run EXCEPT !.pc = IF manifest THEN "chunk" ELSE "manifest",
                                !.plan = Plan, !.at = Len(epochs)]
      BY <1>7, <2>3 DEF CoverageRead
    <3>2. Plan \subseteq Chunks
      BY DEF Plan, Mine
    <3>3. Len(epochs) \in Nat
      BY Lengths DEF IInv, Gate
    <3>4. run' \in Runs /\ run'.plan = Plan
      BY <1>3, <3>1, <3>2, <3>3 DEF Runs
    <3> QED BY <1>4, <2>1, <3>1, <3>4
  <2> QED BY <2>2, <2>3
<1>8. CASE ReadFails
  <2>1. run' = NoRun
    BY <1>8 DEF ReadFails
  <2> QED BY <1>4, <2>1, NoRunOK
<1>9. CASE GiveUp
  <2>1. run.pc \in {"manifest", "chunk"} /\ run.plan # {}
    BY <1>3, <1>9 DEF GiveUp, Pulling
  <2>2. run' = NoRun \/ run' = NextChunk(run)
    BY <1>9 DEF GiveUp
  <2>3. visibility # "private"
    BY <1>3, <2>1
  <2> QED BY <1>3, <1>4, <2>1, <2>2, <2>3, NoRunOK, NextChunkOK
<1> QED BY <1>5, <1>6, <1>7, <1>8, <1>9

\* A pull is sent: the run has a waiter, and its file is Public.
LEMMA SendPullStep ==
  ASSUME IInv, SendPull
  PROVE  IInv'
<1>1. UNCHANGED validator /\ UNCHANGED <<visibility, held, manifest, peers>>
  BY DEF SendPull
<1>2. Gate' /\ HeldOK'
  BY <1>1, GateSame DEF IInv, HeldOK
<1>3. /\ run \in Runs /\ run.pc \in {"manifest", "chunk"} /\ run.plan # {}
      /\ pending = NoPull
      /\ visibility # "private" /\ peers \subseteq Archives \ {Me} /\ wire \subseteq Pulls
  BY DEF IInv, RunOK, SendPull, Pulling
<1>4. CASE Line[run.src] \in peers
  <2>1. pending' = Pull /\ wire' = wire \cup {Pull} /\ UNCHANGED run
    BY <1>4 DEF SendPull
  <2>2. Wanted \in 0 .. ChunkCount
    <3>1. Now \in 1 .. ChunkCount /\ ChunkCount \in Nat
      BY <1>3, NowIsPlanned, ValidatorAssumption DEF Chunks
    <3> QED BY <3>1 DEF Wanted
  <2>3. Pull \in Pulls
    BY <1>3, <1>4, <2>2 DEF Pull, Pulls
  <2>4. RunOK'
    BY <1>1, <1>3, <2>1, <2>3 DEF IInv, RunOK
  <2> QED BY <1>2, <2>4 DEF IInv
<1>5. CASE Line[run.src] \notin peers
  <2>1. run' = [run EXCEPT !.src = @ + 1] /\ UNCHANGED <<pending, wire>>
    BY <1>5 DEF SendPull
  <2>2. run' \in Runs /\ run'.pc = run.pc /\ run'.plan = run.plan
    BY <1>3, <2>1 DEF Runs
  <2>3. RunOK'
    BY <1>1, <1>3, <2>1, <2>2 DEF IInv, RunOK
  <2> QED BY <1>2, <2>3 DEF IInv
<1> QED BY <1>4, <1>5

\* A waiter is settled or given up; only the run of a Public file has one.
LEMMA AnswerStep ==
  ASSUME IInv, PullAnswered \/ PullTimesOut
  PROVE  IInv'
<1>1. UNCHANGED <<timing, life, epochs, since, infoCache, epochCache, visibility, held,
                  peers>>
  BY DEF PullAnswered, PullTimesOut, Same
<1>2. wire' \subseteq wire
  BY DEF PullAnswered, PullTimesOut
<1>3. CASE UNCHANGED <<pending, run, job, manifest>>
  <2>1. RunOK'
    BY <1>1, <1>2, <1>3 DEF IInv, RunOK
  <2>2. Gate'
    BY <1>1, <1>3, GateSame DEF IInv, validator
  <2> QED BY <1>1, <2>1, <2>2 DEF IInv, HeldOK
<1>4. CASE /\ pending # NoPull /\ pending' = NoPull
           /\ Unanswered \/ \E ans \in {"good", "wrong", "error"} : Accept(pending, ans)
  <2>1. /\ UNCHANGED job /\ manifest' \in BOOLEAN
        /\ \/ run' = [run EXCEPT !.src = @ + 1]
           \/ run' = [run EXCEPT !.pc = "chunk", !.src = 1]
           \/ run' = [run EXCEPT !.pc = "gate"]
    BY <1>4 DEF Accept, Unanswered, IInv, RunOK
  <2>2. run \in Runs /\ run.pc \in {"manifest", "chunk"}
    BY <1>4 DEF IInv, RunOK
  <2>3. /\ run' \in Runs /\ run'.plan = run.plan
        /\ run'.pc \in {"manifest", "chunk", "gate"}
    <3>1. CASE run' = [run EXCEPT !.src = @ + 1]
      BY <2>2, <3>1 DEF Runs
    <3>2. CASE run' = [run EXCEPT !.pc = "chunk", !.src = 1]
      BY <2>2, <3>2 DEF Runs
    <3>3. CASE run' = [run EXCEPT !.pc = "gate"]
      BY <2>2, <3>3 DEF Runs
    <3> QED BY <2>1, <3>1, <3>2, <3>3
  <2>4. RunOK'
    BY <1>1, <1>2, <1>4, <2>1, <2>2, <2>3 DEF IInv, RunOK
  <2>5. Gate'
    BY <1>1, <2>1, GateSame DEF IInv, validator
  <2> QED BY <1>1, <2>4, <2>5 DEF IInv, HeldOK
<1>5. CASE PullTimesOut
  BY <1>4, <1>5 DEF PullTimesOut
<1>6. CASE PullAnswered
  <2>1. PICK p \in Pulls : \E ans \in Answers(p) :
          IF pending = p THEN pending' = NoPull /\ Accept(p, ans)
          ELSE UNCHANGED <<pending, run, job, manifest>>
    BY <1>6 DEF PullAnswered
  <2>2. PICK ans \in Answers(p) :
          IF pending = p THEN pending' = NoPull /\ Accept(p, ans)
          ELSE UNCHANGED <<pending, run, job, manifest>>
    BY <2>1
  <2>3. ans \in {"good", "wrong", "error"}
    BY DEF Answers
  <2>4. p # NoPull
    BY DEF Pulls, NoPull
  <2> QED BY <1>3, <1>4, <2>2, <2>3, <2>4
<1> QED BY <1>5, <1>6

\* The chunk is handed to the gate.
LEMMA ToGateStep ==
  ASSUME IInv, ToGate
  PROVE  IInv'
<1>1. /\ run.pc = "gate" /\ Begin(Task, Now, TRUE) /\ run' = [run EXCEPT !.pc = "gated"]
      /\ UNCHANGED <<visibility, held, manifest, peers, pending, wire>>
  BY DEF ToGate
<1>2. run \in Runs /\ run.plan # {} /\ visibility # "private" /\ pending = NoPull
  BY <1>1 DEF IInv, RunOK
<1>3. Now \in Nat /\ Task \in Callers /\ TRUE \in BOOLEAN
  BY <1>2, NowIsPlanned, RefetchAssumption
<1>4. Gate'
  BY <1>1, <1>3, GateBegins DEF IInv
<1>5. run' \in Runs /\ run'.pc = "gated" /\ run'.plan = run.plan
  BY <1>1, <1>2 DEF Runs
<1>6. RunOK'
  BY <1>1, <1>2, <1>5 DEF IInv, RunOK
<1> QED BY <1>1, <1>4, <1>6 DEF IInv, HeldOK

\* The chunk comes from the gate.
LEMMA FromGateStep ==
  ASSUME IInv, FromGate
  PROVE  IInv'
<1> DEFINE r == IF job[Task].pc = "accepted" THEN [run EXCEPT !.fetched = TRUE] ELSE run
<1>1. /\ run.pc = "gated" /\ held' = Stored(job[Task]) /\ run' = NextChunk(r)
      /\ job' = [job EXCEPT ![Task] = Idle]
      /\ UNCHANGED <<timing, life, epochs, since, infoCache, epochCache>>
      /\ UNCHANGED <<visibility, manifest, peers, pending, wire>>
  BY DEF FromGate
<1>2. run \in Runs /\ run.plan # {} /\ visibility # "private" /\ pending = NoPull
  BY <1>1 DEF IInv, RunOK
<1>3. r \in Runs /\ r.plan = run.plan
  BY <1>2 DEF Runs
<1> HIDE DEF r
<1>4. /\ run' \in Runs
      /\ run'.pc = "idle" \/ (run'.pc = "chunk" /\ run'.plan # {})
  BY <1>1, <1>2, <1>3, NextChunkOK
<1>5. RunOK'
  BY <1>1, <1>2, <1>4 DEF IInv, RunOK
<1>6. Gate' /\ HeldOK'
  BY <1>1, GateLeaves, RefetchAssumption DEF IInv
<1> QED BY <1>5, <1>6 DEF IInv

\* A push enters the gate, and leaves it.
LEMMA PushStep ==
  ASSUME IInv, Push \/ PushAcked
  PROVE  IInv'
<1>0. Listen \in Callers
  BY RefetchAssumption
<1>1. CASE Push
  <2>1. UNCHANGED <<visibility, held, manifest, peers, run, pending, wire>>
    BY <1>1 DEF Push, refetch
  <2>2. PICK p \in timing.pushes : Begin(Listen, p.chunk, p.good)
    BY <1>1 DEF Push
  <2>3. p.chunk \in Nat /\ p.good \in BOOLEAN
    BY <2>2, Times DEF IInv, Gate
  <2>4. Gate'
    BY <1>0, <2>2, <2>3, GateBegins DEF IInv
  <2> QED BY <2>1, <2>4, RunSame DEF IInv, HeldOK
<1>2. CASE PushAcked
  <2>1. /\ held' = Stored(job[Listen]) /\ job' = [job EXCEPT ![Listen] = Idle]
        /\ UNCHANGED <<timing, life, epochs, since, infoCache, epochCache>>
        /\ UNCHANGED <<visibility, manifest, peers, run, pending, wire>>
    BY <1>2 DEF PushAcked
  <2>2. Gate' /\ HeldOK'
    BY <1>0, <2>1, GateLeaves DEF IInv
  <2> QED BY <2>1, <2>2, RunSame DEF IInv
<1> QED BY <1>1, <1>2

\* At the start.
LEMMA InitIInv == Init => IInv
<1> SUFFICES ASSUME Init PROVE IInv
  OBVIOUS
<1>1. /\ timing \in Timings /\ life = "live" /\ since = <<0>>
      /\ infoCache = None /\ epochCache = NoEpoch /\ job = [w \in Callers |-> Idle]
  BY DEF Init, ValidatorInit
<1>2. PICK a \in Assignments : epochs = <<a>>
  BY DEF Init, ValidatorInit
<1>3. /\ epochs \in Seq(Assignments) /\ epochs # << >> /\ Len(epochs) = 1
      /\ since \in Seq(Nat) /\ Len(since) = 1 /\ since[1] = 0
  BY <1>1, <1>2
<1>4. Horizon \in Nat /\ timing.ttl \in Nat
  BY <1>1, ValidatorAssumption DEF Horizon
<1>5. ChainOK
  BY <1>1, <1>3, <1>4 DEF ChainOK
<1>6. CacheOK
  <2>1. NoEpoch \in [epoch : Nat, age : Nat] /\ NoEpoch.epoch = 0 /\ NoEpoch.age = 0
    BY DEF NoEpoch
  <2> QED BY <1>1, <1>3, <1>4, <2>1 DEF CacheOK
<1>7. JobsOK
  BY <1>1, <1>5, IdleFields, IdleOK DEF JobsOK
<1>8. RunOK
  <2>1. peers \subseteq Archives \ {Me}
    BY <1>1, RefetchAssumption DEF Init, Good
  <2> QED BY <2>1, NoRunOK DEF Init, RunOK
<1>9. HeldOK
  BY DEF Init, HeldOK
<1> QED BY <1>5, <1>6, <1>7, <1>8, <1>9 DEF IInv, Gate

\* IInv is inductive.
LEMMA NextIInv == IInv /\ [Next]_vars => IInv'
<1> SUFFICES ASSUME IInv, [Next]_vars PROVE IInv'
  OBVIOUS
<1>1. ASSUME UNCHANGED refetch, Gate' PROVE IInv'
  <2>1. UNCHANGED <<visibility, held, manifest, peers, run, pending, wire>>
    BY <1>1 DEF refetch
  <2> QED BY <1>1, <2>1, RunSame DEF IInv, HeldOK
<1>2. CASE UNCHANGED vars
  BY <1>1, <1>2, GateSame DEF vars, IInv
<1>3. CASE Step(Reassign)
  BY <1>1, <1>3, ReassignStep DEF Step, IInv
<1>4. CASE Step(Abandon) \/ Step(Evict)
  BY <1>1, <1>4, AbandonEvictStep DEF Step, IInv
<1>5. CASE Step(Tick)
  BY <1>1, <1>5, TickStep DEF Step, IInv
<1>6. CASE \E w \in Callers : Step(Validate(w))
  BY <1>1, <1>6, ValidateStep DEF Step, IInv
<1>7. CASE Push \/ PushAcked
  BY <1>7, PushStep
<1>8. CASE PeerChange
  <2>1. UNCHANGED validator /\ UNCHANGED <<visibility, held, manifest, run, pending, wire>>
    BY <1>8 DEF PeerChange
  <2>2. peers' \subseteq Archives \ {Me}
    BY <1>8 DEF PeerChange, IInv, RunOK
  <2>3. RunOK'
    BY <2>1, <2>2 DEF IInv, RunOK
  <2> QED BY <2>1, <2>3, GateSame DEF IInv, HeldOK
<1>9. CASE RunStarts \/ ShapeRead \/ CoverageRead \/ ReadFails \/ GiveUp
  BY <1>9, RunMoves
<1>10. CASE SendPull
  BY <1>10, SendPullStep
<1>11. CASE PullAnswered \/ PullTimesOut
  BY <1>11, AnswerStep
<1>12. CASE ToGate
  BY <1>12, ToGateStep
<1>13. CASE FromGate
  BY <1>13, FromGateStep
<1> QED BY <1>2, <1>3, <1>4, <1>5, <1>6, <1>7, <1>8, <1>9, <1>10, <1>11, <1>12, <1>13
        DEF Next

\* The parts of PlacementIsSound follow.
LEMMA IInvIsSound == IInv => PlacementIsSound
<1> SUFFICES ASSUME IInv PROVE PlacementIsSound
  OBVIOUS
<1>1. /\ Len(epochs) \in Nat \ {0} /\ Len(since) = Len(epochs)
      /\ \A e \in 1 .. Len(epochs) : since[e] \in Nat
      /\ timing.ttl \in Nat /\ timing.latency \in Nat /\ Horizon \in Nat
      /\ DOMAIN since = 1 .. Len(since)
  BY Lengths, Times, LenProperties DEF IInv, Gate, ChainOK
<1>2. \A w \in Callers : job[w] \in Jobs /\ JobOK(job[w])
  BY DEF IInv, Gate, JobsOK
<1>3. ValidatorTypeOK
  <2>1. \A e \in DOMAIN since : since[e] \in 0 .. Horizon
    BY <1>1 DEF IInv, Gate, ChainOK
  <2>2. /\ epochCache.epoch \in 0 .. Len(epochs) /\ epochCache.age \in 0 .. timing.ttl
        /\ infoCache \in {None, "live", "abandoned"} /\ life \in {"live", "abandoned"}
    BY <1>1 DEF IInv, Gate, CacheOK, ChainOK
  <2>3. \A w \in Callers : /\ job[w].pc \in {"idle", "info", "epoch", "again"} \cup Verdicts
                            /\ job[w].wait \in 0 .. timing.latency
    BY <1>1, <1>2 DEF Jobs, Steps, JobOK
  <2> QED BY <1>1, <2>1, <2>2, <2>3 DEF ValidatorTypeOK
<1>4. TypeOK
  <2>1. held \in [Chunks -> {"none", "good", "wrong"}]
    BY DEF IInv, HeldOK
  <2> QED BY <1>3, <2>1 DEF IInv, RunOK, Runs, TypeOK
<1>5. AcceptedRecently /\ RefusedRecently
  BY <1>2 DEF JobOK, AcceptedRecently, RefusedRecently
<1>6. HeldVerifies
  BY DEF IInv, HeldOK, HeldVerifies
<1>7. NothingPrivateAsked
  BY DEF IInv, RunOK, NothingPrivateAsked
<1> QED BY <1>4, <1>5, <1>6, <1>7 DEF PlacementIsSound

\* However far the chain runs ahead of the caches, whoever fills them and however
\* late an answer comes: a chunk is taken only by an assignment in force within
\* the cache's lifetime and refused only by a re-read one, what is held verifies,
\* and nothing of a Private file is asked for (push_validator.rs, refetch_v2.rs).
THEOREM PlacementSound == Spec => []PlacementIsSound
<1>1. Init /\ [][Next]_vars => []IInv
  BY InitIInv, NextIInv, PTL
<1> QED BY <1>1, IInvIsSound, PTL DEF Spec
=============================================================================
