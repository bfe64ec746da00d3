----------------------- MODULE ArchiveSubmissionsProofs -----------------------
(***************************************************************************)
(* Proofs about ArchiveSubmissions, for any indices, epochs, assignments,  *)
(* batch size, number of tasks and challenges, and any bounds.  IInv is    *)
(* inductive; the properties follow from it.                               *)
(***************************************************************************)
EXTENDS ArchiveSubmissions, FiniteSetTheorems, TLAPS

\* What is about to be claimed is held, from the moment it is planned.
PlannedIsHeld ==
    /\ \A r \in Runs : snapshot[r] \subseteq held /\ left[r] \subseteq held
    /\ \A tx \in mempool : tx[1] = "attest" => tx[3] \subseteq held
    /\ porWork # Nobody => IndexOf[porWork] \in held

\* A nonce is never ahead of the account when it is read, and final is past.
NoncesAreRead ==
    /\ \A r \in Runs : pc[r] \in {"submit", "wait"} => runNonce[r] <= nonce
    /\ porNonce <= nonce
    /\ \A tx \in final : tx[2] < nonce

\* The watcher's row is not newer than the chain, nor its outcome than its row;
\* it works only on an epoch that is not done and has attempts left.
WatcherInOrder ==
    /\ read.epoch <= latest
    /\ state # Nobody => state.epoch <= read.epoch
    /\ pc[Watcher] \notin {"idle", "check"} => ~Entry.done /\ Entry.attempts < MaxAttempts

\* The count the watcher decides on is not above what is attested now.
CountIsPast ==
    pc[Watcher] = "check" /\ read.epoch = latest
        => read.count <= Cardinality(attested[latest])

\* As long as the epoch it read is the latest, whatever the watcher's run has to
\* attest is either still left or attested, and a transaction of the run that is
\* final was executed in that epoch.
RunOnTrack ==
    read.epoch = latest =>
        /\ pc[Watcher] = "nonce" => left[Watcher] = snapshot[Watcher] \cap Assigned[latest]
        /\ pc[Watcher] \in {"submit", "wait"} =>
              /\ snapshot[Watcher] \cap Assigned[latest]
                    \subseteq left[Watcher] \cup attested[latest]
              /\ \A tx \in final : tx[1] = "attest" /\ tx[2] >= runNonce[Watcher]
                                      => tx[3] \subseteq attested[latest]

IInv ==
    /\ TypeOK /\ PlannedIsHeld /\ AttestedIsHeld /\ ProofsAreHeld
    /\ NoncesAreRead /\ NoNonceGap /\ WatcherInOrder /\ CountIsPast
    /\ RunOnTrack /\ DoneIsAttested

-------------------------------------------------------------------------------
(* Lemmas *)

\* Bitmaps are finite, so the chain can count them.
LEMMA BitmapsAreFinite ==
  ASSUME TypeOK
  PROVE  \A e \in Epochs : /\ IsFiniteSet(attested[e]) /\ Cardinality(attested[e]) \in Nat
                           /\ IsFiniteSet(Assigned[e] \cap held)
<1> SUFFICES ASSUME NEW e \in Epochs
             PROVE  /\ IsFiniteSet(attested[e]) /\ Cardinality(attested[e]) \in Nat
                    /\ IsFiniteSet(Assigned[e] \cap held)
  OBVIOUS
<1>1. attested[e] \subseteq Indices /\ Assigned[e] \cap held \subseteq Indices
  BY DEF TypeOK
<1>2. IsFiniteSet(attested[e]) /\ IsFiniteSet(Assigned[e] \cap held)
  BY <1>1, SubmissionAssumption, FS_Subset
<1> QED
  BY <1>2, FS_CardinalityType

\* A bitmap that only holds assigned and held indices, and as many as there are,
\* holds all of them.
LEMMA EnoughIsAll ==
  ASSUME TypeOK, AttestedIsHeld, NEW e \in Epochs,
         Cardinality(attested[e]) >= Cardinality(Assigned[e] \cap held)
  PROVE  Assigned[e] \cap held \subseteq attested[e]
<1>1. attested[e] \subseteq Assigned[e] \cap held
  BY DEF AttestedIsHeld
<1>2. IsFiniteSet(Assigned[e] \cap held)
  BY BitmapsAreFinite
<1>3. Cardinality(Assigned[e] \cap held) \in Nat /\ Cardinality(attested[e]) \in Nat
  BY <1>2, BitmapsAreFinite, FS_CardinalityType
<1> QED
  BY <1>1, <1>2, <1>3, FS_Subset

\* The entry the watcher works on is of the epoch it read.
LEMMA EntryTyped ==
  ASSUME TypeOK
  PROVE  Entry \in EpochState /\ Entry.epoch = read.epoch
  BY SubmissionAssumption DEF TypeOK, Entry, EpochState

\* What a run sends.
LEMMA TxOfRun ==
  ASSUME NEW r \in Runs
  PROVE  /\ TxOf(r)[1] = "attest" /\ TxOf(r)[2] = runNonce[r]
         /\ TxOf(r)[3] = Batch(left[r]) /\ Batch(left[r]) \subseteq left[r]
  BY DEF TxOf, AttestTx, Batch

\* A run that ends releases the lock, and the outcome the watcher stores fits.
LEMMA EndTyped ==
  ASSUME TypeOK, WatcherInOrder, NEW r \in Runs, pc[r] \in Locked, NEW ok \in BOOLEAN,
         End(r, ok)
  PROVE  /\ pc' = [pc EXCEPT ![r] = "idle"] /\ lock' = Nobody
         /\ pc' \in [Runs -> RunSteps] /\ \A q \in Runs : pc'[q] \notin Locked
         /\ snapshot' \in [Runs -> SUBSET Indices] /\ left' \in [Runs -> SUBSET Indices]
         /\ \A q \in Runs : snapshot'[q] \subseteq snapshot[q] /\ left'[q] \subseteq left[q]
         /\ snapshot'[Watcher] = snapshot[Watcher]
         /\ runNonce' \in [Runs -> Nat]
         /\ state' \in EpochState \cup {Nobody}
         /\ state' # Nobody => state'.epoch <= read.epoch
<1> USE SubmissionAssumption DEF Runs
<1>1. Entry \in EpochState /\ read.epoch \in Epochs
  BY EntryTyped DEF TypeOK
<1>2. r = Watcher => Entry.attempts + 1 \in 0..MaxAttempts
  BY <1>1 DEF WatcherInOrder, EpochState, Locked
<1>3. /\ state' \in EpochState \cup {Nobody}
      /\ state' # Nobody => state'.epoch <= read.epoch
  BY <1>1, <1>2 DEF End, TypeOK, EpochState, WatcherInOrder, Epochs
<1>4. pc' \in [Runs -> RunSteps] /\ \A q \in Runs : pc'[q] \notin Locked
  BY DEF End, TypeOK, RunSteps, Locked
<1>5. /\ snapshot' \in [Runs -> SUBSET Indices] /\ left' \in [Runs -> SUBSET Indices]
      /\ \A q \in Runs : snapshot'[q] \subseteq snapshot[q] /\ left'[q] \subseteq left[q]
      /\ snapshot'[Watcher] = snapshot[Watcher]
      /\ runNonce' \in [Runs -> Nat]
  BY DEF End, TypeOK
<1> QED
  BY <1>3, <1>4, <1>5 DEF End

\* The responder remembers at most MaxResponded challenges.
LEMMA RememberTyped ==
  ASSUME TypeOK, NEW x \in Challenges
  PROVE  Remember(x) \in Seq(Challenges) /\ Len(Remember(x)) <= MaxResponded
<1>1. CASE Len(responded) >= MaxResponded
  <2>1. responded # <<>> /\ Len(responded) = MaxResponded
    BY <1>1, SubmissionAssumption DEF TypeOK
  <2>2. Tail(responded) \in Seq(Challenges) /\ Len(Tail(responded)) = Len(responded) - 1
    BY <2>1 DEF TypeOK
  <2> QED
    BY <1>1, <2>1, <2>2, SubmissionAssumption DEF Remember
<1>2. CASE ~(Len(responded) >= MaxResponded)
  BY <1>2, SubmissionAssumption DEF TypeOK, Remember
<1> QED
  BY <1>1, <1>2

\* Steps that change nothing.
LEMMA Stutters == IInv /\ UNCHANGED vars => IInv'
  BY DEF vars, IInv, TypeOK, PlannedIsHeld, AttestedIsHeld, ProofsAreHeld, NoncesAreRead,
         NoNonceGap, WatcherInOrder, CountIsPast, RunOnTrack, DoneIsAttested, Entry

\* A run that ends, for whatever reason, leaves the invariant as it was, provided
\* that the outcome the watcher stores is true.
LEMMA RunEnds ==
  ASSUME IInv, NEW r \in Runs, pc[r] \in Locked, NEW ok \in BOOLEAN, End(r, ok),
         UNCHANGED <<row, latest, abandoned, attested, nonce, final, active, proven, held,
                     read, notV2, por, spawns>>,
         mempool' \in {mempool, mempool \cup {TxOf(r)}},
         mempool' # mempool => pc[r] = "submit",
         faults' \in 0..MaxFaults, DoneIsAttested'
  PROVE  IInv'
<1> USE SubmissionAssumption DEF Runs, por
<1>1. \A tx \in mempool' : tx \in mempool \/ (tx = TxOf(r) /\ pc[r] = "submit")
  OBVIOUS
<1>2. Batch(left[r]) \subseteq held /\ left[r] \subseteq Indices /\ runNonce[r] \in Nat
  BY TxOfRun DEF IInv, TypeOK, PlannedIsHeld
<1>3. TypeOK'
  <2>1. \A tx \in mempool' \cup final' :
          /\ tx[2] \in Nat
          /\ \/ tx[1] = "attest" /\ tx[3] \in SUBSET Indices
             \/ tx[1] = "proof" /\ tx[3] \in Challenges
    BY <1>1, <1>2, TxOfRun DEF IInv, TypeOK
  <2>2. /\ pc' \in [Runs -> RunSteps] /\ lock' = Nobody
        /\ \A q \in Runs : pc'[q] \in Locked <=> lock' = q
        /\ snapshot' \in [Runs -> SUBSET Indices] /\ left' \in [Runs -> SUBSET Indices]
        /\ runNonce' \in [Runs -> Nat] /\ state' \in EpochState \cup {Nobody}
    BY EndTyped DEF IInv
  <2> QED
    BY <2>1, <2>2 DEF IInv, TypeOK
<1>4. PlannedIsHeld'
  BY <1>1, <1>2, TxOfRun, EndTyped DEF IInv, PlannedIsHeld
<1>5. AttestedIsHeld' /\ ProofsAreHeld'
  BY <1>1, TxOfRun DEF IInv, AttestedIsHeld, ProofsAreHeld
<1>6. NoncesAreRead'
  BY EndTyped DEF IInv, TypeOK, NoncesAreRead, Locked
<1>7. NoNonceGap'
  BY <1>1, TxOfRun DEF IInv, NoncesAreRead, NoNonceGap
<1>8. pc'[Watcher] \in Locked => FALSE
  BY EndTyped DEF IInv
<1>9. WatcherInOrder'
  <2>1. CASE r = Watcher
    BY <2>1, EndTyped DEF IInv, TypeOK, WatcherInOrder
  <2>2. CASE r # Watcher
    BY <2>2, EndTyped DEF IInv, TypeOK, End, WatcherInOrder, Entry
  <2> QED
    BY <2>1, <2>2
<1>10. CountIsPast' /\ RunOnTrack'
  BY <1>8, EndTyped DEF IInv, TypeOK, CountIsPast, RunOnTrack, Locked
<1> QED
  BY <1>3, <1>4, <1>5, <1>6, <1>7, <1>9, <1>10 DEF IInv

\* Every step preserves the invariant.
LEMMA StepPreserves == IInv /\ [Next]_vars => IInv'
<1> SUFFICES ASSUME IInv, [Next]_vars PROVE IInv'
  OBVIOUS
<1> USE SubmissionAssumption DEF chain, watch, por, runs, Runs
<1>1. ASSUME Register PROVE IInv'
  <2>1. TypeOK'
    BY <1>1 DEF IInv, Register, TypeOK, RunSteps, Locked, EpochState
  <2>2. PlannedIsHeld' /\ AttestedIsHeld' /\ ProofsAreHeld'
    BY <1>1 DEF IInv, Register, PlannedIsHeld, AttestedIsHeld, ProofsAreHeld, TypeOK
  <2>3. NoncesAreRead' /\ NoNonceGap'
    BY <1>1 DEF IInv, Register, NoncesAreRead, NoNonceGap, TypeOK, Locked
  <2>4. WatcherInOrder' /\ CountIsPast'
    BY <1>1 DEF IInv, Register, WatcherInOrder, Entry, CountIsPast, TypeOK, Locked
  <2>5. RunOnTrack' /\ DoneIsAttested'
    BY <1>1 DEF IInv, Register, RunOnTrack, DoneIsAttested, TypeOK
  <2> QED
    BY <2>1, <2>2, <2>3, <2>4, <2>5 DEF IInv
<1>2. ASSUME Reassign PROVE IInv'
  <2>1. /\ latest' = latest + 1 /\ latest \in Epochs /\ read.epoch \in Epochs
        /\ read.epoch <= latest
    BY <1>2 DEF Reassign, IInv, TypeOK, WatcherInOrder
  <2>2. latest' # read.epoch /\ (state # Nobody => state.epoch # latest')
    BY <2>1 DEF IInv, TypeOK, WatcherInOrder, Epochs, EpochState
  <2>3. TypeOK'
    BY <1>2 DEF IInv, Reassign, TypeOK, Epochs
  <2>4. PlannedIsHeld' /\ AttestedIsHeld' /\ ProofsAreHeld'
    BY <1>2 DEF IInv, Reassign, PlannedIsHeld, AttestedIsHeld, ProofsAreHeld
  <2>5. NoncesAreRead' /\ NoNonceGap'
    BY <1>2 DEF IInv, Reassign, NoncesAreRead, NoNonceGap
  <2>6. WatcherInOrder'
    BY <1>2, <2>1 DEF IInv, Reassign, WatcherInOrder, Entry, Epochs
  <2>7. CountIsPast' /\ RunOnTrack' /\ DoneIsAttested'
    BY <1>2, <2>2 DEF Reassign, CountIsPast, RunOnTrack, DoneIsAttested
  <2> QED
    BY <2>3, <2>4, <2>5, <2>6, <2>7 DEF IInv
<1>3. ASSUME Abandon PROVE IInv'
  <2>1. TypeOK'
    BY <1>3 DEF IInv, Abandon, TypeOK, RunSteps, Locked, EpochState
  <2>2. PlannedIsHeld' /\ AttestedIsHeld' /\ ProofsAreHeld'
    BY <1>3 DEF IInv, Abandon, PlannedIsHeld, AttestedIsHeld, ProofsAreHeld, TypeOK
  <2>3. NoncesAreRead' /\ NoNonceGap'
    BY <1>3 DEF IInv, Abandon, NoncesAreRead, NoNonceGap, TypeOK, Locked
  <2>4. WatcherInOrder' /\ CountIsPast'
    BY <1>3 DEF IInv, Abandon, WatcherInOrder, Entry, CountIsPast, TypeOK, Locked
  <2>5. RunOnTrack' /\ DoneIsAttested'
    BY <1>3 DEF IInv, Abandon, RunOnTrack, DoneIsAttested, TypeOK
  <2> QED
    BY <2>1, <2>2, <2>3, <2>4, <2>5 DEF IInv
<1>4. ASSUME NEW x \in Challenges, IssueChallenge(x) PROVE IInv'
  <2>1. TypeOK'
    BY <1>4 DEF IInv, IssueChallenge, TypeOK, RunSteps, Locked, EpochState
  <2>2. PlannedIsHeld' /\ AttestedIsHeld' /\ ProofsAreHeld'
    BY <1>4 DEF IInv, IssueChallenge, PlannedIsHeld, AttestedIsHeld, ProofsAreHeld, TypeOK
  <2>3. NoncesAreRead' /\ NoNonceGap'
    BY <1>4 DEF IInv, IssueChallenge, NoncesAreRead, NoNonceGap, TypeOK, Locked
  <2>4. WatcherInOrder' /\ CountIsPast'
    BY <1>4 DEF IInv, IssueChallenge, WatcherInOrder, Entry, CountIsPast, TypeOK, Locked
  <2>5. RunOnTrack' /\ DoneIsAttested'
    BY <1>4 DEF IInv, IssueChallenge, RunOnTrack, DoneIsAttested, TypeOK
  <2> QED
    BY <2>1, <2>2, <2>3, <2>4, <2>5 DEF IInv
<1>5. ASSUME NEW tx \in mempool, Execute(tx) PROVE IInv'
  <2>1. latest \in Epochs /\ attested' \in [Epochs -> SUBSET Indices]
    BY <1>5 DEF IInv, TypeOK, Execute, Admissible
  <2>2. /\ \A e \in Epochs : attested[e] \subseteq attested'[e]
        /\ tx[1] = "attest" /\ Admissible(tx) => tx[3] \subseteq attested'[latest]
    BY <1>5, <2>1 DEF IInv, TypeOK, Execute
  <2>3. /\ nonce \in Nat /\ nonce' = nonce + 1 /\ final' \subseteq final \cup {tx}
        /\ tx[2] = nonce
    BY <1>5 DEF IInv, TypeOK, Execute
  <2>4. tx \in final' => Admissible(tx)
    BY <1>5, <2>3 DEF IInv, NoncesAreRead, Execute
  <2>5. TypeOK'
    BY <1>5, <2>1, <2>3 DEF IInv, TypeOK, Execute
  <2>6. PlannedIsHeld' /\ AttestedIsHeld' /\ ProofsAreHeld'
    BY <1>5
       DEF IInv, TypeOK, Execute, Admissible, PlannedIsHeld, AttestedIsHeld, ProofsAreHeld
  <2>7. NoncesAreRead' /\ NoNonceGap'
    BY <1>5, <2>3 DEF IInv, TypeOK, Execute, NoncesAreRead, NoNonceGap
  <2>8. WatcherInOrder'
    BY <1>5 DEF IInv, Execute, WatcherInOrder, Entry
  <2>9. CountIsPast'
    <3>1. attested'[latest] \subseteq Indices
      BY <2>1
    <3>2. IsFiniteSet(attested'[latest]) /\ Cardinality(attested'[latest]) \in Nat
      BY <3>1, FS_Subset, FS_CardinalityType
    <3>3. Cardinality(attested[latest]) <= Cardinality(attested'[latest])
      BY <2>1, <2>2, <3>2, FS_Subset
    <3>4. Cardinality(attested[latest]) \in Nat
      BY <2>1, BitmapsAreFinite DEF IInv
    <3> QED
      BY <1>5, <3>2, <3>3, <3>4 DEF IInv, TypeOK, Execute, CountIsPast
  <2>10. RunOnTrack'
    BY <1>5, <2>1, <2>2, <2>3, <2>4 DEF IInv, TypeOK, Execute, RunOnTrack
  <2>11. DoneIsAttested'
    BY <1>5, <2>1, <2>2 DEF IInv, Execute, DoneIsAttested
  <2> QED
    BY <2>5, <2>6, <2>7, <2>8, <2>9, <2>10, <2>11 DEF IInv
<1>6. ASSUME NEW tx \in mempool, Evict(tx) PROVE IInv'
  <2>1. mempool' \subseteq mempool /\ faults' \in 0..MaxFaults
    BY <1>6 DEF Evict, Fault, IInv, TypeOK
  <2>2. TypeOK'
    BY <1>6, <2>1 DEF IInv, TypeOK, Evict
  <2>3. PlannedIsHeld' /\ AttestedIsHeld' /\ ProofsAreHeld'
    BY <1>6, <2>1 DEF IInv, Evict, PlannedIsHeld, AttestedIsHeld, ProofsAreHeld
  <2>4. NoncesAreRead' /\ NoNonceGap'
    BY <1>6, <2>1 DEF IInv, Evict, NoncesAreRead, NoNonceGap
  <2>5. WatcherInOrder' /\ CountIsPast' /\ RunOnTrack' /\ DoneIsAttested'
    BY <1>6 DEF IInv, Evict, WatcherInOrder, CountIsPast, RunOnTrack, DoneIsAttested, Entry
  <2> QED
    BY <2>2, <2>3, <2>4, <2>5 DEF IInv
<1>7. ASSUME NEW i \in Indices, Push(i) PROVE IInv'
  <2>1. TypeOK'
    BY <1>7 DEF IInv, Push, TypeOK, RunSteps, Locked, EpochState
  <2>2. PlannedIsHeld' /\ AttestedIsHeld' /\ ProofsAreHeld'
    BY <1>7 DEF IInv, Push, PlannedIsHeld, AttestedIsHeld, ProofsAreHeld, TypeOK
  <2>3. NoncesAreRead' /\ NoNonceGap'
    BY <1>7 DEF IInv, Push, NoncesAreRead, NoNonceGap, TypeOK, Locked
  <2>4. WatcherInOrder' /\ CountIsPast'
    BY <1>7 DEF IInv, Push, WatcherInOrder, Entry, CountIsPast, TypeOK, Locked
  <2>5. RunOnTrack' /\ DoneIsAttested'
    BY <1>7 DEF IInv, Push, RunOnTrack, DoneIsAttested, TypeOK
  <2> QED
    BY <2>1, <2>2, <2>3, <2>4, <2>5 DEF IInv
<1>8. ASSUME NEW t \in Tasks, Spawn(t) PROVE IInv'
  <2>1. TypeOK'
    BY <1>8 DEF IInv, Spawn, TypeOK, RunSteps, Locked, EpochState
  <2>2. PlannedIsHeld' /\ AttestedIsHeld' /\ ProofsAreHeld'
    BY <1>8 DEF IInv, Spawn, PlannedIsHeld, AttestedIsHeld, ProofsAreHeld, TypeOK
  <2>3. NoncesAreRead' /\ NoNonceGap'
    BY <1>8 DEF IInv, Spawn, NoncesAreRead, NoNonceGap, TypeOK, Locked
  <2>4. WatcherInOrder' /\ CountIsPast'
    BY <1>8 DEF IInv, Spawn, WatcherInOrder, Entry, CountIsPast, TypeOK, Locked
  <2>5. RunOnTrack' /\ DoneIsAttested'
    BY <1>8 DEF IInv, Spawn, RunOnTrack, DoneIsAttested, TypeOK
  <2> QED
    BY <2>1, <2>2, <2>3, <2>4, <2>5 DEF IInv
<1>9. ASSUME NEW r \in Runs, Acquire(r) PROVE IInv'
  <2>1. TypeOK'
    BY <1>9 DEF IInv, Acquire, TypeOK, RunSteps, Locked, EpochState
  <2>2. PlannedIsHeld' /\ AttestedIsHeld' /\ ProofsAreHeld'
    BY <1>9 DEF IInv, Acquire, PlannedIsHeld, AttestedIsHeld, ProofsAreHeld, TypeOK
  <2>3. NoncesAreRead' /\ NoNonceGap'
    BY <1>9 DEF IInv, Acquire, NoncesAreRead, NoNonceGap, TypeOK, Locked
  <2>4. WatcherInOrder' /\ CountIsPast'
    BY <1>9 DEF IInv, Acquire, WatcherInOrder, Entry, CountIsPast, TypeOK, Locked
  <2>5. RunOnTrack' /\ DoneIsAttested'
    BY <1>9 DEF IInv, Acquire, RunOnTrack, DoneIsAttested, TypeOK
  <2> QED
    BY <2>1, <2>2, <2>3, <2>4, <2>5 DEF IInv
<1>10. ASSUME NEW r \in Runs, ReadEpoch(r) PROVE IInv'
  <2>1. TypeOK'
    BY <1>10 DEF IInv, ReadEpoch, TypeOK, RunSteps, Locked, EpochState
  <2>2. PlannedIsHeld' /\ AttestedIsHeld' /\ ProofsAreHeld'
    BY <1>10 DEF IInv, ReadEpoch, PlannedIsHeld, AttestedIsHeld, ProofsAreHeld, TypeOK
  <2>3. NoncesAreRead' /\ NoNonceGap'
    BY <1>10 DEF IInv, ReadEpoch, NoncesAreRead, NoNonceGap, TypeOK, Locked
  <2>4. WatcherInOrder' /\ CountIsPast'
    BY <1>10 DEF IInv, ReadEpoch, WatcherInOrder, Entry, CountIsPast, TypeOK, Locked
  <2>5. RunOnTrack' /\ DoneIsAttested'
    BY <1>10 DEF IInv, ReadEpoch, RunOnTrack, DoneIsAttested, TypeOK
  <2> QED
    BY <2>1, <2>2, <2>3, <2>4, <2>5 DEF IInv
<1>11. ASSUME NEW r \in Runs, ReadNonce(r) PROVE IInv'
  <2>1. CASE left[r] = {}
    <3>1. /\ pc[r] \in Locked /\ End(r, TRUE)
          /\ UNCHANGED <<chain, held, read, notV2, por, spawns, faults>>
      BY <1>11, <2>1 DEF ReadNonce, Locked
    <3>2. ASSUME r = Watcher, read.epoch = latest
          PROVE  snapshot[Watcher] \cap Assigned[latest] \subseteq attested[latest]
      BY <1>11, <2>1, <3>2 DEF IInv, ReadNonce, RunOnTrack
    <3>3. DoneIsAttested'
      BY <3>1, <3>2, EndTyped DEF IInv, End, DoneIsAttested
    <3>4. /\ UNCHANGED <<row, latest, abandoned, attested, nonce, final, active, proven,
                         held, read, notV2, por, spawns>>
          /\ mempool' = mempool /\ faults' \in 0..MaxFaults
      BY <3>1 DEF IInv, TypeOK
    <3> HIDE DEF chain, por, Runs
    <3> QED
      BY <3>1, <3>3, <3>4, RunEnds
  <2>2. CASE left[r] # {}
    <3>1. /\ pc[r] = "nonce" /\ pc' = [pc EXCEPT ![r] = "submit"]
          /\ runNonce' = [runNonce EXCEPT ![r] = nonce]
          /\ UNCHANGED <<lock, state, snapshot, left, chain, held, read, notV2, por, spawns,
                         faults>>
      BY <1>11, <2>2 DEF ReadNonce
    <3>2. TypeOK'
      BY <3>1 DEF IInv, TypeOK, RunSteps, Locked
    <3>3. PlannedIsHeld' /\ AttestedIsHeld' /\ ProofsAreHeld' /\ NoNonceGap'
      BY <3>1 DEF IInv, PlannedIsHeld, AttestedIsHeld, ProofsAreHeld, NoNonceGap
    <3>4. NoncesAreRead'
      BY <3>1 DEF IInv, TypeOK, NoncesAreRead
    <3>5. WatcherInOrder' /\ CountIsPast' /\ DoneIsAttested'
      BY <3>1 DEF IInv, TypeOK, WatcherInOrder, CountIsPast, DoneIsAttested, Entry
    <3>6. RunOnTrack'
      BY <3>1 DEF IInv, TypeOK, RunOnTrack, NoncesAreRead
    <3> QED
      BY <3>2, <3>3, <3>4, <3>5, <3>6 DEF IInv
  <2> QED
    BY <2>1, <2>2
<1>12. ASSUME NEW r \in Runs, Submit(r) PROVE IInv'
  <2>1. /\ mempool' = mempool \cup {TxOf(r)} /\ runNonce[r] <= nonce
        /\ Batch(left[r]) \subseteq held
    BY <1>12, TxOfRun DEF Submit, IInv, NoncesAreRead, PlannedIsHeld
  <2>2. TypeOK'
    BY <1>12, <2>1, TxOfRun DEF IInv, TypeOK, Submit, RunSteps, Locked
  <2>3. PlannedIsHeld' /\ AttestedIsHeld' /\ ProofsAreHeld'
    BY <1>12, <2>1, TxOfRun DEF IInv, Submit, PlannedIsHeld, AttestedIsHeld, ProofsAreHeld
  <2>4. NoncesAreRead' /\ NoNonceGap'
    BY <1>12, <2>1, TxOfRun DEF IInv, TypeOK, Submit, NoncesAreRead, NoNonceGap
  <2>5. WatcherInOrder' /\ CountIsPast' /\ RunOnTrack' /\ DoneIsAttested'
    BY <1>12
       DEF IInv, TypeOK, Submit, WatcherInOrder, CountIsPast, RunOnTrack, DoneIsAttested,
           Entry
  <2> QED
    BY <2>2, <2>3, <2>4, <2>5 DEF IInv
<1>13. ASSUME NEW r \in Runs, BatchFinalized(r) PROVE IInv'
  <2>1. /\ pc[r] = "wait" /\ TxOf(r) \in final /\ runNonce[r] < nonce
        /\ UNCHANGED <<chain, held, read, notV2, por, spawns, faults>>
    BY <1>13, TxOfRun DEF BatchFinalized, IInv, NoncesAreRead
  <2>2. r = Watcher /\ read.epoch = latest => Batch(left[r]) \subseteq attested[latest]
    <3>1. /\ TxOf(r)[1] = "attest" /\ TxOf(r)[2] = runNonce[r]
          /\ TxOf(r)[3] = Batch(left[r]) /\ runNonce[r] \in Nat
      BY TxOfRun DEF IInv, TypeOK
    <3>2. runNonce[r] >= runNonce[r]
      BY <3>1
    <3> QED
      BY <2>1, <3>1, <3>2 DEF IInv, RunOnTrack
  <2>3. CASE left[r] = Batch(left[r])
    <3>1. pc[r] \in Locked /\ End(r, TRUE)
      BY <1>13, <2>1, <2>3 DEF BatchFinalized, Locked
    <3>2. DoneIsAttested'
      BY <2>1, <2>2, <2>3, <3>1, EndTyped DEF IInv, End, DoneIsAttested, RunOnTrack
    <3>3. /\ UNCHANGED <<row, latest, abandoned, attested, nonce, final, active, proven,
                         held, read, notV2, por, spawns>>
          /\ mempool' = mempool /\ faults' \in 0..MaxFaults
      BY <2>1 DEF IInv, TypeOK
    <3> HIDE DEF chain, por, Runs
    <3> QED
      BY <3>1, <3>2, <3>3, RunEnds
  <2>4. CASE left[r] # Batch(left[r])
    <3>1. /\ pc' = [pc EXCEPT ![r] = "submit"]
          /\ left' = [left EXCEPT ![r] = @ \ Batch(@)]
          /\ runNonce' = [runNonce EXCEPT ![r] = @ + 1]
          /\ UNCHANGED <<lock, state, snapshot>>
      BY <1>13, <2>4 DEF BatchFinalized
    <3>2. TypeOK'
      <4>1. /\ pc' \in [Runs -> RunSteps] /\ left' \in [Runs -> SUBSET Indices]
            /\ runNonce' \in [Runs -> Nat]
        BY <3>1 DEF IInv, TypeOK, RunSteps
      <4>2. \A q \in Runs : pc'[q] \in Locked <=> pc[q] \in Locked
        BY <2>1, <3>1 DEF IInv, TypeOK, Locked
      <4> QED
        BY <2>1, <3>1, <4>1, <4>2 DEF IInv, TypeOK
    <3>3. PlannedIsHeld' /\ AttestedIsHeld' /\ ProofsAreHeld' /\ NoNonceGap'
      BY <2>1, <3>1
         DEF IInv, TypeOK, PlannedIsHeld, AttestedIsHeld, ProofsAreHeld, NoNonceGap
    <3>4. NoncesAreRead'
      BY <2>1, <3>1 DEF IInv, TypeOK, NoncesAreRead
    <3>5. WatcherInOrder' /\ CountIsPast' /\ DoneIsAttested'
      BY <2>1, <3>1 DEF IInv, TypeOK, WatcherInOrder, CountIsPast, DoneIsAttested, Entry
    <3>6. RunOnTrack'
      <4>1. CASE r # Watcher
        BY <2>1, <3>1, <4>1 DEF IInv, TypeOK, RunOnTrack
      <4>2. CASE r = Watcher
        <5>1. /\ pc[Watcher] = "wait" /\ pc'[Watcher] = "submit"
              /\ runNonce'[Watcher] = runNonce[Watcher] + 1
              /\ left'[Watcher] = left[Watcher] \ Batch(left[Watcher])
              /\ runNonce[Watcher] \in Nat
          BY <2>1, <3>1, <4>2 DEF IInv, TypeOK
        <5>2. \A tx \in final : tx[2] >= runNonce[Watcher] + 1 => tx[2] >= runNonce[Watcher]
          BY <5>1 DEF IInv, TypeOK
        <5> QED
          BY <2>1, <2>2, <3>1, <4>2, <5>1, <5>2 DEF IInv, RunOnTrack
      <4> QED
        BY <4>1, <4>2
    <3> QED
      BY <3>2, <3>3, <3>4, <3>5, <3>6 DEF IInv
  <2> QED
    BY <2>3, <2>4
<1>14. ASSUME NEW r \in Runs, BatchRejected(r) PROVE IInv'
  <2>1. /\ pc[r] \in Locked /\ End(r, FALSE)
        /\ UNCHANGED <<chain, held, read, notV2, por, spawns, faults>>
    BY <1>14 DEF BatchRejected, Locked
  <2>2. DoneIsAttested'
    BY <2>1, EndTyped DEF IInv, End, DoneIsAttested
  <2>3. /\ UNCHANGED <<row, latest, abandoned, attested, nonce, final, active, proven, held,
                       read, notV2, por, spawns>>
        /\ mempool' = mempool /\ faults' \in 0..MaxFaults
    BY <2>1 DEF IInv, TypeOK
  <2> HIDE DEF chain, por, Runs
  <2> QED
    BY <2>1, <2>2, <2>3, RunEnds
<1>15. ASSUME NEW r \in Runs, RunFails(r) PROVE IInv'
  <2>1. faults' \in 0..MaxFaults
    BY <1>15 DEF RunFails, Fault, IInv, TypeOK
  <2>2. /\ pc[r] \in Locked /\ End(r, FALSE)
        /\ mempool' \in {mempool, mempool \cup {TxOf(r)}}
        /\ (mempool' # mempool => pc[r] = "submit")
        /\ UNCHANGED <<row, latest, abandoned, attested, nonce, final, active, proven, held,
                       read, notV2, por, spawns>>
    BY <1>15 DEF RunFails
  <2>3. DoneIsAttested'
    BY <2>2, EndTyped DEF IInv, End, DoneIsAttested
  <2> HIDE DEF por, Runs
  <2> QED
    BY <2>2, <2>3, <2>1, RunEnds
<1>16. ASSUME WatchRead PROVE IInv'
  <2>1. /\ Watcher \in Runs /\ latest \in Epochs /\ Cardinality(attested[latest]) \in Nat
        /\ pc[Watcher] = "idle" /\ (state # Nobody => state.epoch <= latest)
    <3>1. latest \in Epochs /\ Watcher \in Runs /\ pc[Watcher] = "idle"
      BY <1>16 DEF WatchRead, IInv, TypeOK
    <3>2. Cardinality(attested[latest]) \in Nat
      BY <3>1, BitmapsAreFinite DEF IInv
    <3>3. ASSUME state # Nobody PROVE state.epoch <= latest
      <4>1. state.epoch \in Nat /\ read.epoch \in Nat /\ latest \in Nat
        BY <3>3 DEF IInv, TypeOK, EpochState, Epochs
      <4> QED
        BY <3>3, <4>1 DEF IInv, WatcherInOrder
    <3> QED
      BY <3>1, <3>2, <3>3
  <2>2. /\ pc' \in {pc, [pc EXCEPT ![Watcher] = "check"]}
        /\ read' \in {read, [epoch |-> latest, count |-> Cardinality(attested[latest])]}
        /\ pc' # pc => read' = [epoch |-> latest, count |-> Cardinality(attested[latest])]
        /\ notV2' \in BOOLEAN
        /\ UNCHANGED <<chain, held, snapshot, left, runNonce, lock, state, por, spawns,
                       faults>>
    BY <1>16 DEF WatchRead, IInv, TypeOK
  <2>3. pc'[Watcher] \in {"idle", "check"}
    BY <2>1, <2>2 DEF IInv, TypeOK
  <2>4. TypeOK'
    BY <2>1, <2>2 DEF IInv, TypeOK, RunSteps, Locked
  <2>5. PlannedIsHeld' /\ AttestedIsHeld' /\ ProofsAreHeld'
    BY <2>2 DEF IInv, PlannedIsHeld, AttestedIsHeld, ProofsAreHeld
  <2>6. NoncesAreRead' /\ NoNonceGap'
    BY <2>1, <2>2 DEF IInv, TypeOK, NoncesAreRead, NoNonceGap
  <2>7. WatcherInOrder'
    BY <2>1, <2>2, <2>3 DEF IInv, TypeOK, WatcherInOrder, Epochs
  <2>8. CountIsPast'
    BY <2>1, <2>2 DEF IInv, CountIsPast
  <2>9. RunOnTrack' /\ DoneIsAttested'
    BY <2>2, <2>3 DEF IInv, RunOnTrack, DoneIsAttested
  <2> QED
    BY <2>4, <2>5, <2>6, <2>7, <2>8, <2>9 DEF IInv
<1>17. ASSUME WatchSkip PROVE IInv'
  BY <1>17, Stutters DEF WatchSkip
<1>18. ASSUME WatchDecide PROVE IInv'
  <2>1. /\ Watcher \in Runs /\ Entry \in EpochState /\ Entry.epoch = read.epoch
        /\ pc[Watcher] = "check"
        /\ read.epoch \in Epochs /\ latest \in Epochs
        /\ UNCHANGED <<chain, held, left, runNonce, lock, read, notV2, por, spawns, faults>>
    BY <1>18, EntryTyped DEF WatchDecide, IInv, TypeOK
  <2>2. CASE pc' = [pc EXCEPT ![Watcher] = "idle"] /\ UNCHANGED <<state, snapshot>>
    BY <2>1, <2>2
       DEF IInv, TypeOK, RunSteps, Locked, PlannedIsHeld, AttestedIsHeld, ProofsAreHeld,
       NoncesAreRead, NoNonceGap, WatcherInOrder, CountIsPast, RunOnTrack, DoneIsAttested
  <2>3. ASSUME ~Entry.done, Entry.attempts < MaxAttempts,
               snapshot' = [snapshot EXCEPT ![Watcher] = held],
               pc' \in {[pc EXCEPT ![Watcher] = "idle"], [pc EXCEPT ![Watcher] = "lock"]},
               state' \in {state, [Entry EXCEPT !.done = TRUE]},
               pc'[Watcher] = "lock" => state' = state,
               DoneIsAttested'
        PROVE  IInv'
    <3>1. /\ [Entry EXCEPT !.done = TRUE] \in EpochState
          /\ [Entry EXCEPT !.done = TRUE].epoch = read.epoch
      BY <2>1 DEF EpochState
    <3>2. TypeOK'
      <4>1. pc' \in [Runs -> RunSteps] /\ snapshot' \in [Runs -> SUBSET Indices]
        BY <2>1, <2>3 DEF IInv, TypeOK, RunSteps
      <4>2. \A r \in Runs : pc'[r] \in Locked <=> pc[r] \in Locked
        BY <2>1, <2>3 DEF IInv, TypeOK, Locked
      <4>3. state' \in EpochState \cup {Nobody}
        BY <2>3, <3>1 DEF IInv, TypeOK
      <4> QED
        BY <2>1, <4>1, <4>2, <4>3 DEF IInv, TypeOK
    <3>3. /\ PlannedIsHeld' /\ AttestedIsHeld' /\ ProofsAreHeld' /\ NoncesAreRead'
          /\ NoNonceGap'
      BY <2>1, <2>3
         DEF IInv, TypeOK, PlannedIsHeld, AttestedIsHeld, ProofsAreHeld, NoncesAreRead,
             NoNonceGap
    <3>4. WatcherInOrder'
      <4>1. state' # Nobody => state'.epoch <= read.epoch
        <5>1. read.epoch <= read.epoch
          BY <2>1 DEF Epochs
        <5>2. CASE state' = state
          BY <2>1, <5>2 DEF IInv, WatcherInOrder
        <5>3. CASE state' = [Entry EXCEPT !.done = TRUE]
          BY <3>1, <5>1, <5>3
        <5> QED
          BY <2>3, <5>2, <5>3
      <4>2. CASE pc'[Watcher] = "lock"
        <5>1. Entry' = Entry
          BY <2>1, <2>3, <4>2 DEF Entry
        <5> QED
          BY <2>1, <2>3, <4>1, <5>1 DEF IInv, WatcherInOrder
      <4>3. CASE pc'[Watcher] # "lock"
        <5>1. pc'[Watcher] = "idle"
          BY <2>1, <2>3, <4>3 DEF IInv, TypeOK
        <5> QED
          BY <2>1, <4>1, <5>1 DEF IInv, WatcherInOrder
      <4> QED
        BY <4>2, <4>3
    <3>5. CountIsPast' /\ RunOnTrack'
      BY <2>1, <2>3 DEF IInv, TypeOK, CountIsPast, RunOnTrack
    <3> QED
      BY <2>3, <3>2, <3>3, <3>4, <3>5 DEF IInv
  <2>4. ASSUME ~Entry.done, Entry.attempts < MaxAttempts,
               snapshot' = [snapshot EXCEPT ![Watcher] = held],
               AlreadyAttested, pc' = [pc EXCEPT ![Watcher] = "idle"],
               state' = [Entry EXCEPT !.done = TRUE]
        PROVE  IInv'
    <3>1. ASSUME read.epoch = latest
          PROVE  Assigned[latest] \cap held \subseteq attested[latest]
      <4>1. /\ read.count \in Nat /\ Cardinality(attested[latest]) \in Nat
            /\ Cardinality(Assigned[latest] \cap held) \in Nat
        BY <2>1, BitmapsAreFinite, FS_CardinalityType DEF IInv, TypeOK
      <4>2. Cardinality(attested[latest]) >= Cardinality(Assigned[latest] \cap held)
        BY <2>1, <2>4, <3>1, <4>1 DEF IInv, CountIsPast, AlreadyAttested
      <4> QED
        BY <2>1, <4>2, EnoughIsAll DEF IInv
    <3>2. state'.epoch = read.epoch /\ snapshot'[Watcher] = held
      BY <2>1, <2>4 DEF IInv, TypeOK, EpochState
    <3>3. DoneIsAttested'
      BY <2>1, <3>1, <3>2 DEF DoneIsAttested
    <3>4. pc'[Watcher] = "idle"
      BY <2>1, <2>4 DEF IInv, TypeOK
    <3> QED
      BY <2>3, <2>4, <3>3, <3>4
  <2>5. ASSUME ~Entry.done, Entry.attempts < MaxAttempts,
               snapshot' = [snapshot EXCEPT ![Watcher] = held],
               pc' = [pc EXCEPT ![Watcher] = "lock"], state' = state
        PROVE  IInv'
    <3>1. ~(state # Nobody /\ state.done /\ state.epoch = latest)
      BY <2>1, <2>5 DEF IInv, WatcherInOrder, Entry, TypeOK, EpochState, Epochs
    <3>2. DoneIsAttested'
      BY <2>1, <2>5, <3>1 DEF DoneIsAttested
    <3> QED
      BY <2>3, <2>5, <3>2
  <2> QED
    BY <1>18, <2>1, <2>2, <2>4, <2>5 DEF WatchDecide, EpochState
<1>19. ASSUME WatchFails PROVE IInv'
  <2>1. TypeOK'
    BY <1>19 DEF IInv, WatchFails, Fault, TypeOK, RunSteps, Locked, EpochState
  <2>2. PlannedIsHeld' /\ AttestedIsHeld' /\ ProofsAreHeld'
    BY <1>19
       DEF IInv, WatchFails, Fault, PlannedIsHeld, AttestedIsHeld, ProofsAreHeld, TypeOK
  <2>3. NoncesAreRead' /\ NoNonceGap'
    BY <1>19 DEF IInv, WatchFails, Fault, NoncesAreRead, NoNonceGap, TypeOK, Locked
  <2>4. WatcherInOrder' /\ CountIsPast'
    BY <1>19 DEF IInv, WatchFails, Fault, WatcherInOrder, Entry, CountIsPast, TypeOK, Locked
  <2>5. RunOnTrack' /\ DoneIsAttested'
    BY <1>19 DEF IInv, WatchFails, Fault, RunOnTrack, DoneIsAttested, TypeOK
  <2> QED
    BY <2>1, <2>2, <2>3, <2>4, <2>5 DEF IInv
<1>20. ASSUME PorPoll PROVE IInv'
  <2>1. TypeOK'
    BY <1>20 DEF IInv, PorPoll, TypeOK, RunSteps, Locked, EpochState
  <2>2. PlannedIsHeld' /\ AttestedIsHeld' /\ ProofsAreHeld'
    BY <1>20 DEF IInv, PorPoll, PlannedIsHeld, AttestedIsHeld, ProofsAreHeld, TypeOK
  <2>3. NoncesAreRead' /\ NoNonceGap'
    BY <1>20 DEF IInv, PorPoll, NoncesAreRead, NoNonceGap, TypeOK, Locked
  <2>4. WatcherInOrder' /\ CountIsPast'
    BY <1>20 DEF IInv, PorPoll, WatcherInOrder, Entry, CountIsPast, TypeOK, Locked
  <2>5. RunOnTrack' /\ DoneIsAttested'
    BY <1>20 DEF IInv, PorPoll, RunOnTrack, DoneIsAttested, TypeOK
  <2> QED
    BY <2>1, <2>2, <2>3, <2>4, <2>5 DEF IInv
<1>21. ASSUME NEW x \in Challenges, PorSkip(x) PROVE IInv'
  <2>1. TypeOK'
    BY <1>21 DEF IInv, PorSkip, TypeOK, RunSteps, Locked, EpochState
  <2>2. PlannedIsHeld' /\ AttestedIsHeld' /\ ProofsAreHeld'
    BY <1>21 DEF IInv, PorSkip, PlannedIsHeld, AttestedIsHeld, ProofsAreHeld, TypeOK
  <2>3. NoncesAreRead' /\ NoNonceGap'
    BY <1>21 DEF IInv, PorSkip, NoncesAreRead, NoNonceGap, TypeOK, Locked
  <2>4. WatcherInOrder' /\ CountIsPast'
    BY <1>21 DEF IInv, PorSkip, WatcherInOrder, Entry, CountIsPast, TypeOK, Locked
  <2>5. RunOnTrack' /\ DoneIsAttested'
    BY <1>21 DEF IInv, PorSkip, RunOnTrack, DoneIsAttested, TypeOK
  <2> QED
    BY <2>1, <2>2, <2>3, <2>4, <2>5 DEF IInv
<1>22. ASSUME NEW x \in Challenges, PorRead(x) PROVE IInv'
  <2>1. TypeOK'
    BY <1>22 DEF IInv, PorRead, TypeOK, RunSteps, Locked, EpochState
  <2>2. PlannedIsHeld' /\ AttestedIsHeld' /\ ProofsAreHeld'
    BY <1>22 DEF IInv, PorRead, PlannedIsHeld, AttestedIsHeld, ProofsAreHeld, TypeOK
  <2>3. NoncesAreRead' /\ NoNonceGap'
    BY <1>22 DEF IInv, PorRead, NoncesAreRead, NoNonceGap, TypeOK, Locked
  <2>4. WatcherInOrder' /\ CountIsPast'
    BY <1>22 DEF IInv, PorRead, WatcherInOrder, Entry, CountIsPast, TypeOK, Locked
  <2>5. RunOnTrack' /\ DoneIsAttested'
    BY <1>22 DEF IInv, PorRead, RunOnTrack, DoneIsAttested, TypeOK
  <2> QED
    BY <2>1, <2>2, <2>3, <2>4, <2>5 DEF IInv
<1>23. ASSUME PorSend PROVE IInv'
  <2>1. /\ porWork \in Challenges /\ IndexOf[porWork] \in held /\ porNonce \in Nat
        /\ porNonce <= nonce
        /\ mempool' \subseteq mempool \cup {ProofTx(porNonce, porWork)}
    BY <1>23 DEF PorSend, IInv, TypeOK, PlannedIsHeld, NoncesAreRead
  <2>2. \A tx \in mempool' :
           tx \in mempool \/ (tx[1] = "proof" /\ tx[2] = porNonce /\ tx[3] = porWork)
    BY <2>1 DEF ProofTx
  <2>3. TypeOK'
    <3>1. responded' \in Seq(Challenges) /\ Len(responded') <= MaxResponded
      BY <1>23, <2>1, RememberTyped DEF PorSend, IInv
    <3>2. \A tx \in mempool' \cup final' :
            /\ tx[2] \in Nat
            /\ \/ tx[1] = "attest" /\ tx[3] \in SUBSET Indices
               \/ tx[1] = "proof" /\ tx[3] \in Challenges
      <4>1. /\ final' = final
            /\ \A tx \in mempool \cup final :
                 /\ tx[2] \in Nat
                 /\ \/ tx[1] = "attest" /\ tx[3] \in SUBSET Indices
                    \/ tx[1] = "proof" /\ tx[3] \in Challenges
        BY <1>23 DEF IInv, TypeOK, PorSend
      <4> QED
        BY <2>1, <2>2, <4>1
    <3>3. /\ porList' \subseteq Challenges /\ porWork' \in Challenges \cup {Nobody}
          /\ porNonce' \in Nat
      BY <1>23 DEF IInv, TypeOK, PorSend
    <3> QED
      BY <1>23, <3>1, <3>2, <3>3 DEF IInv, TypeOK, PorSend
  <2>4. PlannedIsHeld' /\ AttestedIsHeld' /\ ProofsAreHeld'
    BY <1>23, <2>1, <2>2 DEF IInv, PorSend, PlannedIsHeld, AttestedIsHeld, ProofsAreHeld
  <2>5. NoncesAreRead' /\ NoNonceGap'
    BY <1>23, <2>1, <2>2 DEF IInv, TypeOK, PorSend, NoncesAreRead, NoNonceGap
  <2>6. WatcherInOrder' /\ CountIsPast' /\ RunOnTrack' /\ DoneIsAttested'
    BY <1>23
       DEF IInv, PorSend, WatcherInOrder, CountIsPast, RunOnTrack, DoneIsAttested, Entry
  <2> QED
    BY <2>3, <2>4, <2>5, <2>6 DEF IInv
<1>24. ASSUME PorFails PROVE IInv'
  <2>1. /\ porWork \in Challenges /\ IndexOf[porWork] \in held /\ porNonce \in Nat
        /\ porNonce <= nonce
        /\ mempool' \subseteq mempool \cup {ProofTx(porNonce, porWork)}
    BY <1>24 DEF PorFails, IInv, TypeOK, PlannedIsHeld, NoncesAreRead
  <2>2. \A tx \in mempool' :
           tx \in mempool \/ (tx[1] = "proof" /\ tx[2] = porNonce /\ tx[3] = porWork)
    BY <2>1 DEF ProofTx
  <2>3. TypeOK'
    BY <1>24, <2>1, <2>2 DEF IInv, TypeOK, PorFails, Fault
  <2>4. PlannedIsHeld' /\ AttestedIsHeld' /\ ProofsAreHeld'
    BY <1>24, <2>1, <2>2 DEF IInv, PorFails, PlannedIsHeld, AttestedIsHeld, ProofsAreHeld
  <2>5. NoncesAreRead' /\ NoNonceGap'
    BY <1>24, <2>1, <2>2 DEF IInv, TypeOK, PorFails, NoncesAreRead, NoNonceGap
  <2>6. WatcherInOrder' /\ CountIsPast' /\ RunOnTrack' /\ DoneIsAttested'
    BY <1>24
       DEF IInv, PorFails, WatcherInOrder, CountIsPast, RunOnTrack, DoneIsAttested, Entry
  <2> QED
    BY <2>3, <2>4, <2>5, <2>6 DEF IInv
<1>25. ASSUME Restart PROVE IInv'
  <2>1. /\ pc' = [r \in Runs |-> "idle"] /\ snapshot' = [r \in Runs |-> {}]
        /\ left' = [r \in Runs |-> {}]
        /\ runNonce' = [r \in Runs |-> 0] /\ lock' = Nobody /\ faults' \in 0..MaxFaults
        /\ responded' \in Seq(Challenges) /\ Len(responded') = 0
    BY <1>25 DEF Restart, Fault, IInv, TypeOK
  <2>2. /\ pc' \in [Runs -> RunSteps] /\ snapshot' \in [Runs -> SUBSET Indices]
        /\ left' \in [Runs -> SUBSET Indices] /\ runNonce' \in [Runs -> Nat]
        /\ \A r \in Runs : pc'[r] \notin Locked
    BY <2>1 DEF RunSteps, Locked
  <2>3. TypeOK'
    <3>1. lock' # Nobody => FALSE
      BY <2>1
    <3>2. \A r \in Runs : pc'[r] \in Locked <=> lock' = r
      BY <2>1, <2>2
    <3>3. /\ state' \in EpochState \cup {Nobody} /\ notV2' \in BOOLEAN
          /\ porList' \subseteq Challenges
          /\ porWork' \in Challenges \cup {Nobody} /\ porNonce' \in Nat
      BY <1>25 DEF Restart
    <3>4. UNCHANGED <<row, latest, abandoned, attested, nonce, mempool, final, active,
                      proven, held, read, spawns>>
      BY <1>25 DEF Restart
    <3>5. lock' \in Runs \cup {Nobody}
      BY <2>1
    <3> QED
      BY <2>1, <2>2, <3>2, <3>3, <3>4, <3>5 DEF IInv, TypeOK
  <2>4. PlannedIsHeld' /\ AttestedIsHeld' /\ ProofsAreHeld'
    BY <1>25 DEF IInv, Restart, PlannedIsHeld, AttestedIsHeld, ProofsAreHeld
  <2>5. NoncesAreRead' /\ NoNonceGap'
    BY <1>25 DEF IInv, TypeOK, Restart, NoncesAreRead, NoNonceGap
  <2>6. WatcherInOrder' /\ CountIsPast' /\ RunOnTrack' /\ DoneIsAttested'
    BY <1>25 DEF IInv, Restart, WatcherInOrder, CountIsPast, RunOnTrack, DoneIsAttested
  <2> QED
    BY <2>3, <2>4, <2>5, <2>6 DEF IInv
<1>26. CASE UNCHANGED vars
  BY <1>26, Stutters
<1> QED
  BY <1>1, <1>2, <1>3, <1>4, <1>5, <1>6, <1>7, <1>8, <1>9, <1>10, <1>11, <1>12, <1>13,
     <1>14, <1>15, <1>16, <1>17, <1>18, <1>19, <1>20, <1>21, <1>22, <1>23, <1>24, <1>25,
     <1>26 DEF Next, RunStep

-------------------------------------------------------------------------------
(* Theorems *)

\* The initial states satisfy the invariant.
LEMMA InitEstablishes == Init => IInv
<1> SUFFICES ASSUME Init PROVE IInv
  OBVIOUS
<1> USE SubmissionAssumption DEF Runs
<1>1. TypeOK
  <2>1. 1 \in Epochs
    BY DEF Epochs
  <2>2. \A r \in Runs : pc[r] \in Locked <=> lock = r
    BY DEF Init, Locked
  <2>3. /\ pc \in [Runs -> RunSteps] /\ snapshot \in [Runs -> SUBSET Indices]
        /\ left \in [Runs -> SUBSET Indices] /\ runNonce \in [Runs -> Nat]
    BY DEF Init, RunSteps
  <2>4. /\ read \in [epoch : Epochs, count : Nat] /\ state \in EpochState \cup {Nobody}
        /\ porWork \in Challenges \cup {Nobody} /\ lock \in Runs \cup {Nobody}
    BY <2>1 DEF Init
  <2>5. responded \in Seq(Challenges) /\ Len(responded) <= MaxResponded
    BY DEF Init
  <2>6. row \in BOOLEAN /\ abandoned \in BOOLEAN /\ notV2 \in BOOLEAN
    BY DEF Init
  <2>7. /\ latest \in Epochs /\ attested \in [Epochs -> SUBSET Indices] /\ nonce \in Nat
        /\ mempool \cup final = {} /\ active = {} /\ proven = {} /\ held \subseteq Indices
        /\ porList = {} /\ porNonce = 0 /\ spawns = 0 /\ faults = 0
    BY <2>1 DEF Init
  <2> QED
    BY <2>2, <2>3, <2>4, <2>5, <2>6, <2>7 DEF TypeOK
<1>2. AttestedIsHeld
  BY DEF Init, AttestedIsHeld
<1>3. PlannedIsHeld /\ ProofsAreHeld /\ NoNonceGap
  BY DEF Init, PlannedIsHeld, ProofsAreHeld, NoNonceGap
<1>4. NoncesAreRead /\ WatcherInOrder
  BY DEF Init, NoncesAreRead, WatcherInOrder
<1>5. CountIsPast /\ RunOnTrack /\ DoneIsAttested
  BY DEF Init, CountIsPast, RunOnTrack, DoneIsAttested
<1> QED
  BY <1>1, <1>2, <1>3, <1>4, <1>5 DEF IInv

\* The inductive invariant holds in every reachable state.
LEMMA InvariantHolds == Spec => []IInv
  BY InitEstablishes, StepPreserves, PTL DEF Spec

\* Whatever the archive claims on the chain, by an attestation run
\* (assignment_attestor.rs) or a PoR answer (por_worker.rs), is about chunks it
\* holds, whatever is reassigned or restarted while the claim is under way.
THEOREM OnlyHeld == Spec => []OnlyHeldIsClaimed
<1>1. IInv => OnlyHeldIsClaimed
  BY DEF IInv, OnlyHeldIsClaimed
<1> QED
  BY <1>1, InvariantHolds, PTL

\* When the epoch watcher marks an epoch as done, everything it held when it
\* decided so is attested in that epoch (epoch_watcher.rs, check and
\* already_attested).
THEOREM DoneMeansAttested == Spec => []DoneIsAttested
<1>1. IInv => DoneIsAttested
  BY DEF IInv
<1> QED
  BY <1>1, InvariantHolds, PTL

\* No transaction waits behind a nonce that no other transaction fills, although
\* the responder shares the account and not the lock (por_worker.rs).
THEOREM NonceOrder == Spec => []NoNonceGap
<1>1. IInv => NoNonceGap
  BY DEF IInv
<1> QED
  BY <1>1, InvariantHolds, PTL
===============================================================================
