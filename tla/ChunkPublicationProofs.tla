------------------------ MODULE ChunkPublicationProofs ------------------------
(***************************************************************************)
(* Proofs about the chunks on a node's disk: how they are published        *)
(* (ChunkPublication) for any number of CIDs, callers and files, where     *)
(* IInv is inductive and the rest follows from it; and how a download      *)
(* fetches them (Download) for any archives, rankings, files and caps,     *)
(* where DownloadInv is.                                                   *)
(***************************************************************************)
EXTENDS ChunkPublication, Download, FiniteSetTheorems, FunctionTheorems,
        SequenceTheorems, WellFoundedInduction, TLAPS

USE DEF Files, Entry, Contents, Results, Steps, IOSteps, Goto, Return, fs, Durable

\* The root as it is found satisfies the invariant.
LEMMA InitEstablishes == Init => IInv
  BY PublicationAssumption
  DEF Init, IInv, TypeOK, PublishedIsWhole, AckedIsDurable, StagingIsPrivate, StagedIsVerified, ExistingIsVerified, PendingPutHolds, LiveMayPersist

\* Every step of every caller, every deletion and every crash preserves it.
LEMMA StepPreserves == IInv /\ [Next]_vars => IInv'
<1> SUFFICES ASSUME IInv, [Next]_vars PROVE IInv'
  OBVIOUS
<1> USE PublicationAssumption
\* A fresh payload is no file anybody can reach.
<1>1. ASSUME NEW t \in Callers, NEW c \in CIDs, Put(t, c) PROVE IInv'
  <2>1. TypeOK'
    BY <1>1 DEF Put, Free, IInv, TypeOK
  <2>2. PublishedIsWhole'
    BY <1>1 DEF Put, Free, IInv, TypeOK, PublishedIsWhole
  <2>3. AckedIsDurable'
    BY <1>1 DEF Put, Free, IInv, TypeOK, AckedIsDurable
  <2>4. StagingIsPrivate'
    BY <1>1 DEF Put, Free, IInv, TypeOK, StagingIsPrivate
  <2>5. StagedIsVerified'
    BY <1>1 DEF Put, Free, IInv, TypeOK, StagedIsVerified
  <2>6. ExistingIsVerified'
    BY <1>1 DEF Put, Free, IInv, TypeOK, ExistingIsVerified
  <2>7. PendingPutHolds'
    BY <1>1 DEF Put, Free, IInv, TypeOK, PendingPutHolds
  <2>8. LiveMayPersist'
    BY <1>1 DEF Put, Free, IInv, TypeOK, LiveMayPersist
  <2> QED
    BY <2>1, <2>2, <2>3, <2>4, <2>5, <2>6, <2>7, <2>8 DEF IInv
\* The file written is private, so no published content changes.
<1>2. ASSUME NEW t \in Callers, Write(t) PROVE IInv'
  <2>1. TypeOK'
    BY <1>2 DEF Write, IInv, TypeOK
  <2>2. PublishedIsWhole'
    BY <1>2 DEF Write, IInv, TypeOK, PublishedIsWhole, StagingIsPrivate
  <2>3. AckedIsDurable'
    BY <1>2 DEF Write, IInv, TypeOK, AckedIsDurable, StagingIsPrivate, PublishedIsWhole
  <2>4. StagedIsVerified'
    BY <1>2 DEF Write, IInv, TypeOK, StagedIsVerified, StagingIsPrivate
  <2>5. ExistingIsVerified'
    BY <1>2 DEF Write, IInv, TypeOK, ExistingIsVerified, StagingIsPrivate
  <2>6. PendingPutHolds'
    BY <1>2 DEF Write, IInv, TypeOK, PendingPutHolds, StagingIsPrivate
  <2>7. StagingIsPrivate' /\ LiveMayPersist'
    BY <1>2 DEF Write, IInv, TypeOK, StagingIsPrivate, LiveMayPersist
  <2> QED
    BY <2>1, <2>2, <2>3, <2>4, <2>5, <2>6, <2>7 DEF IInv
<1>3. ASSUME NEW t \in Callers, VerifyPayload(t) PROVE IInv'
  <2>1. TypeOK'
    BY <1>3 DEF VerifyPayload, IInv, TypeOK
  <2>2. StagedIsVerified'
    BY <1>3 DEF VerifyPayload, IInv, TypeOK, StagedIsVerified
  <2>3. PublishedIsWhole' /\ AckedIsDurable' /\ StagingIsPrivate' /\ ExistingIsVerified' /\ PendingPutHolds' /\ LiveMayPersist'
    BY <1>3 DEF VerifyPayload, IInv, TypeOK, PublishedIsWhole, AckedIsDurable, StagingIsPrivate, ExistingIsVerified, PendingPutHolds, LiveMayPersist
  <2> QED
    BY <2>1, <2>2, <2>3 DEF IInv
<1>4. ASSUME NEW t \in Callers, SyncPayload(t) PROVE IInv'
  <2>1. TypeOK'
    BY <1>4 DEF SyncPayload, IInv, TypeOK
  <2>2. PublishedIsWhole'
    BY <1>4 DEF SyncPayload, IInv, TypeOK, PublishedIsWhole
  <2>3. AckedIsDurable'
    BY <1>4 DEF SyncPayload, IInv, TypeOK, AckedIsDurable
  <2>4. StagedIsVerified'
    BY <1>4 DEF SyncPayload, IInv, TypeOK, StagedIsVerified
  <2>5. ExistingIsVerified'
    BY <1>4 DEF SyncPayload, IInv, TypeOK, ExistingIsVerified
  <2>6. PendingPutHolds'
    BY <1>4 DEF SyncPayload, IInv, TypeOK, PendingPutHolds
  <2>7. StagingIsPrivate' /\ LiveMayPersist'
    BY <1>4 DEF SyncPayload, IInv, TypeOK, StagingIsPrivate, LiveMayPersist
  <2> QED
    BY <2>1, <2>2, <2>3, <2>4, <2>5, <2>6, <2>7 DEF IInv
\* The payload linked was verified and synced.
<1>5. ASSUME NEW t \in Callers, LinkPayload(t) PROVE IInv'
  <2>1. TypeOK'
    BY <1>5 DEF LinkPayload, IInv, TypeOK
  <2>2. PublishedIsWhole'
    BY <1>5 DEF LinkPayload, IInv, TypeOK, PublishedIsWhole, StagedIsVerified
  <2>3. AckedIsDurable'
    BY <1>5 DEF LinkPayload, IInv, TypeOK, AckedIsDurable
  <2>4. StagingIsPrivate'
    BY <1>5 DEF LinkPayload, IInv, TypeOK, StagingIsPrivate
  <2>5. PendingPutHolds'
    BY <1>5 DEF LinkPayload, IInv, TypeOK, PendingPutHolds, ExistingIsVerified
  <2>6. LiveMayPersist'
    BY <1>5 DEF LinkPayload, IInv, TypeOK, LiveMayPersist
  <2>7. StagedIsVerified' /\ ExistingIsVerified'
    BY <1>5 DEF LinkPayload, IInv, TypeOK, StagedIsVerified, ExistingIsVerified
  <2> QED
    BY <2>1, <2>2, <2>3, <2>4, <2>5, <2>6, <2>7 DEF IInv
<1>6. ASSUME NEW t \in Callers, LinkExists(t) PROVE IInv'
  <2>1. TypeOK'
    BY <1>6 DEF LinkExists, IInv, TypeOK
  <2>2. PublishedIsWhole' /\ AckedIsDurable' /\ StagingIsPrivate' /\ StagedIsVerified' /\ ExistingIsVerified' /\ PendingPutHolds' /\ LiveMayPersist'
    BY <1>6 DEF LinkExists, IInv, TypeOK, PublishedIsWhole, AckedIsDurable, StagingIsPrivate, StagedIsVerified, ExistingIsVerified, PendingPutHolds, LiveMayPersist
  <2> QED
    BY <2>1, <2>2 DEF IInv
<1>7. ASSUME NEW t \in Callers, SyncDirectory(t) PROVE IInv'
  <2>1. TypeOK'
    BY <1>7 DEF SyncDirectory, IInv, TypeOK
  <2>2. PublishedIsWhole'
    BY <1>7 DEF SyncDirectory, IInv, TypeOK, PublishedIsWhole
  <2>3. AckedIsDurable'
    BY <1>7 DEF SyncDirectory, IInv, TypeOK, AckedIsDurable
  <2>4. StagingIsPrivate'
    BY <1>7 DEF SyncDirectory, IInv, TypeOK, StagingIsPrivate, LiveMayPersist
  <2>5. PendingPutHolds'
    BY <1>7 DEF SyncDirectory, IInv, TypeOK, PendingPutHolds, PublishedIsWhole
  <2>6. LiveMayPersist'
    BY <1>7 DEF SyncDirectory, IInv, TypeOK, LiveMayPersist
  <2>7. StagedIsVerified' /\ ExistingIsVerified'
    BY <1>7 DEF SyncDirectory, IInv, TypeOK, StagedIsVerified, ExistingIsVerified
  <2> QED
    BY <2>1, <2>2, <2>3, <2>4, <2>5, <2>6, <2>7 DEF IInv
<1>8. ASSUME NEW t \in Callers, OpenExisting(t) PROVE IInv'
  <2>1. CASE dir[cid[t]] = NoInode
    <3>1. /\ pc' = [pc EXCEPT ![t] = "close"]
          /\ result' = [result EXCEPT ![t] = "error"]
          /\ UNCHANGED <<dir, dirDisk, data, dataDisk, cid, payload, existing, unlinked, promised>>
      BY <1>8, <2>1 DEF OpenExisting
    <3>2. TypeOK'
      BY <1>8, <3>1 DEF OpenExisting, IInv, TypeOK
    <3> QED
      BY <3>1, <3>2 DEF IInv, TypeOK, PublishedIsWhole, AckedIsDurable, StagingIsPrivate, StagedIsVerified, ExistingIsVerified, PendingPutHolds, LiveMayPersist
  <2>2. CASE dir[cid[t]] # NoInode
    <3>1. /\ pc[t] = "open_existing"
          /\ pc' = [pc EXCEPT ![t] = "verify_existing"]
          /\ existing' = [existing EXCEPT ![t] = dir[cid[t]]]
          /\ unlinked' = [unlinked EXCEPT ![t] = FALSE]
          /\ UNCHANGED <<dir, dirDisk, data, dataDisk, cid, payload, result, promised>>
      BY <1>8, <2>2 DEF OpenExisting
    <3>2. TypeOK'
      BY <3>1 DEF IInv, TypeOK
    <3>3. StagingIsPrivate'
      BY <3>1 DEF IInv, TypeOK, StagingIsPrivate
    <3>4. ExistingIsVerified' /\ PendingPutHolds'
      BY <3>1, <2>2 DEF IInv, TypeOK, ExistingIsVerified, PendingPutHolds
    <3> QED
      BY <3>1, <3>2, <3>3, <3>4 DEF IInv, TypeOK, PublishedIsWhole, AckedIsDurable, StagedIsVerified, LiveMayPersist
  <2> QED
    BY <2>1, <2>2
<1>9. ASSUME NEW t \in Callers, VerifyExisting(t) PROVE IInv'
  <2>1. TypeOK'
    BY <1>9 DEF VerifyExisting, IInv, TypeOK
  <2>2. ExistingIsVerified'
    BY <1>9 DEF VerifyExisting, IInv, TypeOK, ExistingIsVerified
  <2>3. PendingPutHolds'
    BY <1>9 DEF VerifyExisting, IInv, TypeOK, PendingPutHolds
  <2>4. PublishedIsWhole' /\ AckedIsDurable' /\ StagingIsPrivate' /\ StagedIsVerified' /\ LiveMayPersist'
    BY <1>9 DEF VerifyExisting, IInv, TypeOK, PublishedIsWhole, AckedIsDurable, StagingIsPrivate, StagedIsVerified, LiveMayPersist
  <2> QED
    BY <2>1, <2>2, <2>3, <2>4 DEF IInv
<1>10. ASSUME NEW t \in Callers, SyncExisting(t) PROVE IInv'
  <2>1. TypeOK'
    BY <1>10 DEF SyncExisting, IInv, TypeOK, ExistingIsVerified
  <2>2. PublishedIsWhole'
    BY <1>10 DEF SyncExisting, IInv, TypeOK, PublishedIsWhole
  <2>3. AckedIsDurable'
    BY <1>10 DEF SyncExisting, IInv, TypeOK, AckedIsDurable
  <2>4. StagedIsVerified'
    BY <1>10 DEF SyncExisting, IInv, TypeOK, StagedIsVerified
  <2>5. ExistingIsVerified'
    BY <1>10 DEF SyncExisting, IInv, TypeOK, ExistingIsVerified
  <2>6. PendingPutHolds'
    BY <1>10 DEF SyncExisting, IInv, TypeOK, PendingPutHolds
  <2>7. StagingIsPrivate' /\ LiveMayPersist'
    BY <1>10 DEF SyncExisting, IInv, TypeOK, StagingIsPrivate, LiveMayPersist
  <2> QED
    BY <2>1, <2>2, <2>3, <2>4, <2>5, <2>6, <2>7 DEF IInv
<1>11. ASSUME NEW t \in Callers, SyncExistingDirectory(t) PROVE IInv'
  <2>1. TypeOK'
    BY <1>11 DEF SyncExistingDirectory, IInv, TypeOK
  <2>2. PublishedIsWhole'
    BY <1>11 DEF SyncExistingDirectory, IInv, TypeOK, PublishedIsWhole
  <2>3. AckedIsDurable'
    BY <1>11 DEF SyncExistingDirectory, IInv, TypeOK, AckedIsDurable
  <2>4. StagingIsPrivate'
    BY <1>11 DEF SyncExistingDirectory, IInv, TypeOK, StagingIsPrivate, LiveMayPersist
  <2>5. PendingPutHolds'
    BY <1>11 DEF SyncExistingDirectory, IInv, TypeOK, PendingPutHolds, ExistingIsVerified
  <2>6. LiveMayPersist'
    BY <1>11 DEF SyncExistingDirectory, IInv, TypeOK, LiveMayPersist
  <2>7. StagedIsVerified' /\ ExistingIsVerified'
    BY <1>11 DEF SyncExistingDirectory, IInv, TypeOK, StagedIsVerified, ExistingIsVerified
  <2> QED
    BY <2>1, <2>2, <2>3, <2>4, <2>5, <2>6, <2>7 DEF IInv
<1>12. ASSUME NEW t \in Callers, Fault(t) PROVE IInv'
  <2>1. TypeOK'
    BY <1>12 DEF Fault, IInv, TypeOK
  <2>2. PendingPutHolds'
    BY <1>12 DEF Fault, IInv, TypeOK, PendingPutHolds
  <2>3. PublishedIsWhole' /\ AckedIsDurable' /\ StagingIsPrivate' /\ StagedIsVerified' /\ ExistingIsVerified' /\ LiveMayPersist'
    BY <1>12 DEF Fault, IInv, TypeOK, PublishedIsWhole, AckedIsDurable, StagingIsPrivate, StagedIsVerified, ExistingIsVerified, LiveMayPersist
  <2> QED
    BY <2>1, <2>2, <2>3 DEF IInv
\* Ok is returned on a durable chunk.
<1>13. ASSUME NEW t \in Callers, Close(t) PROVE IInv'
  <2>1. TypeOK'
    BY <1>13 DEF Close, IInv, TypeOK
  <2>2. AckedIsDurable'
    BY <1>13 DEF Close, IInv, TypeOK, AckedIsDurable, PendingPutHolds
  <2>3. StagingIsPrivate'
    BY <1>13 DEF Close, IInv, TypeOK, StagingIsPrivate
  <2>4. PublishedIsWhole' /\ StagedIsVerified' /\ ExistingIsVerified' /\ PendingPutHolds' /\ LiveMayPersist'
    BY <1>13 DEF Close, IInv, TypeOK, PublishedIsWhole, StagedIsVerified, ExistingIsVerified, PendingPutHolds, LiveMayPersist
  <2> QED
    BY <2>1, <2>2, <2>3, <2>4 DEF IInv
\* Every put of c in flight is marked, so it promises nothing.
<1>14. ASSUME NEW c \in CIDs, Delete(c) PROVE IInv'
  <2>1. TypeOK'
    BY <1>14 DEF Delete, IInv, TypeOK
  <2>2. PublishedIsWhole'
    BY <1>14 DEF Delete, IInv, TypeOK, PublishedIsWhole
  <2>3. AckedIsDurable'
    BY <1>14 DEF Delete, IInv, TypeOK, AckedIsDurable
  <2>4. StagingIsPrivate'
    BY <1>14 DEF Delete, IInv, TypeOK, StagingIsPrivate
  <2>5. PendingPutHolds'
    BY <1>14 DEF Delete, IInv, TypeOK, PendingPutHolds
  <2>6. LiveMayPersist'
    BY <1>14 DEF Delete, IInv, TypeOK, LiveMayPersist
  <2>7. StagedIsVerified' /\ ExistingIsVerified'
    BY <1>14 DEF Delete, IInv, TypeOK, StagedIsVerified, ExistingIsVerified
  <2> QED
    BY <2>1, <2>2, <2>3, <2>4, <2>5, <2>6, <2>7 DEF IInv
<1>15. ASSUME ProcessCrash PROVE IInv'
  <2>1. TypeOK'
    BY <1>15 DEF ProcessCrash, AbandonCalls, IInv, TypeOK
  <2>2. StagingIsPrivate'
    BY <1>15 DEF ProcessCrash, AbandonCalls, IInv, TypeOK, StagingIsPrivate
  <2>3. StagedIsVerified'
    BY <1>15 DEF ProcessCrash, AbandonCalls, IInv, TypeOK, StagedIsVerified
  <2>4. ExistingIsVerified'
    BY <1>15 DEF ProcessCrash, AbandonCalls, IInv, TypeOK, ExistingIsVerified
  <2>5. PendingPutHolds'
    BY <1>15 DEF ProcessCrash, AbandonCalls, IInv, TypeOK, PendingPutHolds
  <2>6. PublishedIsWhole' /\ AckedIsDurable' /\ LiveMayPersist'
    BY <1>15 DEF ProcessCrash, AbandonCalls, IInv, TypeOK, PublishedIsWhole, AckedIsDurable, LiveMayPersist
  <2> QED
    BY <2>1, <2>2, <2>3, <2>4, <2>5, <2>6 DEF IInv
\* The disk sets of a durable chunk hold its live values alone.
<1>16. ASSUME PowerLoss PROVE IInv'
  <2>1. TypeOK'
    BY <1>16 DEF PowerLoss, AbandonCalls, IInv, TypeOK
  <2>2. PublishedIsWhole'
    BY <1>16 DEF PowerLoss, AbandonCalls, IInv, TypeOK, PublishedIsWhole
  <2>3. AckedIsDurable'
    BY <1>16 DEF PowerLoss, AbandonCalls, IInv, TypeOK, AckedIsDurable
  <2>4. StagingIsPrivate'
    BY <1>16 DEF PowerLoss, AbandonCalls, IInv, TypeOK, StagingIsPrivate
  <2>5. StagedIsVerified'
    BY <1>16 DEF PowerLoss, AbandonCalls, IInv, TypeOK, StagedIsVerified
  <2>6. ExistingIsVerified'
    BY <1>16 DEF PowerLoss, AbandonCalls, IInv, TypeOK, ExistingIsVerified
  <2>7. PendingPutHolds'
    BY <1>16 DEF PowerLoss, AbandonCalls, IInv, TypeOK, PendingPutHolds
  <2>8. LiveMayPersist'
    BY <1>16 DEF PowerLoss, AbandonCalls, IInv, TypeOK, LiveMayPersist
  <2> QED
    BY <2>1, <2>2, <2>3, <2>4, <2>5, <2>6, <2>7, <2>8 DEF IInv
<1>17. CASE UNCHANGED vars
  BY <1>17 DEF vars, IInv, TypeOK, PublishedIsWhole, AckedIsDurable, StagingIsPrivate, StagedIsVerified, ExistingIsVerified, PendingPutHolds, LiveMayPersist
<1> QED
  BY <1>1, <1>2, <1>3, <1>4, <1>5, <1>6, <1>7, <1>8, <1>9, <1>10, <1>11, <1>12, <1>13, <1>14, <1>15, <1>16, <1>17 DEF Next

\* TypeOK: every variable keeps its type, and a caller has a staged file
\* exactly while it is inside publish_with.
THEOREM TypeCorrect == Spec => []TypeOK
  BY InitEstablishes, StepPreserves, PTL DEF Spec, IInv

\* PublishedIsWhole: no crash at any point leaves a final name on a chunk whose
\* bytes are incomplete.
THEOREM PublishedWhole == Spec => []PublishedIsWhole
  BY InitEstablishes, StepPreserves, PTL DEF Spec, IInv

\* AckedIsDurable: a put that returned Ok holds across every crash, duplicates
\* of files in flight and of inherited files included.
THEOREM AckedDurable == Spec => []AckedIsDurable
  BY InitEstablishes, StepPreserves, PTL DEF Spec, IInv

\* One step of the store never replaces or rewrites a published chunk.
LEMMA StepNeverClobbers ==
    IInv /\ [Next]_vars =>
      [~PowerLoss => \A c \in CIDs :
          (dir[c] # NoInode /\ dir'[c] # NoInode)
             => dir'[c] = dir[c] /\ data'[dir[c]] = data[dir[c]]]_vars
  BY PublicationAssumption
  DEF Next, vars, IInv, TypeOK, StagingIsPrivate, Put, Free, Write, VerifyPayload,
      SyncPayload, LinkPayload, LinkExists, SyncDirectory, OpenExisting, VerifyExisting,
      SyncExisting, SyncExistingDirectory, Fault, Close, Delete, ProcessCrash, AbandonCalls

\* NeverClobbers: readers and mappings of a published chunk see it unchanged.
THEOREM NoClobber == Spec => NeverClobbers
  BY InitEstablishes, StepPreserves, StepNeverClobbers, PTL DEF Spec, NeverClobbers

-------------------------------------------------------------------------------
(* ChunkPublication implements DurableBlobStore.                           *)

USE DEF BlobOf, Inherited, Abstract!bvars, Abstract!BlobState

\* Before the first call every file under a final name is inherited.
LEMMA InitRefines == Init => Abstract!Init
<1> SUFFICES ASSUME Init PROVE Abstract!Init
  OBVIOUS
<1> USE PublicationAssumption
<1>1. ASSUME NEW c \in CIDs PROVE c \in Inherited <=> BlobOf(c) # "absent"
  BY DEF Init
<1>2. Inherited = {c \in CIDs : [e \in CIDs |-> BlobOf(e)][c] # "absent"}
  <2> HIDE DEF BlobOf
  <2> QED
    BY <1>1 DEF Inherited
<1> QED
  BY <1>2 DEF Init, Abstract!Init

\* Each step of the store is a step of the blob store or changes nothing a
\* caller can see.
LEMMA StepRefines == IInv /\ [Next]_vars => [Abstract!Next]_(Abstract!bvars)
<1> SUFFICES ASSUME IInv, [Next]_vars PROVE [Abstract!Next]_(Abstract!bvars)
  OBVIOUS
<1> USE PublicationAssumption DEF IInv, TypeOK
\* Steps that touch no published file are invisible.
<1>1. ASSUME NEW t \in Callers, NEW c \in CIDs, Put(t, c) PROVE UNCHANGED Abstract!bvars
  BY <1>1 DEF Put, Free
<1>2. ASSUME NEW t \in Callers, Write(t) PROVE UNCHANGED Abstract!bvars
  BY <1>2 DEF Write, StagingIsPrivate
<1>3. ASSUME NEW t \in Callers,
             \/ VerifyPayload(t) \/ SyncPayload(t) \/ LinkExists(t) \/ OpenExisting(t)
             \/ VerifyExisting(t) \/ SyncExisting(t) \/ Fault(t)
      PROVE  UNCHANGED Abstract!bvars
  BY <1>3 DEF VerifyPayload, SyncPayload, LinkExists, OpenExisting, VerifyExisting,
              SyncExisting, Fault
<1>4. ASSUME ProcessCrash PROVE UNCHANGED Abstract!bvars
  BY <1>4 DEF ProcessCrash, AbandonCalls
\* linkat is the moment the chunk appears.
<1>5. ASSUME NEW t \in Callers, LinkPayload(t) PROVE Abstract!Publish(cid[t])
  BY <1>5 DEF LinkPayload, StagedIsVerified, Abstract!Publish
\* A directory sync may settle earlier deletions of inherited files.
<1>6. ASSUME NEW t \in Callers, SyncDirectory(t) \/ SyncExistingDirectory(t)
      PROVE  Abstract!Settle
  BY <1>6 DEF SyncDirectory, SyncExistingDirectory, LiveMayPersist, Abstract!Settle
<1>7. ASSUME NEW t \in Callers, Close(t)
      PROVE  Abstract!Acknowledge(cid[t]) \/ UNCHANGED Abstract!bvars
  BY <1>7 DEF Close, PendingPutHolds, Abstract!Acknowledge
<1>8. ASSUME NEW c \in CIDs, Delete(c) PROVE Abstract!Delete(c)
  <2>1. ASSUME NEW e \in CIDs
        PROVE  dirDisk'[e] \cap LegacyInodes = dirDisk[e] \cap LegacyInodes
    BY <1>8 DEF Delete
  <2>2. UNCHANGED Inherited
    BY <2>1
  <2>3. \A e \in CIDs : BlobOf(e)' = IF e = c THEN "absent" ELSE BlobOf(e)
    BY <1>8 DEF Delete
  <2>4. BlobOf(c) # "absent" /\ promised' = promised \ {c}
    BY <1>8 DEF Delete
  <2> HIDE DEF BlobOf, Inherited
  <2> QED
    BY <2>2, <2>3, <2>4 DEF Abstract!Delete
<1>9. ASSUME PowerLoss PROVE Abstract!Crash
  BY <1>9 DEF PowerLoss, AbandonCalls, PublishedIsWhole, AckedIsDurable, Abstract!Crash
<1>10. CASE UNCHANGED vars
  BY <1>10 DEF vars
<1>11. \A t \in Callers : cid[t] \in CIDs
  OBVIOUS
<1> HIDE DEF IInv, TypeOK, BlobOf, Inherited, Abstract!bvars
<1> QED
  BY <1>1, <1>2, <1>3, <1>4, <1>5, <1>6, <1>7, <1>8, <1>9, <1>10, <1>11 DEF Next, Abstract!Next

\* RefinesBlobStore: to its callers the publication protocol is an atomic,
\* durable, content-addressed store.
THEOREM Refinement == Spec => RefinesBlobStore
  BY InitEstablishes, StepPreserves, InitRefines, StepRefines, PTL
  DEF Spec, RefinesBlobStore, Abstract!Spec

HIDE DEF Files, Entry, Contents, Results, Steps, IOSteps, Goto, Return, fs, Durable

---------------------------------------------------------------------------
(***************************************************************************)
(* Download.                                                               *)
(***************************************************************************)
Requests == [kind : {"manifest", "chunk"}, peer : Archives, idx : 0 .. MaxChunks, off : Nat]

\* The file is one of those asked for.
FileGiven == \E f \in Wanted : row = f.row /\ cids = f.cids

Early == phase \in {"start", "discover", "manifest"}

WireOK(w) == IsFiniteSet(w) /\ w \subseteq Requests

\* Every request is for a chunk of the file.
ForChunks(w) == \A r \in w : r.kind = "chunk" /\ r.idx \in Chunks

DiskOK(s) == s \in [Cids -> {"none", "good"}]

DownloadBaseInv ==
  /\ phase \in {"start", "discover", "manifest", "chunks", "spin", "done", "failed"}
  /\ known \subseteq Archives /\ netUp \in BOOLEAN
  /\ WireOK(wire) /\ DiskOK(store)
  /\ phase = "chunks" => ForChunks(wire)

---------------------------------------------------------------------------
Fetches == [peer : Archives \cup {None}, off : Nat, bytes : {"good", "wrong"}]

FlyingOK(flying, act) ==
  /\ act \in [Cids -> Fetches]
  /\ flying \subseteq {d \in ToSet(cids) : IsActive(act, d)}
  /\ Cardinality(flying) <= MaxConcurrent

\* One open request per CID.
OnePerCid(w) ==
  \A r, s \in w : r.kind = "chunk" /\ s.kind = "chunk" /\ cids[r.idx] = cids[s.idx] => r = s

\* Each open request is counted.
Counted(w, flying) == \A r \in w : cids[r.idx] \in flying

\* CIDs not on disk that are neither asked for nor queued.
Orphans(s, w, queue) ==
  {d \in ToSet(cids) : /\ s[d] = "none"
                       /\ \A r \in w : cids[r.idx] # d
                       /\ \A i \in DOMAIN queue : cids[queue[i]] # d}

\* The fetches that may yet complete, with the CIDs that never will, fit into
\* what total_to_fetch still allows.
Tally(n, s, w, queue, t) ==
  n + Len(queue) + Cardinality(w) + Cardinality(Orphans(s, w, queue)) <= t

PeersOK(h, disc) == h \in [Chunks -> Archives \cup {None}] /\ disc # <<>>

LegacyInv ==
  /\ discovered \in Seq(Archives) /\ remaining \in Seq(Chunks)
  /\ fetched \in Nat /\ total \in 0 .. size /\ fetched <= total
  /\ FlyingOK(inFlight, active)
  /\ Early => fetched = 0
  /\ Path = "legacy" =>
       /\ OnePerCid(wire)
       /\ phase = "chunks" => /\ PeersOK(holders, discovered) /\ Counted(wire, inFlight)
                              /\ Tally(fetched, store, wire, remaining, total)

---------------------------------------------------------------------------
LineOK(o, n, rk) ==
  /\ o \in Seq(Archives) /\ Len(o) = Len(rk) /\ ToSet(o) = ToSet(rk)
  /\ n \in 1 .. Len(o) + 1
  /\ \A i, j \in n .. Len(o) :
       i < j => \E m, k \in DOMAIN rk : m < k /\ rk[m] = o[i] /\ rk[k] = o[j]

Lines(ord, nx) ==
  /\ DOMAIN ord = 1 .. MaxChunks /\ DOMAIN nx = 1 .. MaxChunks
  /\ \A c \in 1 .. MaxChunks : LineOK(ord[c], nx[c], Ranking[c])

\* Every archive asked for a chunk still missing has refused or is awaited.
AskedOK(ord, nx, fl, gt, rf) ==
  \A c \in 1 .. MaxChunks :
    gt[c] = "none" => \A i \in 1 .. nx[c] - 1 : <<c, ord[c][i]>> \in rf \/ fl[c] = ord[c][i]

Pinned(fl, gt) ==
  /\ fl \in [1 .. MaxChunks -> Archives \cup {None}]
  /\ gt \in [1 .. MaxChunks -> {"none", "good"}]
  /\ \A c \in 1 .. MaxChunks : fl[c] # None => gt[c] = "none"

ChunkCap(fl) == Cardinality(InFlight(fl)) <= AtLeastOne(MaxConcurrent)

Sent(fl, w) ==
  Distinct => \A c \in Chunks : fl[c] # None => ChunkRequest(fl[c], c, 0) \in w

\* What was got is on disk.
OnDisk(gt, s) == \A c \in Chunks : gt[c] = "good" => s[cids[c]] = "good"

Whole(w) == \A r \in w : r.off = 0

StatusOK(st, rf, up) ==
  /\ st \in [Archives -> {"none", "untried", "dispatched", "failed"}]
  /\ Cardinality(InState(st, "dispatched")) <= Fanout
  /\ up => \A a \in Archives : st[a] = "failed" => <<0, a>> \in rf

AllListed(st) == \A a \in Assigned : st[a] # "none"

IsV2 == Path \in {"public", "private"}

V2Inv ==
  /\ skip \in BOOLEAN /\ (IsV2 => phase # "discover")
  /\ Lines(order, next) /\ Pinned(flight, got) /\ ChunkCap(flight)
  /\ AskedOK(order, next, flight, got, refused)
  /\ StatusOK(status, refused, netUp)
  /\ Early => \A c \in 1 .. MaxChunks : flight[c] = None /\ got[c] = "none"
  /\ Path = "public" => OnDisk(got, store)
  /\ IsV2 /\ phase = "manifest" => AllListed(status)
  /\ IsV2 /\ phase = "chunks" => Whole(wire)
  /\ Path = "public" /\ phase = "chunks" => Sent(flight, wire)

DownloadInv ==
  /\ FileGiven /\ DownloadBaseInv /\ LegacyInv /\ V2Inv
  /\ GivesUpLast /\ OutputIsTheFile

---------------------------------------------------------------------------
\* A set of naturals that is not empty has a least element.
LEMMA LeastNat ==
  ASSUME NEW T \in SUBSET Nat, T # {}
  PROVE  \E n \in T : \A m \in T : n <= m
<1>1. PICK n \in T : \A m \in T : ~(<<m, n>> \in OpToRel(<, Nat))
  BY NatLessThanWellFounded, WFMin, Zenon
<1>2. \A m \in T : ~(m < n)
  BY <1>1 DEF OpToRel
<1> QED BY <1>2

\* Min of a set of naturals that is not empty is one of them.
LEMMA MinIn ==
  ASSUME NEW T \in SUBSET Nat, T # {}
  PROVE  Min(T) \in T
<1>1. \E n \in T : \A m \in T : n <= m
  BY LeastNat
<1> QED BY <1>1 DEF Min

\* A bounded set of naturals has a greatest element.
LEMMA MaxIn ==
  ASSUME NEW T \in SUBSET Nat, T # {}, NEW n \in Nat, \A x \in T : x <= n
  PROVE  Max(T) \in T /\ \A x \in T : x <= Max(T)
<1> DEFINE U == {m \in Nat : \A x \in T : x <= m}
<1>1. n \in U
  OBVIOUS
<1>2. PICK m \in U : \A k \in U : m <= k
  BY <1>1, LeastNat
<1>3. m \in T
  <2>1. SUFFICES ASSUME m \notin T PROVE FALSE
    OBVIOUS
  <2>2. \A x \in T : x < m
    BY <2>1
  <2>3. PICK x \in T : TRUE
    OBVIOUS
  <2>4. m - 1 \in Nat /\ \A y \in T : y <= m - 1
    BY <2>2, <2>3
  <2>5. m - 1 \in U
    BY <2>4
  <2> QED BY <1>2, <2>5
<1>4. \E x \in T : \A y \in T : x >= y
  BY <1>3, <1>2
<1>5. Max(T) \in T /\ \A y \in T : Max(T) >= y
  BY <1>4, Zenon DEF Max
<1>6. \A y \in T : y \in Nat
  OBVIOUS
<1> DEFINE M == Max(T)
<1>7. M \in T /\ \A y \in T : M >= y
  BY <1>5
<1> HIDE DEF M
<1>8. M \in T /\ \A y \in T : y <= M
  BY <1>6, <1>7
<1> QED BY <1>8 DEF M

Below(S, i) == {j \in S : j < i}

\* Of two elements of a set the greater has more below it.
LEMMA BelowGrows ==
  ASSUME NEW S \in SUBSET Nat, IsFiniteSet(S), NEW a \in S, NEW b \in S, a < b
  PROVE  Cardinality(Below(S, a)) < Cardinality(Below(S, b))
<1>0. \A j \in S : j \in Nat
  OBVIOUS
<1>1. Below(S, b) \in SUBSET S /\ Below(S, a) \in SUBSET Below(S, b)
  <2>1. \A j \in S : j < a => j < b
    BY <1>0
  <2> QED BY <2>1 DEF Below
<1>2. IsFiniteSet(Below(S, b))
  BY <1>1, FS_Subset
<1>3. a \in Below(S, b) /\ a \notin Below(S, a)
  BY DEF Below
<1>4. /\ IsFiniteSet(Below(S, a))
      /\ Cardinality(Below(S, a)) <= Cardinality(Below(S, b))
      /\ Cardinality(Below(S, b)) = Cardinality(Below(S, a)) => Below(S, b) = Below(S, a)
  BY <1>1, <1>2, FS_Subset
<1>5. Cardinality(Below(S, b)) \in Nat /\ Cardinality(Below(S, a)) \in Nat
  BY <1>2, <1>4, FS_CardinalityType
<1> QED BY <1>3, <1>4, <1>5

\* An element of a finite set has fewer below it than the set has elements.
LEMMA BelowType ==
  ASSUME NEW S \in SUBSET Nat, IsFiniteSet(S), NEW a \in S
  PROVE  Cardinality(Below(S, a)) \in 0 .. Cardinality(S) - 1
<1>1. Below(S, a) \in SUBSET S /\ a \in S /\ a \notin Below(S, a)
  BY DEF Below
<1>2. /\ IsFiniteSet(Below(S, a)) /\ Cardinality(Below(S, a)) <= Cardinality(S)
      /\ Cardinality(S) = Cardinality(Below(S, a)) => S = Below(S, a)
  BY <1>1, FS_Subset
<1>3. Cardinality(Below(S, a)) \in Nat /\ Cardinality(S) \in Nat
  BY <1>2, FS_CardinalityType
<1> QED BY <1>1, <1>2, <1>3

\* FirstOf takes no more than asked for.
LEMMA FirstOfBound ==
  ASSUME NEW S \in SUBSET Nat, IsFiniteSet(S), NEW n \in Int
  PROVE  /\ FirstOf(n, S) \subseteq S /\ IsFiniteSet(FirstOf(n, S))
         /\ Cardinality(FirstOf(n, S)) \in Nat
         /\ FirstOf(n, S) # {} => Cardinality(FirstOf(n, S)) <= n
<1> DEFINE F == FirstOf(n, S)
           f == [i \in F |-> Cardinality(Below(S, i))]
<1>1. F = {i \in S : Cardinality(Below(S, i)) < n}
  BY DEF FirstOf, Below
<1>2. F \in SUBSET S
  BY <1>1
<1>3. IsFiniteSet(F)
  BY <1>2, FS_Subset
<1>4. Cardinality(F) \in Nat
  BY <1>3, FS_CardinalityType
<1>5. ASSUME F # {} PROVE Cardinality(F) <= n
  <2>1. \A i \in F : Cardinality(Below(S, i)) \in Nat /\ Cardinality(Below(S, i)) < n
    <3> TAKE i \in F
    <3>1. i \in S
      BY <1>2
    <3>2. Cardinality(Below(S, i)) \in 0 .. Cardinality(S) - 1
      BY <3>1, BelowType
    <3>3. Cardinality(Below(S, i)) < n
      BY <1>1
    <3>4. Cardinality(S) \in Nat
      BY FS_CardinalityType
    <3> QED BY <3>2, <3>3, <3>4
  <2>2. n > 0
    BY <1>5, <2>1
  <2>3. f \in [F -> 0 .. n - 1]
    BY <2>1
  <2>4. \A i, j \in F : i # j => f[i] # f[j]
    <3> SUFFICES ASSUME NEW i \in F, NEW j \in F, i # j PROVE f[i] # f[j]
      OBVIOUS
    <3>1. i \in S /\ j \in S /\ i \in Nat /\ j \in Nat
      BY <1>2
    <3>2. f[i] \in Nat /\ f[j] \in Nat
      BY <2>1
    <3>3. CASE i < j
      <4>1. f[i] < f[j]
        BY <3>1, <3>3, BelowGrows
      <4> QED BY <4>1, <3>2
    <3>4. CASE j < i
      <4>1. f[j] < f[i]
        BY <3>1, <3>4, BelowGrows
      <4> QED BY <4>1, <3>2
    <3> QED BY <3>1, <3>3, <3>4
  <2>5. f \in Injection(F, 0 .. n - 1)
    <3> HIDE DEF f
    <3> QED BY <2>3, <2>4 DEF Injection, IsInjective
  <2>6. IsFiniteSet(0 .. n - 1) /\ Cardinality(0 .. n - 1) = n
    <3>1. IsFiniteSet(0 .. n - 1) /\ Cardinality(0 .. n - 1) = IF 0 > n - 1 THEN 0 ELSE (n - 1) - 0 + 1
      BY FS_Interval
    <3> QED BY <3>1, <2>2
  <2> QED
    <3> HIDE DEF f, F
    <3>1. Cardinality(F) <= Cardinality(0 .. n - 1)
      BY <2>5, <2>6, FS_Injection
    <3> QED BY <3>1, <2>6
<1> QED BY <1>2, <1>3, <1>4, <1>5

\* InOrder lists the whole set.
LEMMA InOrderLists ==
  ASSUME NEW S \in SUBSET Nat, IsFiniteSet(S)
  PROVE  /\ InOrder(S) \in Seq(S) /\ Len(InOrder(S)) = Cardinality(S)
         /\ \A x \in S : \E k \in DOMAIN InOrder(S) : InOrder(S)[k] = x
<1> DEFINE N == Cardinality(S)
           f == [i \in S |-> Cardinality(Below(S, i))]
           q == InOrder(S)
<1>1. N \in Nat
  BY FS_CardinalityType
<1>2. f \in [S -> 0 .. N - 1]
  BY BelowType
<1>3. \A i, j \in S : f[i] = f[j] => i = j
  <2> SUFFICES ASSUME NEW i \in S, NEW j \in S, i # j PROVE f[i] # f[j]
    OBVIOUS
  <2>1. i \in Nat /\ j \in Nat /\ f[i] \in 0 .. N - 1 /\ f[j] \in 0 .. N - 1
    BY <1>2
  <2>2. CASE i < j
    <3>1. f[i] < f[j]
      BY <2>2, BelowGrows
    <3> QED BY <3>1, <2>1, <1>1
  <2>3. CASE j < i
    <3>1. f[j] < f[i]
      BY <2>3, BelowGrows
    <3> QED BY <3>1, <2>1, <1>1
  <2> QED BY <2>1, <2>2, <2>3
<1>4. f \in Injection(S, 0 .. N - 1)
  <2> HIDE DEF f
  <2> QED BY <1>2, <1>3 DEF Injection, IsInjective
<1>5. IsFiniteSet(0 .. N - 1) /\ Cardinality(0 .. N - 1) = N
  <2>1. IsFiniteSet(0 .. N - 1) /\ Cardinality(0 .. N - 1) = IF 0 > N - 1 THEN 0 ELSE (N - 1) - 0 + 1
    BY <1>1, FS_Interval
  <2> QED BY <2>1, <1>1
<1>6. f \in Surjection(S, 0 .. N - 1)
  <2> HIDE DEF f
  <2> QED BY <1>4, <1>5, FS_Injection
<1>7. \A m \in 0 .. N - 1 : \E i \in S : f[i] = m
  <2> HIDE DEF f
  <2> QED BY <1>6 DEF Surjection
<1>8. q = [k \in 1 .. N |-> CHOOSE i \in S : Cardinality(Below(S, i)) = k - 1]
  BY DEF InOrder, Below
<1>9. \A k \in 1 .. N : q[k] \in S /\ Cardinality(Below(S, q[k])) = k - 1
  <2> TAKE k \in 1 .. N
  <2>1. k - 1 \in 0 .. N - 1
    BY <1>1
  <2>2. \E i \in S : Cardinality(Below(S, i)) = k - 1
    BY <1>7, <2>1
  <2> HIDE DEF q, f
  <2> QED BY <1>8, <2>2
<1>10. q \in [1 .. N -> S]
  <2> HIDE DEF q, f
  <2> QED BY <1>8, <1>9
<1>11. q \in Seq(S) /\ Len(q) = N /\ DOMAIN q = 1 .. N
  <2> HIDE DEF q, f
  <2>1. q \in Seq(S)
    BY <1>1, <1>10, SeqDef
  <2> QED BY <1>1, <2>1, <1>10, LenProperties
<1>12. ASSUME NEW x \in S PROVE \E k \in DOMAIN q : q[k] = x
  <2> DEFINE k == f[x] + 1
  <2>1. f[x] \in 0 .. N - 1 /\ f[x] = Cardinality(Below(S, x))
    BY <1>2
  <2>2. k \in 1 .. N /\ k - 1 = f[x]
    BY <2>1, <1>1
  <2>3. q[k] \in S /\ f[q[k]] = f[x]
    BY <1>9, <2>1, <2>2
  <2>4. q[k] = x
    <3> HIDE DEF q, f, k
    <3> QED BY <2>3, <1>3
  <2> QED
    <3> HIDE DEF q, f, k
    <3> QED BY <2>4, <2>2, <1>11
<1> QED
  <2> HIDE DEF f
  <2> QED BY <1>11, <1>12

\* The ranking of a chunk is a list of archives.
LEMMA RankingType ==
  ASSUME NEW c \in 1 .. MaxChunks
  PROVE  /\ Ranking[c] \in Seq(Archives) /\ Len(Ranking[c]) \in Nat
         /\ DOMAIN Ranking[c] = 1 .. Len(Ranking[c])
<1>1. Ranking[c] \in Seq(Archives)
  BY DownloadAssumption
<1> QED BY <1>1, LenProperties

\* The archive asked next is still in line.
LEMMA NextPosType ==
  ASSUME NEW o \in Seq(Archives), NEW n \in 1 .. Len(o) + 1, NEW ks, NEW sk, NextPos(o, n, ks, sk) # 0
  PROVE  NextPos(o, n, ks, sk) \in n .. Len(o)
<1> DEFINE resolved == {p \in n .. Len(o) : o[p] \in ks}
<1>1. Len(o) \in Nat
  BY LenProperties
<1>2. resolved \in SUBSET Nat
  BY <1>1
<1>3. NextPos(o, n, ks, sk) = IF sk /\ resolved # {} THEN Min(resolved) ELSE IF n \in resolved THEN n ELSE 0
  BY DEF NextPos
<1>4. resolved # {} => Min(resolved) \in resolved
  BY <1>2, MinIn
<1>5. \A p \in resolved : p \in n .. Len(o)
  OBVIOUS
<1> HIDE DEF resolved
<1> QED BY <1>3, <1>4, <1>5

\* mark_archive_asked moves the archive asked in front of those passed over and
\* leaves the rest of the line in its order.
LEMMA MarkAskedLine ==
  ASSUME NEW rk \in Seq(Archives), NEW o, NEW n, LineOK(o, n, rk), NEW pos \in n .. Len(o)
  PROVE  /\ LineOK(MarkAsked(o, n, pos), n + 1, rk)
         /\ MarkAsked(o, n, pos)[n] = o[pos] /\ o[pos] \in Archives
         /\ \A i \in 1 .. n - 1 : MarkAsked(o, n, pos)[i] = o[i]
<1> DEFINE q == MarkAsked(o, n, pos)
           sh(i) == IF i \in n + 1 .. pos THEN i - 1 ELSE i
<1>1. o \in Seq(Archives) /\ Len(o) = Len(rk) /\ ToSet(o) = ToSet(rk) /\ n \in 1 .. Len(o) + 1
  BY DEF LineOK
<1>2. Len(o) \in Nat /\ DOMAIN o = 1 .. Len(o) /\ o \in [1 .. Len(o) -> Archives]
  BY <1>1, LenProperties
<1>3. pos \in 1 .. Len(o) /\ n \in 1 .. Len(o) /\ n \in Nat /\ pos \in Nat /\ n <= pos
  BY <1>1, <1>2
<1>4. q = [i \in 1 .. Len(o) |-> IF i = n THEN o[pos] ELSE IF i \in n + 1 .. pos THEN o[i - 1] ELSE o[i]]
  BY <1>2 DEF MarkAsked
<1>5. \A i \in 1 .. Len(o) : i # n => sh(i) \in 1 .. Len(o) /\ q[i] = o[sh(i)]
  BY <1>3, <1>4
<1>6. q[n] = o[pos] /\ o[pos] \in Archives
  BY <1>2, <1>3, <1>4
<1>7. \A i \in 1 .. Len(o) : q[i] \in Archives
  <2> HIDE DEF q, sh
  <2> QED BY <1>2, <1>5, <1>6
<1>8. q \in [1 .. Len(o) -> Archives]
  <2>1. q = [i \in 1 .. Len(o) |-> q[i]]
    BY <1>4
  <2> HIDE DEF q
  <2> QED BY <1>7, <2>1
<1>9. q \in Seq(Archives) /\ Len(q) = Len(o) /\ DOMAIN q = 1 .. Len(o)
  <2> HIDE DEF q
  <2>1. q \in Seq(Archives)
    BY <1>2, <1>8, SeqDef
  <2> QED BY <2>1, <1>2, <1>8, LenProperties
<1>10. ToSet(q) = ToSet(o)
  <2>1. ASSUME NEW i \in 1 .. Len(o) PROVE \E j \in 1 .. Len(o) : q[i] = o[j]
    <3> HIDE DEF q, sh
    <3> QED BY <1>3, <1>5, <1>6
  <2>2. ASSUME NEW j \in 1 .. Len(o) PROVE \E i \in 1 .. Len(o) : q[i] = o[j]
    <3>1. CASE j = pos
      BY <3>1, <1>3, <1>6
    <3>2. CASE j \in n .. pos - 1
      <4>1. j + 1 \in 1 .. Len(o) /\ j + 1 # n /\ j + 1 \in n + 1 .. pos /\ (j + 1) - 1 = j
        BY <3>2, <1>2, <1>3
      <4>2. q[j + 1] = o[j]
        BY <4>1, <1>4
      <4> QED BY <4>1, <4>2
    <3>3. CASE j \notin n .. pos
      <4>1. j # n /\ j \notin n + 1 .. pos
        BY <3>3, <1>2, <1>3
      <4> QED BY <4>1, <1>4
    <3> QED BY <3>1, <3>2, <3>3, <1>2, <1>3
  <2> HIDE DEF q
  <2>3. ToSet(q) = {q[i] : i \in 1 .. Len(o)} /\ ToSet(o) = {o[i] : i \in 1 .. Len(o)}
    BY <1>2, <1>9 DEF ToSet
  <2>4. {q[i] : i \in 1 .. Len(o)} \subseteq {o[i] : i \in 1 .. Len(o)}
    BY <2>1
  <2>5. {o[i] : i \in 1 .. Len(o)} \subseteq {q[i] : i \in 1 .. Len(o)}
    BY <2>2
  <2> QED BY <2>3, <2>4, <2>5
<1>11. ASSUME NEW i \in n + 1 .. Len(q), NEW j \in n + 1 .. Len(q), i < j
       PROVE  \E m, k \in DOMAIN rk : m < k /\ rk[m] = q[i] /\ rk[k] = q[j]
  <2>1. i \in 1 .. Len(o) /\ j \in 1 .. Len(o) /\ i # n /\ j # n
    BY <1>9, <1>2, <1>3
  <2>2. sh(i) \in n .. Len(o) /\ sh(j) \in n .. Len(o) /\ sh(i) < sh(j)
    BY <1>11, <2>1, <1>9, <1>2, <1>3
  <2>3. q[i] = o[sh(i)] /\ q[j] = o[sh(j)]
    BY <1>5, <2>1
  <2> HIDE DEF sh, q
  <2>4. \E m, k \in DOMAIN rk : m < k /\ rk[m] = o[sh(i)] /\ rk[k] = o[sh(j)]
    BY <2>2 DEF LineOK
  <2> QED BY <2>3, <2>4
<1>12. n + 1 \in 1 .. Len(q) + 1
  BY <1>9, <1>3, <1>2
<1>13. LineOK(q, n + 1, rk)
  <2> HIDE DEF q
  <2> QED BY <1>1, <1>9, <1>10, <1>11, <1>12 DEF LineOK
<1>14. \A i \in 1 .. n - 1 : q[i] = o[i]
  <2> TAKE i \in 1 .. n - 1
  <2>1. i \in 1 .. Len(o) /\ i # n /\ i \notin n + 1 .. pos
    BY <1>2, <1>3
  <2>2. q[i] = o[i]
    BY <2>1, <1>4
  <2> QED BY <2>2
<1> QED BY <1>6, <1>13, <1>14

\* The image of a finite set is finite and no larger.
LEMMA ImageOf ==
  ASSUME NEW S, IsFiniteSet(S), NEW f
  PROVE  /\ IsFiniteSet({f[x] : x \in S})
         /\ Cardinality({f[x] : x \in S}) <= Cardinality(S)
<1> DEFINE T == {f[x] : x \in S}
           g == [x \in S |-> f[x]]
<1>1. g \in Surjection(S, T)
  BY DEF Surjection
<1> QED BY <1>1, FS_Surjection

\* What is known of the file's chunks and their CIDs.
LEMMA ChunksType ==
  ASSUME FileGiven
  PROVE  /\ cids \in Seq(Cids) /\ Len(cids) \in 0 .. MaxChunks /\ DOMAIN cids = Chunks
         /\ Chunks \subseteq 1 .. MaxChunks /\ Chunks \in SUBSET Nat /\ IsFiniteSet(Chunks)
         /\ \A c \in Chunks : cids[c] \in Cids /\ cids[c] \in ToSet(cids)
         /\ ToSet(cids) \subseteq Cids /\ IsFiniteSet(ToSet(cids))
         /\ size \in Nat /\ Cardinality(Chunks) = size
<1>1. PICK f \in Wanted : cids = f.cids
  BY DEF FileGiven
<1>2. cids \in Seq(ToSet(cids)) /\ Len(cids) <= MaxChunks /\ MaxChunks \in Nat
  BY <1>1, DownloadAssumption
<1>3. ToSet(cids) \subseteq Cids
  BY <1>1 DEF Cids
<1>4. cids \in Seq(Cids)
  BY <1>2, <1>3, SeqMonotonic
<1>5. Len(cids) \in Nat /\ DOMAIN cids = 1 .. Len(cids) /\ cids \in [1 .. Len(cids) -> Cids]
  BY <1>4, LenProperties
<1>6. Chunks = 1 .. Len(cids) /\ size = Len(cids)
  BY DEF Chunks, size
<1>7. IsFiniteSet(1 .. Len(cids)) /\ Cardinality(1 .. Len(cids)) = Len(cids)
  <2>1. 1 \in Int /\ Len(cids) \in Int
    BY <1>5
  <2>2. IsFiniteSet(1 .. Len(cids)) /\ Cardinality(1 .. Len(cids)) = IF 1 > Len(cids) THEN 0 ELSE Len(cids) - 1 + 1
    BY <2>1, FS_Interval
  <2> QED BY <2>2, <1>5
<1>8. ToSet(cids) = {cids[x] : x \in 1 .. Len(cids)}
  BY <1>5 DEF ToSet
<1>9. IsFiniteSet({cids[x] : x \in 1 .. Len(cids)})
  BY <1>7, ImageOf
<1>10. \A c \in 1 .. Len(cids) : cids[c] \in Cids /\ cids[c] \in ToSet(cids)
  BY <1>5, <1>8
<1>11. 1 .. Len(cids) \subseteq 1 .. MaxChunks /\ 1 .. Len(cids) \in SUBSET Nat
  BY <1>2, <1>5
<1>12. Len(cids) \in 0 .. MaxChunks
  BY <1>2, <1>5
<1> QED BY <1>3, <1>4, <1>5, <1>6, <1>7, <1>8, <1>9, <1>10, <1>11, <1>12

\* What the chunk phase of a V2 download keeps.
ChunkState(ord, nx, fl, gt, rf, w) ==
  /\ Lines(ord, nx) /\ Pinned(fl, gt) /\ ChunkCap(fl) /\ AskedOK(ord, nx, fl, gt, rf)
  /\ WireOK(w) /\ ForChunks(w) /\ Whole(w)

\* The fields of a request.
LEMMA RequestFields ==
  \A a, c, o : /\ ChunkRequest(a, c, o).kind = "chunk" /\ ChunkRequest(a, c, o).peer = a
               /\ ChunkRequest(a, c, o).idx = c /\ ChunkRequest(a, c, o).off = o
               /\ ManifestRequest(a).kind = "manifest" /\ ManifestRequest(a).peer = a
               /\ ManifestRequest(a).idx = 0 /\ ManifestRequest(a).off = 0
  BY DEF ChunkRequest, ManifestRequest

\* A request to an archive has its type.
LEMMA RequestType ==
  ASSUME NEW a \in Archives, NEW c \in 0 .. MaxChunks, NEW o \in Nat
  PROVE  ChunkRequest(a, c, o) \in Requests /\ ManifestRequest(a) \in Requests
<1>1. 0 \in 0 .. MaxChunks
  BY DownloadAssumption
<1> QED BY <1>1 DEF ChunkRequest, ManifestRequest, Requests

\* The chunks asked for next, with the archive each is asked of.
LEMMA TargetsType ==
  ASSUME FileGiven, NEW fl, NEW gt, NEW ks, NEW sk, Lines(order, next)
  PROVE  LET to == ChunkTargets(next, fl, gt, ks, sk)
             pos(c) == NextPos(order[c], next[c], ks, sk) IN
         /\ to \subseteq Chunks /\ IsFiniteSet(to)
         /\ Cardinality(to) \in Nat
         /\ Cardinality(InFlight(fl)) \in Nat
         /\ to # {} => Cardinality(to) <= AtLeastOne(MaxConcurrent) - Cardinality(InFlight(fl))
         /\ \A c \in to : /\ gt[c] = "none" /\ fl[c] = None
                          /\ pos(c) \in next[c] .. Len(order[c])
<1> DEFINE to == ChunkTargets(next, fl, gt, ks, sk)
           ready == Ready(next, fl, gt, ks, sk)
           room == AtLeastOne(MaxConcurrent) - Cardinality(InFlight(fl))
<1>1. Chunks \in SUBSET Nat /\ IsFiniteSet(Chunks) /\ Chunks \subseteq 1 .. MaxChunks
  BY ChunksType
<1>2. ready \in SUBSET Chunks /\ InFlight(fl) \in SUBSET Chunks
  BY DEF Ready, InFlight
<1>3. IsFiniteSet(ready) /\ ready \in SUBSET Nat
  BY <1>1, <1>2, FS_Subset
<1>4. Cardinality(InFlight(fl)) \in Nat
  BY <1>1, <1>2, FS_Subset, FS_CardinalityType
<1>5. AtLeastOne(MaxConcurrent) \in Nat
  BY DownloadAssumption DEF AtLeastOne
<1>6. room \in Int
  BY <1>4, <1>5
<1>7. to = FirstOf(room, ready)
  BY DEF ChunkTargets
<1>8. /\ to \subseteq ready /\ IsFiniteSet(to) /\ Cardinality(to) \in Nat
      /\ to # {} => Cardinality(to) <= room
  BY <1>3, <1>6, <1>7, FirstOfBound
<1>9. ASSUME NEW c \in to
      PROVE  /\ gt[c] = "none" /\ fl[c] = None
             /\ NextPos(order[c], next[c], ks, sk) \in next[c] .. Len(order[c])
  <2>1. c \in ready /\ c \in 1 .. MaxChunks
    BY <1>1, <1>2, <1>8
  <2>2. gt[c] = "none" /\ fl[c] = None /\ NextPos(order[c], next[c], ks, sk) # 0
    BY <2>1 DEF Ready
  <2>3. order[c] \in Seq(Archives) /\ next[c] \in 1 .. Len(order[c]) + 1
    BY <2>1 DEF Lines, LineOK
  <2> QED BY <2>2, <2>3, NextPosType
<1> HIDE DEF to, ready, room
<1>10. to \subseteq Chunks
  BY <1>2, <1>8
<1> QED BY <1>4, <1>8, <1>9, <1>10 DEF to, room

\* try_dispatch keeps every line, every cap and every pin.
LEMMA DispatchKeeps ==
  ASSUME FileGiven, NEW fl, NEW gt, NEW rf, NEW w, NEW ks, NEW sk,
         ChunkState(order, next, fl, gt, rf, w), TryDispatch(fl, gt, ks, sk, w)
  PROVE  /\ ChunkState(order', next', flight', gt, rf, wire')
         /\ Sent(fl, w) => Sent(flight', wire')
         /\ output' = output
         /\ (phase' = "chunks" /\ why' = why) \/ (phase' = "failed" /\ why' = "send")
<1> DEFINE to == ChunkTargets(next, fl, gt, ks, sk)
           pos == [c \in to |-> NextPos(order[c], next[c], ks, sk)]
<1>a. Lines(order, next) /\ Pinned(fl, gt) /\ ChunkCap(fl) /\ AskedOK(order, next, fl, gt, rf)
      /\ WireOK(w) /\ ForChunks(w) /\ Whole(w)
  BY DEF ChunkState
<1>1. CASE to # {} /\ ~netUp
  <2>1. Fail("send") /\ wire' = w /\ flight' = fl /\ UNCHANGED <<order, next>>
    BY <1>1 DEF TryDispatch
  <2> QED BY <2>1 DEF Fail
<1>2. CASE ~(to # {} /\ ~netUp)
  <2>1. Ask(to, pos, fl, w)
    BY <1>2 DEF TryDispatch
  <2>2. /\ to \subseteq Chunks /\ IsFiniteSet(to) /\ Cardinality(to) \in Nat
        /\ Cardinality(InFlight(fl)) \in Nat
        /\ to # {} => Cardinality(to) <= AtLeastOne(MaxConcurrent) - Cardinality(InFlight(fl))
        /\ \A c \in to : gt[c] = "none" /\ fl[c] = None /\ pos[c] \in next[c] .. Len(order[c])
    BY <1>a, TargetsType
  <2>3. Chunks \subseteq 1 .. MaxChunks /\ Chunks \in SUBSET Nat /\ IsFiniteSet(Chunks)
    BY ChunksType
  <2> HIDE DEF to, pos
  <2>4. /\ order' = [c \in 1 .. MaxChunks |-> IF c \in to THEN MarkAsked(order[c], next[c], pos[c]) ELSE order[c]]
        /\ next' = [c \in 1 .. MaxChunks |-> IF c \in to THEN next[c] + 1 ELSE next[c]]
        /\ flight' = [c \in 1 .. MaxChunks |-> IF c \in to THEN order[c][pos[c]] ELSE fl[c]]
        /\ wire' = w \cup {ChunkRequest(order[c][pos[c]], c, 0) : c \in to}
        /\ phase' = "chunks" /\ why' = why /\ output' = output
    BY <2>1 DEF Ask
  <2>5. \A c \in 1 .. MaxChunks : LineOK(order[c], next[c], Ranking[c]) /\ Ranking[c] \in Seq(Archives)
    BY <1>a, RankingType DEF Lines
  <2>6. ASSUME NEW c \in to
        PROVE  /\ LineOK(MarkAsked(order[c], next[c], pos[c]), next[c] + 1, Ranking[c])
               /\ MarkAsked(order[c], next[c], pos[c])[next[c]] = order[c][pos[c]]
               /\ order[c][pos[c]] \in Archives
               /\ \A i \in 1 .. next[c] - 1 : MarkAsked(order[c], next[c], pos[c])[i] = order[c][i]
    <3>1. c \in 1 .. MaxChunks /\ pos[c] \in next[c] .. Len(order[c])
      BY <2>2, <2>3
    <3> QED BY <3>1, <2>5, MarkAskedLine
  <2>7. Lines(order', next')
    BY <2>4, <2>5, <2>6 DEF Lines
  <2>8. Pinned(flight', gt)
    BY <2>2, <2>3, <2>4, <2>6, <1>a DEF Pinned
  <2>9. ChunkCap(flight')
    <3>1. InFlight(flight') \subseteq InFlight(fl) \cup to
      BY <2>2, <2>3, <2>4 DEF InFlight
    <3>2. IsFiniteSet(InFlight(fl))
      BY <2>3, FS_Subset DEF InFlight
    <3>3. InFlight(fl) \cap to = {}
      BY <2>2 DEF InFlight
    <3>4. IsFiniteSet(InFlight(fl) \cup to)
          /\ Cardinality(InFlight(fl) \cup to) = Cardinality(InFlight(fl)) + Cardinality(to)
      <4>1. Cardinality(InFlight(fl) \cap to) = 0
        BY <3>3, FS_EmptySet
      <4>2. IsFiniteSet(InFlight(fl) \cup to)
            /\ Cardinality(InFlight(fl) \cup to)
                 = Cardinality(InFlight(fl)) + Cardinality(to) - Cardinality(InFlight(fl) \cap to)
        BY <2>2, <3>2, FS_Union
      <4> QED BY <4>1, <4>2, <2>2
    <3>5. Cardinality(InFlight(flight')) <= Cardinality(InFlight(fl) \cup to)
          /\ Cardinality(InFlight(flight')) \in Nat
      BY <3>1, <3>4, FS_Subset, FS_CardinalityType
    <3>6. to = {} => Cardinality(to) = 0
      BY FS_EmptySet
    <3>7. AtLeastOne(MaxConcurrent) \in Nat
      BY DownloadAssumption DEF AtLeastOne
    <3>8. Cardinality(InFlight(fl)) <= AtLeastOne(MaxConcurrent)
      BY <1>a DEF ChunkCap
    <3> QED BY <2>2, <3>4, <3>5, <3>6, <3>7, <3>8 DEF ChunkCap
  <2>10. AskedOK(order', next', flight', gt, rf)
    <3> SUFFICES ASSUME NEW c \in 1 .. MaxChunks, gt[c] = "none", NEW i \in 1 .. next'[c] - 1
                 PROVE  <<c, order'[c][i]>> \in rf \/ flight'[c] = order'[c][i]
      BY DEF AskedOK
    <3>1. next[c] \in Nat /\ next[c] >= 1
      <4>1. order[c] \in Seq(Archives) /\ next[c] \in 1 .. Len(order[c]) + 1
        BY <2>5 DEF LineOK
      <4>2. Len(order[c]) \in Nat
        BY <4>1, LenProperties
      <4> QED BY <4>1, <4>2
    <3>2. CASE c \in to
      <4>1. next'[c] = next[c] + 1 /\ order'[c] = MarkAsked(order[c], next[c], pos[c])
            /\ flight'[c] = order[c][pos[c]]
        BY <2>4, <3>2
      <4>2. i = next[c] \/ i \in 1 .. next[c] - 1
        BY <3>1, <4>1
      <4>3. CASE i = next[c]
        BY <4>1, <4>3, <2>6, <3>2
      <4>4. CASE i \in 1 .. next[c] - 1
        <5>1. order'[c][i] = order[c][i]
          BY <4>1, <4>4, <2>6, <3>2
        <5>2. fl[c] = None
          BY <3>2, <2>2
        <5>3. <<c, order[c][i]>> \in rf \/ fl[c] = order[c][i]
          BY <4>4, <1>a DEF AskedOK
        <5>4. order[c][i] \in Archives
          <6>1. order[c] \in Seq(Archives) /\ next[c] \in 1 .. Len(order[c]) + 1
            BY <2>5 DEF LineOK
          <6>2. Len(order[c]) \in Nat
            BY <6>1, LenProperties
          <6>3. i \in 1 .. Len(order[c])
            BY <6>1, <6>2, <4>4
          <6> QED BY <6>1, <6>3, ElementOfSeq
        <5> QED BY <5>1, <5>2, <5>3, <5>4, DownloadAssumption
      <4> QED BY <4>2, <4>3, <4>4
    <3>3. CASE c \notin to
      <4>1. next'[c] = next[c] /\ order'[c] = order[c] /\ flight'[c] = fl[c]
        BY <2>4, <3>3
      <4> QED BY <4>1, <1>a DEF AskedOK
    <3> QED BY <3>2, <3>3
  <2>11. ASSUME NEW c \in to
         PROVE  /\ ChunkRequest(order[c][pos[c]], c, 0) \in Requests
                /\ c \in Chunks
    <3>1. c \in 0 .. MaxChunks /\ c \in Chunks
      BY <2>2, <2>3
    <3> QED BY <3>1, <2>6, RequestType
  <2>12. WireOK(wire')
    <3> DEFINE g == [c \in to |-> ChunkRequest(order[c][pos[c]], c, 0)]
    <3>1. {ChunkRequest(order[c][pos[c]], c, 0) : c \in to} = {g[c] : c \in to}
      OBVIOUS
    <3>2. IsFiniteSet({g[c] : c \in to})
      <4> HIDE DEF g
      <4> QED BY <2>2, ImageOf
    <3>3. IsFiniteSet(w \cup {g[c] : c \in to})
      BY <3>2, <1>a, FS_Union DEF WireOK
    <3>4. w \subseteq Requests
      BY <1>a DEF WireOK
    <3> HIDE DEF g
    <3> QED BY <2>4, <2>11, <3>1, <3>3, <3>4 DEF WireOK
  <2>13. ForChunks(wire') /\ Whole(wire')
    BY <2>4, <2>11, <1>a, RequestFields DEF ForChunks, Whole
  <2>14. Sent(fl, w) => Sent(flight', wire')
    BY <2>3, <2>4 DEF Sent
  <2>15. ChunkState(order', next', flight', gt, rf, wire')
    BY <2>7, <2>8, <2>9, <2>10, <2>12, <2>13 DEF ChunkState
  <2>16. phase' = "chunks" /\ why' = why /\ output' = output
    BY <2>4
  <2> QED BY <2>14, <2>15, <2>16
<1> QED BY <1>1, <1>2

\* The fan-out is a number, and the archives assigned are archives.
LEMMA FanoutType ==
  ASSUME FileGiven
  PROVE  Fanout \in Nat /\ Assigned \subseteq Archives
<1>1. Chunks \subseteq 1 .. MaxChunks
  BY ChunksType
<1>2. ASSUME NEW c \in Chunks PROVE ToSet(Ranking[c]) \subseteq Archives
  <2>1. Ranking[c] \in Seq(Archives) /\ DOMAIN Ranking[c] = 1 .. Len(Ranking[c])
    BY <1>1, RankingType
  <2> QED BY <2>1, ElementOfSeq DEF ToSet
<1>3. Assigned \in SUBSET Archives
  BY <1>2 DEF Assigned
<1>4. Cardinality(Assigned) \in Nat
  BY <1>3, DownloadAssumption, FS_Subset, FS_CardinalityType
<1>5. AtLeastOne(MaxConcurrent) \in Nat
  BY DownloadAssumption DEF AtLeastOne
<1>6. \A m, n \in Nat : Least(m, n) \in Nat
  BY DEF Least
<1> QED BY <1>3, <1>4, <1>5, <1>6 DEF Fanout

\* No more archives are asked for the manifest than fanout leaves room for.
LEMMA ManifestTargetsType ==
  ASSUME FileGiven, NEW st, NEW ks
  PROVE  LET T == ManifestTargets(st, ks) IN
         /\ T \subseteq Archives /\ IsFiniteSet(T) /\ Cardinality(T) \in Nat
         /\ \A a \in T : st[a] = "untried" /\ a \in ks
         /\ T # {} => Cardinality(T) <= Fanout - Cardinality(InState(st, "dispatched"))
<1> DEFINE T == ManifestTargets(st, ks)
           ready == {i \in DOMAIN AddressOrder : st[AddressOrder[i]] = "untried" /\ AddressOrder[i] \in ks}
           room == Fanout - Cardinality(InState(st, "dispatched"))
           F == FirstOf(room, ready)
<1>1. Len(AddressOrder) \in Nat /\ DOMAIN AddressOrder = 1 .. Len(AddressOrder)
      /\ AddressOrder \in [1 .. Len(AddressOrder) -> Archives]
  BY OrderAssumption, LenProperties
<1>2. ready \in SUBSET (1 .. Len(AddressOrder)) /\ ready \in SUBSET Nat
  BY <1>1
<1>3. IsFiniteSet(ready)
  <2>1. IsFiniteSet(1 .. Len(AddressOrder))
    BY <1>1, FS_Interval
  <2> HIDE DEF ready
  <2> QED BY <1>2, <2>1, FS_Subset
<1>4. InState(st, "dispatched") \in SUBSET Archives
  BY DEF InState
<1>5. Cardinality(InState(st, "dispatched")) \in Nat
  BY <1>4, DownloadAssumption, FS_Subset, FS_CardinalityType
<1>6. room \in Int
  BY <1>5, FanoutType
<1>7. F \subseteq ready /\ IsFiniteSet(F) /\ Cardinality(F) \in Nat /\ (F # {} => Cardinality(F) <= room)
  BY <1>2, <1>3, <1>6, FirstOfBound
<1>8. T = {AddressOrder[i] : i \in F}
  BY DEF ManifestTargets
<1>9. \A i \in F : i \in ready
  BY <1>7
<1>10. \A i \in F : AddressOrder[i] \in Archives /\ st[AddressOrder[i]] = "untried" /\ AddressOrder[i] \in ks
  <2> TAKE i \in F
  <2>1. i \in ready
    BY <1>9
  <2> QED BY <2>1, <1>1
<1> HIDE DEF T, F, ready, room
<1>11. IsFiniteSet(T) /\ Cardinality(T) <= Cardinality(F)
  BY <1>7, <1>8, ImageOf
<1>12. Cardinality(T) \in Nat
  BY <1>11, FS_CardinalityType
<1>13. T # {} => F # {}
  BY <1>8
<1>14. T # {} => Cardinality(T) <= room
  BY <1>7, <1>11, <1>12, <1>13, <1>6
<1>15. \A a \in T : a \in Archives /\ st[a] = "untried" /\ a \in ks
  BY <1>8, <1>10
<1> QED BY <1>11, <1>12, <1>14, <1>15 DEF T, room

\* A wave of manifest requests keeps to the fan-out, and the fan-out ends only
\* when every assigned archive has failed.
LEMMA WaveKeeps ==
  ASSUME FileGiven, NEW st, NEW ks \in SUBSET Archives, NEW w, NEW rf,
         netUp \in BOOLEAN, StatusOK(st, rf, netUp), AllListed(st), WireOK(w), DispatchWave(st, ks, w)
  PROVE  /\ StatusOK(status', rf, netUp) /\ known' = ks /\ WireOK(wire') /\ output' = output
         /\ \/ phase' = "manifest" /\ why' = why /\ AllListed(status')
            \/ /\ phase' = "failed" /\ why' = "allfailed"
               /\ netUp => \A a \in Assigned : <<0, a>> \in rf
<1> DEFINE T == ManifestTargets(st, ks)
           States == {"none", "untried", "dispatched", "failed"}
<1>1. /\ T \subseteq Archives /\ IsFiniteSet(T) /\ Cardinality(T) \in Nat
      /\ \A a \in T : st[a] = "untried" /\ a \in ks
      /\ T # {} => Cardinality(T) <= Fanout - Cardinality(InState(st, "dispatched"))
  BY ManifestTargetsType
<1>2. Fanout \in Nat /\ Assigned \subseteq Archives
  BY FanoutType
<1>3. st \in [Archives -> States] /\ Cardinality(InState(st, "dispatched")) <= Fanout
      /\ (netUp => \A a \in Archives : st[a] = "failed" => <<0, a>> \in rf)
  BY DEF StatusOK
<1>4. known' = ks /\ wire' = IF netUp THEN w \cup {ManifestRequest(a) : a \in T} ELSE w
  BY DEF DispatchWave
<1> HIDE DEF T
<1>5. PICK A \in SUBSET Archives, s \in {"dispatched", "failed"} :
        /\ status' = With(st, A, s)
        /\ \A a \in A : st[a] = "untried"
        /\ s = "dispatched" => A = T
        /\ s = "failed" => ~netUp \/ A = {}
  <2> USE <1>1
  <2>0. InState(st, "untried") \cap ks \in SUBSET Archives /\ \A a \in InState(st, "untried") \cap ks : st[a] = "untried"
    BY DEF InState
  <2>1. status' = IF Path = "public" THEN PublicWave(st, ks) ELSE PrivateWave(st, ks)
    BY DEF DispatchWave
  <2>2. CASE netUp
    <3>1. status' = With(st, T, "dispatched")
      BY <2>1, <2>2 DEF PublicWave, PrivateWave, T
    <3> QED BY <3>1
  <2>3. CASE ~netUp /\ Path # "public"
    <3>1. status' = With(st, T, "failed")
      BY <2>1, <2>3 DEF PrivateWave, T
    <3> QED BY <3>1, <2>3
  <2>4. CASE ~netUp /\ Path = "public" /\ T = {}
    <3>1. status' = With(st, T, "dispatched")
      BY <2>1, <2>4 DEF PublicWave, T
    <3> QED BY <3>1
  <2>5. CASE ~netUp /\ Path = "public" /\ T # {}
    <3>1. status' = With(st, InState(st, "untried") \cap ks, "failed")
      BY <2>1, <2>5 DEF PublicWave, T
    <3> QED BY <3>1, <2>0, <2>5
  <2> QED BY <2>2, <2>3, <2>4, <2>5
<1>6. \A a \in Archives : status'[a] = IF a \in A THEN s ELSE st[a]
  BY <1>5 DEF With
<1>7. status' \in [Archives -> States]
  BY <1>3, <1>5 DEF With
<1>8. Cardinality(InState(status', "dispatched")) <= Fanout
  <2>1. InState(st, "dispatched") \in SUBSET Archives /\ IsFiniteSet(Archives)
    BY DownloadAssumption DEF InState
  <2>2. IsFiniteSet(InState(st, "dispatched")) /\ Cardinality(InState(st, "dispatched")) \in Nat
    BY <2>1, FS_Subset, FS_CardinalityType
  <2>3. CASE s = "failed"
    <3>1. InState(status', "dispatched") \in SUBSET InState(st, "dispatched")
      BY <1>6, <2>3 DEF InState
    <3>2. IsFiniteSet(InState(status', "dispatched"))
          /\ Cardinality(InState(status', "dispatched")) <= Cardinality(InState(st, "dispatched"))
      BY <2>2, <3>1, FS_Subset
    <3>3. Cardinality(InState(status', "dispatched")) \in Nat
      BY <3>2, FS_CardinalityType
    <3> QED BY <3>2, <3>3, <2>2, <1>2, <1>3
  <2>4. CASE s = "dispatched"
    <3>0. A = T
      BY <1>5, <2>4
    <3>1. InState(status', "dispatched") \in SUBSET (InState(st, "dispatched") \cup T)
      BY <1>6, <3>0 DEF InState
    <3>2. InState(st, "dispatched") \cap T = {}
      BY <1>1 DEF InState
    <3>3. Cardinality(InState(st, "dispatched") \cap T) = 0
      BY <3>2, FS_EmptySet
    <3>4. IsFiniteSet(InState(st, "dispatched") \cup T)
          /\ Cardinality(InState(st, "dispatched") \cup T) = Cardinality(InState(st, "dispatched")) + Cardinality(T)
               - Cardinality(InState(st, "dispatched") \cap T)
      BY <1>1, <2>2, FS_Union
    <3>5. IsFiniteSet(InState(status', "dispatched"))
          /\ Cardinality(InState(status', "dispatched")) <= Cardinality(InState(st, "dispatched") \cup T)
      BY <3>1, <3>4, FS_Subset
    <3>6. Cardinality(InState(status', "dispatched")) \in Nat
      BY <3>5, FS_CardinalityType
    <3>7. T = {} => Cardinality(T) = 0
      BY FS_EmptySet
    <3> QED BY <3>3, <3>4, <3>5, <3>6, <3>7, <2>2, <1>1, <1>2, <1>3
  <2> QED BY <2>3, <2>4
<1>9. netUp => \A a \in Archives : status'[a] = "failed" => <<0, a>> \in rf
  BY <1>3, <1>5, <1>6
<1>10. StatusOK(status', rf, netUp)
  BY <1>7, <1>8, <1>9 DEF StatusOK
<1>11. WireOK(wire')
  <2> DEFINE g == [a \in T |-> ManifestRequest(a)]
  <2>1. {ManifestRequest(a) : a \in T} = {g[a] : a \in T}
    OBVIOUS
  <2>2. IsFiniteSet({g[a] : a \in T})
    <3> HIDE DEF g
    <3> QED BY <1>1, ImageOf
  <2>3. IsFiniteSet(w \cup {g[a] : a \in T})
    BY <2>2, FS_Union DEF WireOK
  <2>4. 0 \in 0 .. MaxChunks /\ 0 \in Nat
    BY DownloadAssumption
  <2>5. \A a \in T : ManifestRequest(a) \in Requests
    BY <1>1, <2>4, RequestType
  <2> HIDE DEF g
  <2> QED BY <1>4, <2>1, <2>3, <2>5 DEF WireOK
<1>12. AllListed(status')
  BY <1>2, <1>5, <1>6 DEF AllListed
<1>13. IF AnyAlive(status') THEN phase' = "manifest" /\ why' = why /\ output' = output ELSE Fail("allfailed")
  BY DEF DispatchWave
<1>14. CASE AnyAlive(status')
  BY <1>4, <1>10, <1>11, <1>12, <1>13, <1>14
<1>15. CASE ~AnyAlive(status')
  <2>1. phase' = "failed" /\ why' = "allfailed" /\ output' = output
    BY <1>13, <1>15 DEF Fail
  <2>2. \A a \in Archives : status'[a] \in {"none", "failed"}
    <3>1. \A a \in Archives : status'[a] \in States
      BY <1>7
    <3>2. \A a \in Archives : status'[a] # "untried" /\ status'[a] # "dispatched"
      BY <1>15 DEF AnyAlive, InState
    <3> QED BY <3>1, <3>2
  <2>3. netUp => \A a \in Assigned : <<0, a>> \in rf
    <3> HAVE netUp
    <3> TAKE a \in Assigned
    <3>1. a \in Archives
      BY <1>2
    <3>2. status'[a] # "none"
      BY <1>12 DEF AllListed
    <3>3. status'[a] = "failed"
      BY <2>2, <3>1, <3>2
    <3> QED BY <1>9, <3>1, <3>3
  <2> QED BY <1>4, <1>10, <1>11, <2>1, <2>3
<1> QED BY <1>14, <1>15

\* The places in the queue fill_fetches starts, and the last it takes off.
Begins(queue, flying, act) == FirstOf(MaxConcurrent - Cardinality(flying), Startable(queue, act))
LastOff(queue, flying, act) ==
  IF Cardinality(Begins(queue, flying, act)) < MaxConcurrent - Cardinality(flying)
  THEN Len(queue) ELSE Max(Begins(queue, flying, act) \cup {0})

\* What fill_fetches starts fits under max_concurrent, is not being fetched, and
\* no two of it share a CID.
LEMMA BeginsType ==
  ASSUME FileGiven, NEW queue \in Seq(Chunks), NEW flying, NEW act, FlyingOK(flying, act)
  PROVE  LET start == Begins(queue, flying, act)
             last == LastOff(queue, flying, act) IN
         /\ start \subseteq 1 .. last /\ IsFiniteSet(start) /\ Cardinality(start) \in Nat
         /\ IsFiniteSet(flying) /\ Cardinality(flying) \in Nat
         /\ Cardinality(start) + Cardinality(flying) <= MaxConcurrent
         /\ last \in 0 .. Len(queue)
         /\ \A i \in start : queue[i] \in Chunks /\ ~IsActive(act, cids[queue[i]])
         /\ \A i, j \in start : cids[queue[i]] = cids[queue[j]] => i = j
<1> DEFINE start == Begins(queue, flying, act)
           last == LastOff(queue, flying, act)
           room == MaxConcurrent - Cardinality(flying)
           able == Startable(queue, act)
<1>1. Len(queue) \in Nat /\ DOMAIN queue = 1 .. Len(queue) /\ queue \in [1 .. Len(queue) -> Chunks]
  BY LenProperties
<1>2. able \in SUBSET (1 .. Len(queue)) /\ able \in SUBSET Nat
  BY <1>1 DEF Startable
<1>3. IsFiniteSet(able)
  <2>1. IsFiniteSet(1 .. Len(queue))
    BY <1>1, FS_Interval
  <2> QED BY <1>2, <2>1, FS_Subset
<1>4. flying \in SUBSET ToSet(cids) /\ Cardinality(flying) <= MaxConcurrent
  BY DEF FlyingOK
<1>5. IsFiniteSet(flying) /\ Cardinality(flying) \in Nat /\ MaxConcurrent \in Nat
  BY <1>4, ChunksType, FS_Subset, FS_CardinalityType, DownloadAssumption
<1>6. room \in Nat
  BY <1>4, <1>5
<1>7. /\ start \subseteq able /\ IsFiniteSet(start) /\ Cardinality(start) \in Nat
      /\ start # {} => Cardinality(start) <= room
  BY <1>2, <1>3, <1>6, FirstOfBound DEF Begins
<1>8. Cardinality(start) <= room
  BY <1>6, <1>7, FS_EmptySet
<1>9. last = IF Cardinality(start) < room THEN Len(queue) ELSE Max(start \cup {0})
  BY DEF LastOff
<1>10. \A i \in start : i \in 1 .. Len(queue) /\ i \in able
  BY <1>2, <1>7
<1> HIDE DEF start, last, able
<1>11. /\ Max(start \cup {0}) \in start \cup {0}
       /\ \A x \in start \cup {0} : x <= Max(start \cup {0})
  <2>1. start \cup {0} \in SUBSET Nat /\ start \cup {0} # {} /\ \A x \in start \cup {0} : x <= Len(queue)
    BY <1>1, <1>10
  <2> QED BY <2>1, <1>1, MaxIn
<1>12. last \in 0 .. Len(queue) /\ \A i \in start : i <= last
  <2> DEFINE m == Max(start \cup {0})
  <2>1. m \in start \cup {0} /\ \A x \in start \cup {0} : x <= m
    BY <1>11
  <2> HIDE DEF m
  <2>2. m \in 0 .. Len(queue) /\ \A i \in start : i <= m
    BY <1>1, <1>10, <2>1
  <2>3. last = Len(queue) \/ last = m
    BY <1>9 DEF m
  <2> QED BY <1>1, <1>10, <2>2, <2>3
<1>13. start \subseteq 1 .. last
  BY <1>1, <1>10, <1>12
<1>14. \A i \in start : queue[i] \in Chunks /\ ~IsActive(act, cids[queue[i]])
  <2> TAKE i \in start
  <2>1. i \in 1 .. Len(queue) /\ i \in able
    BY <1>10
  <2>2. queue[i] \in Chunks
    BY <1>1, <2>1
  <2>3. ~IsActive(act, cids[queue[i]])
    BY <2>1 DEF able, Startable
  <2> QED BY <2>2, <2>3
<1>15. ASSUME NEW i \in start, NEW j \in start, cids[queue[i]] = cids[queue[j]] PROVE i = j
  <2>1. i \in 1 .. Len(queue) /\ j \in 1 .. Len(queue)
    BY <1>10
  <2>2. /\ \A k \in 1 .. i - 1 : cids[queue[k]] # cids[queue[i]]
        /\ \A k \in 1 .. j - 1 : cids[queue[k]] # cids[queue[j]]
    BY <1>10 DEF able, Startable
  <2>3. ~(j \in 1 .. i - 1) /\ ~(i \in 1 .. j - 1)
    BY <1>15, <2>2
  <2> QED BY <1>1, <2>1, <2>3
<1>16. Cardinality(start) + Cardinality(flying) <= MaxConcurrent
  BY <1>5, <1>7, <1>8
<1> QED BY <1>5, <1>7, <1>12, <1>13, <1>14, <1>15, <1>16 DEF start, last

\* What is dropped from the queue pays for the CIDs that are orphaned by it.
LEMMA FillTally ==
  ASSUME FileGiven, NEW queue \in Seq(Chunks), NEW last \in 0 .. Len(queue),
         NEW start \in SUBSET (1 .. last), NEW w, IsFiniteSet(w), NEW w1, IsFiniteSet(w1),
         NEW s, NEW n \in Nat, NEW t \in Nat, Tally(n, s, w, queue, t),
         w \subseteq w1, Cardinality(w1) <= Cardinality(w) + Cardinality(start),
         \A i \in start : \E r \in w1 : r.idx = queue[i]
  PROVE  Tally(n, s, w1, SubSeq(queue, last + 1, Len(queue)), t)
<1> DEFINE q1 == SubSeq(queue, last + 1, Len(queue))
           O == Orphans(s, w, queue)
           O1 == Orphans(s, w1, q1)
           P == (1 .. last) \ start
           f == [i \in P |-> cids[queue[i]]]
           N == {f[i] : i \in P}
<1>1. Len(queue) \in Nat /\ DOMAIN queue = 1 .. Len(queue) /\ queue \in [1 .. Len(queue) -> Chunks]
  BY LenProperties
<1>2. /\ Len(q1) = Len(queue) - last /\ DOMAIN q1 = 1 .. Len(queue) - last
      /\ \A i \in last + 1 .. Len(queue) : i - last \in DOMAIN q1 /\ q1[i - last] = queue[i]
  <2>1. last \in Nat /\ last + 1 \in Int /\ Len(queue) \in Int /\ last <= Len(queue)
    BY <1>1
  <2>2. \A i \in last + 1 .. Len(queue) : queue[i] \in Chunks
    BY <1>1, <2>1
  <2>3. /\ q1 \in Seq(Chunks)
        /\ Len(q1) = IF last + 1 <= Len(queue) THEN Len(queue) - (last + 1) + 1 ELSE 0
        /\ \A i \in 1 .. Len(queue) - (last + 1) + 1 : q1[i] = queue[last + 1 + i - 1]
    BY <2>1, <2>2, SubSeqProperties
  <2>4. Len(q1) = Len(queue) - last
    BY <2>1, <2>3
  <2>5. DOMAIN q1 = 1 .. Len(queue) - last
    BY <2>3, <2>4, LenProperties
  <2>6. ASSUME NEW i \in last + 1 .. Len(queue) PROVE i - last \in 1 .. Len(queue) - last /\ q1[i - last] = queue[i]
    <3>1. i - last \in 1 .. Len(queue) - last /\ i - last \in 1 .. Len(queue) - (last + 1) + 1
          /\ last + 1 + (i - last) - 1 = i
      BY <2>1
    <3> HIDE DEF q1
    <3> QED BY <2>3, <3>1
  <2> QED BY <2>4, <2>5, <2>6
<1>3. IsFiniteSet(ToSet(cids))
  BY ChunksType
<1>4. O \in SUBSET ToSet(cids) /\ O1 \in SUBSET ToSet(cids)
  BY DEF Orphans
<1>5. IsFiniteSet(O) /\ IsFiniteSet(O1) /\ Cardinality(O) \in Nat /\ Cardinality(O1) \in Nat
  BY <1>3, <1>4, FS_Subset, FS_CardinalityType
<1>6. IsFiniteSet(P) /\ Cardinality(P) = last - Cardinality(start) /\ Cardinality(start) \in Nat
  <2>1. last \in Nat
    BY <1>1
  <2>2. IsFiniteSet(1 .. last) /\ Cardinality(1 .. last) = last
    <3>1. IsFiniteSet(1 .. last) /\ Cardinality(1 .. last) = IF 1 > last THEN 0 ELSE last - 1 + 1
      BY <2>1, FS_Interval
    <3> QED BY <3>1, <2>1
  <2>3. (1 .. last) \cap start = start
    OBVIOUS
  <2>4. IsFiniteSet(start) /\ Cardinality(start) \in Nat
    BY <2>2, FS_Subset, FS_CardinalityType
  <2>5. IsFiniteSet(P) /\ Cardinality(P) = Cardinality(1 .. last) - Cardinality((1 .. last) \cap start)
    BY <2>2, FS_Difference
  <2> QED BY <2>2, <2>3, <2>4, <2>5
<1>7. IsFiniteSet(N) /\ Cardinality(N) <= Cardinality(P)
  <2> HIDE DEF f, P
  <2> QED BY <1>6, ImageOf
<1>8. O1 \subseteq O \cup N
  <2> SUFFICES ASSUME NEW d \in O1, d \notin O PROVE d \in N
    OBVIOUS
  <2>1. /\ d \in ToSet(cids) /\ s[d] = "none"
        /\ \A r \in w1 : cids[r.idx] # d
        /\ \A i \in DOMAIN q1 : cids[q1[i]] # d
    <3> HIDE DEF q1
    <3> QED BY DEF Orphans
  <2>2. \A r \in w : cids[r.idx] # d
    BY <2>1
  <2>3. PICK i \in DOMAIN queue : cids[queue[i]] = d
    <3> HIDE DEF q1
    <3> QED BY <2>1, <2>2 DEF Orphans
  <2>4. i \in 1 .. Len(queue)
    BY <1>1
  <2>5. i \notin last + 1 .. Len(queue)
    <3> HIDE DEF q1
    <3> QED BY <1>2, <2>1, <2>3
  <2>6. i \in 1 .. last
    BY <1>1, <2>4, <2>5
  <2>7. i \notin start
    BY <2>1, <2>3
  <2>8. i \in P /\ f[i] = d
    BY <2>3, <2>6, <2>7
  <2> HIDE DEF P, f
  <2> QED BY <2>8
<1>9. Cardinality(O1) <= Cardinality(O) + Cardinality(N)
  <2> HIDE DEF O1, O, N
  <2>1. IsFiniteSet(O \cup N) /\ Cardinality(O \cup N) = Cardinality(O) + Cardinality(N) - Cardinality(O \cap N)
    BY <1>5, <1>7, FS_Union
  <2>2. O1 \in SUBSET (O \cup N)
    BY <1>8
  <2>3. Cardinality(O1) <= Cardinality(O \cup N)
    BY <2>1, <2>2, FS_Subset
  <2>4. IsFiniteSet(O \cap N)
    BY <1>5, FS_Intersection
  <2>5. Cardinality(O \cap N) \in Nat /\ Cardinality(N) \in Nat /\ Cardinality(O \cup N) \in Nat
    BY <2>1, <2>4, <1>7, FS_CardinalityType
  <2> QED BY <2>1, <2>3, <2>5, <1>5
<1>10. n + Len(queue) + Cardinality(w) + Cardinality(O) <= t
  BY DEF Tally
<1>11. Cardinality(w) \in Nat /\ Cardinality(w1) \in Nat /\ Cardinality(N) \in Nat
  <2> HIDE DEF N
  <2> QED BY <1>7, FS_CardinalityType
<1>12. n + Len(q1) + Cardinality(w1) + Cardinality(O1) <= t
  <2>1. last \in Nat
    BY <1>1
  <2>a. Len(q1) = Len(queue) - last
    <3> HIDE DEF q1
    <3> QED BY <1>2
  <2> DEFINE cw == Cardinality(w)
             cw1 == Cardinality(w1)
             co == Cardinality(O)
             co1 == Cardinality(O1)
             cn == Cardinality(N)
             cp == Cardinality(P)
             cs == Cardinality(start)
             lq == Len(queue)
             lq1 == Len(q1)
  <2>2. /\ cw \in Nat /\ cw1 \in Nat /\ co \in Nat /\ co1 \in Nat /\ cn \in Nat /\ cs \in Nat /\ lq \in Nat
        /\ cp = last - cs /\ cn <= cp /\ co1 <= co + cn /\ cw1 <= cw + cs /\ lq1 = lq - last
        /\ n + lq + cw + co <= t
    <3> HIDE DEF O, O1, N, P, q1
    <3> QED BY <1>1, <1>5, <1>6, <1>7, <1>9, <1>10, <1>11, <2>a
  <2>3. n + lq1 + cw1 + co1 <= t
    <3> HIDE DEF cw, cw1, co, co1, cn, cp, cs, lq, lq1
    <3> QED BY <2>1, <2>2
  <2> QED BY <2>3
<1> QED BY <1>12 DEF Tally

\* A fetch that is not open, and one just opened.
LEMMA IdleFields ==
  /\ Idle \in Fetches /\ Idle.peer = None
  /\ \A p \in Archives : [Idle EXCEPT !.peer = p] \in Fetches /\ [Idle EXCEPT !.peer = p].peer = p
  BY DEF Idle, Fetches

\* fill_fetches keeps the cap, one request per CID and the tally.
LEMMA FillKeeps ==
  ASSUME FileGiven, NEW queue \in Seq(Chunks), NEW flying, NEW act, NEW h, NEW disc \in Seq(Archives),
         NEW w, NEW n \in Nat, NEW t \in Nat, NEW s,
         FlyingOK(flying, act), PeersOK(h, disc), WireOK(w), ForChunks(w), OnePerCid(w),
         Counted(w, flying), Tally(n, s, w, queue, t),
         FillFetches(queue, flying, act, h, disc, w)
  PROVE  /\ remaining' \in Seq(Chunks) /\ FlyingOK(inFlight', active')
         /\ WireOK(wire') /\ OnePerCid(wire') /\ why' = why /\ output' = output
         /\ \/ phase' = "spin"
            \/ /\ phase' = "chunks" /\ ForChunks(wire') /\ Counted(wire', inFlight')
               /\ Tally(n, s, wire', remaining', t)
<1> DEFINE start == Begins(queue, flying, act)
           last == LastOff(queue, flying, act)
           begun == {queue[i] : i \in start}
           chunkOf(d) == CHOOSE c \in begun : cids[c] = d
           peer(c) == PeerFor(c, h, disc)
<1>1. /\ start \subseteq 1 .. last /\ IsFiniteSet(start) /\ Cardinality(start) \in Nat
      /\ IsFiniteSet(flying) /\ Cardinality(flying) \in Nat
      /\ Cardinality(start) + Cardinality(flying) <= MaxConcurrent
      /\ last \in 0 .. Len(queue)
      /\ \A i \in start : queue[i] \in Chunks /\ ~IsActive(act, cids[queue[i]])
      /\ \A i, j \in start : cids[queue[i]] = cids[queue[j]] => i = j
  BY BeginsType
<1>2. why' = why /\ output' = output
  BY DEF FillFetches
<1>3. CASE start # {} /\ ~netUp
  <2>1. phase' = "spin" /\ remaining' = queue /\ inFlight' = flying /\ active' = act /\ wire' = w
    BY <1>3 DEF FillFetches, Begins
  <2> QED BY <1>2, <2>1
<1>4. CASE ~(start # {} /\ ~netUp)
  <2>1. /\ phase' = "chunks"
        /\ remaining' = SubSeq(queue, last + 1, Len(queue))
        /\ inFlight' = flying \cup {cids[c] : c \in begun}
        /\ active' = [d \in Cids |-> IF \E c \in begun : cids[c] = d
                                     THEN [Idle EXCEPT !.peer = peer(chunkOf(d))] ELSE act[d]]
        /\ wire' = w \cup {ChunkRequest(peer(c), c, 0) : c \in begun}
    BY <1>4 DEF FillFetches, Begins, LastOff
  <2>2. Len(queue) \in Nat /\ DOMAIN queue = 1 .. Len(queue) /\ queue \in [1 .. Len(queue) -> Chunks]
    BY LenProperties
  <2>3. \A c \in Chunks : c \in 0 .. MaxChunks /\ cids[c] \in Cids /\ cids[c] \in ToSet(cids)
    BY ChunksType
  <2>4. begun \subseteq Chunks
    BY <1>1
  <2>5. \A c \in begun : ~IsActive(act, cids[c])
    BY <1>1
  <2>6. \A b, c \in begun : cids[b] = cids[c] => b = c
    BY <1>1
  <2>7. IsFiniteSet(begun) /\ Cardinality(begun) <= Cardinality(start)
    BY <1>1, ImageOf
  <2>8. ASSUME NEW c \in begun PROVE peer(c) \in Archives
    <3>1. h \in [Chunks -> Archives \cup {None}] /\ disc # <<>> /\ c \in Chunks
      BY <2>4 DEF PeersOK
    <3>2. Head(disc) \in Archives
      BY <3>1, HeadTailProperties
    <3> QED BY <3>1, <3>2 DEF PeerFor
  <2>9. /\ act \in [Cids -> Fetches] /\ flying \subseteq ToSet(cids)
        /\ \A d \in flying : IsActive(act, d)
        /\ WireOK(w)
    BY DEF FlyingOK
  <2>a. \A i \in start : queue[i] \in begun
    OBVIOUS
  <2> HIDE DEF start, last, begun, peer
  <2>10. ASSUME NEW d, \E c \in begun : cids[c] = d PROVE chunkOf(d) \in begun /\ cids[chunkOf(d)] = d
    BY <2>10
  <2> HIDE DEF chunkOf
  <2>11. \A d \in Cids : (\E c \in begun : cids[c] = d) =>
           active'[d] \in Fetches /\ active'[d].peer \in Archives
    <3> SUFFICES ASSUME NEW d \in Cids, \E c \in begun : cids[c] = d
                 PROVE  active'[d] \in Fetches /\ active'[d].peer \in Archives
      OBVIOUS
    <3>1. peer(chunkOf(d)) \in Archives
      BY <2>8, <2>10
    <3>2. active'[d] = [Idle EXCEPT !.peer = peer(chunkOf(d))]
      BY <2>1
    <3> QED BY <3>1, <3>2, IdleFields
  <2>12. \A d \in Cids : ~(\E c \in begun : cids[c] = d) => active'[d] = act[d]
    BY <2>1
  <2>13. active' \in [Cids -> Fetches]
    <3>1. \A d \in Cids : active'[d] \in Fetches
      BY <2>9, <2>11, <2>12
    <3>2. active' = [d \in Cids |-> active'[d]]
      BY <2>1
    <3> QED BY <3>1, <3>2
  <2>14. inFlight' \subseteq ToSet(cids)
    BY <2>1, <2>3, <2>4, <2>9
  <2>15. ASSUME NEW d \in inFlight' PROVE IsActive(active', d)
    <3>0. d \in Cids
      BY <2>14, ChunksType
    <3>1. CASE \E c \in begun : cids[c] = d
      BY <3>0, <3>1, <2>11, DownloadAssumption DEF IsActive
    <3>2. CASE ~(\E c \in begun : cids[c] = d)
      <4>1. d \in flying
        BY <2>1, <3>2
      <4> QED BY <3>0, <3>2, <4>1, <2>9, <2>12 DEF IsActive
    <3> QED BY <3>1, <3>2
  <2>16. Cardinality(inFlight') <= MaxConcurrent
    <3> DEFINE D == {cids[c] : c \in begun}
    <3>1. IsFiniteSet(D) /\ Cardinality(D) <= Cardinality(begun)
      BY <2>7, ImageOf
    <3>2. inFlight' = flying \cup D
      BY <2>1
    <3> HIDE DEF D
    <3>3. /\ IsFiniteSet(flying \cup D)
          /\ Cardinality(flying \cup D) = Cardinality(flying) + Cardinality(D) - Cardinality(flying \cap D)
      BY <1>1, <3>1, FS_Union
    <3>4. IsFiniteSet(flying \cap D)
      BY <1>1, FS_Intersection
    <3>5. Cardinality(D) \in Nat /\ Cardinality(flying \cap D) \in Nat /\ Cardinality(begun) \in Nat
      BY <3>1, <3>4, <2>7, FS_CardinalityType
    <3> QED BY <1>1, <2>7, <3>1, <3>2, <3>3, <3>5, DownloadAssumption
  <2>17. FlyingOK(inFlight', active')
    BY <2>13, <2>14, <2>15, <2>16 DEF FlyingOK
  <2>18. remaining' \in Seq(Chunks)
    <3>1. \A i \in last + 1 .. Len(queue) : queue[i] \in Chunks
      BY <1>1, <2>2
    <3>2. last + 1 \in Int /\ Len(queue) \in Int
      BY <1>1, <2>2
    <3> QED BY <2>1, <3>1, <3>2, SubSeqProperties
  <2> DEFINE g == [c \in begun |-> ChunkRequest(peer(c), c, 0)]
             G == {g[c] : c \in begun}
  <2>19. wire' = w \cup G
    BY <2>1
  <2>20. IsFiniteSet(G) /\ Cardinality(G) <= Cardinality(begun)
    <3> HIDE DEF g
    <3> QED BY <2>7, ImageOf
  <2>21. \A r \in G : /\ r \in Requests /\ r.kind = "chunk" /\ r.idx \in begun
                      /\ r = ChunkRequest(peer(r.idx), r.idx, 0)
    <3> SUFFICES ASSUME NEW c \in begun
                 PROVE  /\ g[c] \in Requests /\ g[c].kind = "chunk" /\ g[c].idx = c
                        /\ g[c] = ChunkRequest(peer(c), c, 0)
      OBVIOUS
    <3>1. g[c] = ChunkRequest(peer(c), c, 0)
      OBVIOUS
    <3>2. peer(c) \in Archives /\ c \in 0 .. MaxChunks
      BY <2>3, <2>4, <2>8
    <3> HIDE DEF g
    <3> QED BY <3>1, <3>2, RequestFields, RequestType
  <2>22. \A c \in begun : \E r \in G : r.idx = c
    <3> TAKE c \in begun
    <3>1. g[c] \in G /\ g[c] = ChunkRequest(peer(c), c, 0)
      OBVIOUS
    <3>2. g[c].idx = c
      BY <3>1, RequestFields
    <3> HIDE DEF g, G
    <3> QED BY <3>1, <3>2
  <2> HIDE DEF g, G
  <2>23. IsFiniteSet(w) /\ w \subseteq Requests
    BY <2>9 DEF WireOK
  <2>24. /\ IsFiniteSet(wire')
         /\ Cardinality(wire') <= Cardinality(w) + Cardinality(start)
    <3>1. IsFiniteSet(w \cup G) /\ Cardinality(w \cup G) = Cardinality(w) + Cardinality(G) - Cardinality(w \cap G)
      BY <2>20, <2>23, FS_Union
    <3>2. IsFiniteSet(w \cap G)
      BY <2>23, FS_Intersection
    <3>3. Cardinality(w) \in Nat /\ Cardinality(G) \in Nat /\ Cardinality(w \cap G) \in Nat /\ Cardinality(begun) \in Nat
      BY <2>7, <2>20, <2>23, <3>2, FS_CardinalityType
    <3> QED BY <1>1, <2>7, <2>19, <2>20, <3>1, <3>3
  <2>25. WireOK(wire')
    BY <2>19, <2>21, <2>23, <2>24 DEF WireOK
  <2>26. ForChunks(wire')
    BY <2>4, <2>19, <2>21 DEF ForChunks
  <2>27. OnePerCid(wire')
    <3> SUFFICES ASSUME NEW r \in wire', NEW q \in wire', r.kind = "chunk", q.kind = "chunk",
                        cids[r.idx] = cids[q.idx]
                 PROVE  r = q
      BY DEF OnePerCid
    <3>1. \A x \in w, y \in G : cids[x.idx] # cids[y.idx]
      BY <2>5, <2>9, <2>21 DEF Counted
    <3>2. CASE r \in w /\ q \in w
      BY <3>2 DEF OnePerCid
    <3>3. CASE r \in G /\ q \in G
      <4>1. r.idx = q.idx
        BY <2>6, <2>21, <3>3
      <4>2. r = ChunkRequest(peer(r.idx), r.idx, 0) /\ q = ChunkRequest(peer(q.idx), q.idx, 0)
        BY <2>21, <3>3
      <4> QED BY <4>1, <4>2
    <3> QED BY <2>19, <3>1, <3>2, <3>3
  <2>28. Counted(wire', inFlight')
    BY <2>1, <2>19, <2>21 DEF Counted
  <2>29. Tally(n, s, wire', remaining', t)
    <3>1. \A i \in start : \E r \in wire' : r.idx = queue[i]
      BY <2>a, <2>19, <2>22
    <3>2. w \subseteq wire'
      BY <2>19
    <3>3. Tally(n, s, wire', SubSeq(queue, last + 1, Len(queue)), t)
      BY <1>1, <2>23, <2>24, <3>1, <3>2, FillTally
    <3> QED BY <2>1, <3>3
  <2> QED BY <1>2, <2>1, <2>17, <2>18, <2>25, <2>26, <2>27, <2>28, <2>29
<1> QED BY <1>3, <1>4

Phases == {"start", "discover", "manifest", "chunks", "spin", "done", "failed"}
EarlyPhases == {"start", "discover", "manifest"}

\* Before the chain row is read the invariant holds.
LEMMA InitHolds == DownloadInit => DownloadInv
<1> SUFFICES ASSUME DownloadInit PROVE DownloadInv
  OBVIOUS
<1> USE DEF DownloadInit
<1>1. FileGiven
  BY DEF BaseInit, FileGiven
<1>2. wire = {} /\ phase = "start" /\ known = {} /\ netUp = TRUE /\ why = "" /\ output = <<>>
  BY DEF BaseInit
<1>3. DiskOK(store)
  BY DEF BaseInit, DiskOK
<1>4. DownloadBaseInv
  BY <1>2, <1>3, FS_EmptySet DEF DownloadBaseInv, WireOK
<1>5. LegacyInv
  <2>1. discovered \in Seq(Archives) /\ remaining \in Seq(Chunks)
    BY EmptySeq DEF LegacyInit
  <2>2. fetched = 0 /\ total = 0 /\ inFlight = {} /\ active = [d \in Cids |-> Idle]
    BY DEF LegacyInit
  <2>3. FlyingOK(inFlight, active)
    BY <2>2, IdleFields, FS_EmptySet, DownloadAssumption DEF FlyingOK
  <2>4. OnePerCid(wire)
    BY <1>2 DEF OnePerCid
  <2>5. total \in 0 .. size
    BY <1>1, <2>2, ChunksType
  <2>a. phase = "start"
    BY <1>2
  <2> HIDE DEF DownloadInit
  <2>6. fetched \in Nat /\ fetched <= total /\ fetched = 0
    BY <2>2
  <2>7. phase # "chunks"
    BY <2>a
  <2> QED BY <2>1, <2>3, <2>4, <2>5, <2>6, <2>7 DEF LegacyInv
<1>6. V2Inv
  <2> USE DEF V2Init
  <2>1. order = Ranking /\ next = [c \in 1 .. MaxChunks |-> 1] /\ flight = [c \in 1 .. MaxChunks |-> None]
        /\ got = [c \in 1 .. MaxChunks |-> "none"] /\ skip = FALSE /\ refused = {}
        /\ status = [a \in Archives |-> "none"]
    OBVIOUS
  <2>2. Lines(order, next)
    <3> SUFFICES ASSUME NEW c \in 1 .. MaxChunks PROVE LineOK(Ranking[c], 1, Ranking[c])
      BY <2>1, DownloadAssumption DEF Lines
    <3>1. Ranking[c] \in Seq(Archives) /\ Len(Ranking[c]) \in Nat /\ DOMAIN Ranking[c] = 1 .. Len(Ranking[c])
      BY RankingType
    <3> QED BY <3>1 DEF LineOK
  <2>3. Pinned(flight, got)
    BY <2>1 DEF Pinned
  <2>4. InFlight(flight) = {}
    BY <1>1, <2>1, ChunksType DEF InFlight
  <2>5. ChunkCap(flight)
    <3>1. AtLeastOne(MaxConcurrent) \in Nat
      BY DownloadAssumption DEF AtLeastOne
    <3>2. Cardinality(InFlight(flight)) = 0
      BY <2>4, FS_EmptySet
    <3> QED BY <3>1, <3>2 DEF ChunkCap
  <2>6. AskedOK(order, next, flight, got, refused)
    BY <2>1 DEF AskedOK
  <2>7. InState(status, "dispatched") = {}
    BY <2>1 DEF InState
  <2>8. StatusOK(status, refused, netUp)
    BY <1>1, <2>1, <2>7, FanoutType, FS_EmptySet DEF StatusOK
  <2>9. OnDisk(got, store)
    BY <1>1, <2>1, ChunksType DEF OnDisk
  <2> QED BY <1>2, <2>1, <2>2, <2>3, <2>5, <2>6, <2>8, <2>9 DEF V2Inv
<1> QED BY <1>1, <1>2, <1>4, <1>5, <1>6 DEF DownloadInv, GivesUpLast, OutputIsTheFile

\* A step that keeps the row and the CIDs keeps what is derived from them.
LEMMA Frame ==
  ASSUME row' = row, cids' = cids
  PROVE  /\ FileGiven => FileGiven'
         /\ Chunks' = Chunks /\ size' = size /\ Path' = Path /\ Assigned' = Assigned /\ Fanout' = Fanout
         /\ Distinct' = Distinct
<1>1. Chunks' = Chunks /\ size' = size /\ Path' = Path
  BY DEF Chunks, size, Path
<1>2. Assigned' = Assigned
  BY <1>1 DEF Assigned
<1> QED BY <1>1, <1>2 DEF FileGiven, Fanout, Distinct

\* The shared part of the invariant after a step.
LEMMA BaseFrame ==
  ASSUME row' = row, cids' = cids, phase' \in Phases, known' \subseteq Archives, netUp' \in BOOLEAN,
         WireOK(wire'), DiskOK(store'), phase' = "chunks" => ForChunks(wire')
  PROVE  DownloadBaseInv'
  BY Frame DEF DownloadBaseInv, Phases, WireOK, DiskOK, ForChunks

\* The V1 part of the invariant after a step.
LEMMA LegacyFrame ==
  ASSUME row' = row, cids' = cids, discovered' \in Seq(Archives), remaining' \in Seq(Chunks),
         fetched' \in Nat, total' \in 0 .. size, fetched' <= total', FlyingOK(inFlight', active'),
         phase' \in EarlyPhases => fetched' = 0,
         Path = "legacy" => OnePerCid(wire'),
         Path = "legacy" /\ phase' = "chunks" =>
            PeersOK(holders', discovered') /\ Counted(wire', inFlight')
              /\ Tally(fetched', store', wire', remaining', total')
  PROVE  LegacyInv'
<1>1. FlyingOK(inFlight, active)' <=> FlyingOK(inFlight', active')
  BY Frame DEF FlyingOK, IsActive
<1>2. OnePerCid(wire)' <=> OnePerCid(wire')
  BY DEF OnePerCid
<1>3. PeersOK(holders, discovered)' <=> PeersOK(holders', discovered')
  BY Frame DEF PeersOK
<1>4. Counted(wire, inFlight)' <=> Counted(wire', inFlight')
  BY DEF Counted
<1>5. Tally(fetched, store, wire, remaining, total)' <=> Tally(fetched', store', wire', remaining', total')
  BY DEF Tally, Orphans
<1>6. Early' => phase' \in EarlyPhases
  BY DEF Early, EarlyPhases
<1> QED BY <1>1, <1>2, <1>3, <1>4, <1>5, <1>6, Frame DEF LegacyInv

\* The V2 part of the invariant after a step.
LEMMA V2Frame ==
  ASSUME row' = row, cids' = cids, skip' \in BOOLEAN, IsV2 => phase' # "discover", Lines(order', next'), Pinned(flight', got'),
         ChunkCap(flight'), AskedOK(order', next', flight', got', refused'),
         StatusOK(status', refused', netUp'),
         phase' \in EarlyPhases => \A c \in 1 .. MaxChunks : flight'[c] = None /\ got'[c] = "none",
         Path = "public" => OnDisk(got', store'),
         IsV2 /\ phase' = "manifest" => AllListed(status'),
         IsV2 /\ phase' = "chunks" => Whole(wire'),
         Path = "public" /\ phase' = "chunks" => Sent(flight', wire')
  PROVE  V2Inv'
<1>1. Lines(order, next)' <=> Lines(order', next')
  BY DEF Lines, LineOK
<1>2. Pinned(flight, got)' <=> Pinned(flight', got')
  BY DEF Pinned
<1>3. ChunkCap(flight)' <=> ChunkCap(flight')
  BY Frame DEF ChunkCap, InFlight
<1>4. AskedOK(order, next, flight, got, refused)' <=> AskedOK(order', next', flight', got', refused')
  BY DEF AskedOK
<1>5. StatusOK(status, refused, netUp)' <=> StatusOK(status', refused', netUp')
  BY Frame DEF StatusOK, InState
<1>6. OnDisk(got, store)' <=> OnDisk(got', store')
  BY Frame DEF OnDisk
<1>7. AllListed(status)' <=> AllListed(status')
  BY Frame DEF AllListed
<1>8. Whole(wire)' <=> Whole(wire')
  BY DEF Whole
<1>9. Sent(flight, wire)' <=> Sent(flight', wire')
  BY Frame DEF Sent
<1>10. Early' => phase' \in EarlyPhases
  BY DEF Early, EarlyPhases
<1>11. IsV2' => IsV2
  BY Frame DEF IsV2
<1> QED BY <1>1, <1>2, <1>3, <1>4, <1>5, <1>6, <1>7, <1>8, <1>9, <1>10, <1>11, Frame DEF V2Inv

\* Verdicts once true stay true, and a file once written stays.
LEMMA LastFrame ==
  ASSUME row' = row, cids' = cids, GivesUpLast, refused \subseteq refused', netUp' => netUp,
         why' = "exhausted" => \/ why = "exhausted"
                               \/ \E c \in Chunks : \A a \in ToSet(Ranking[c]) : <<c, a>> \in refused',
         why' = "allfailed" /\ netUp' => why = "allfailed" \/ \A a \in Assigned : <<0, a>> \in refused',
         phase' = "done" => \A c \in Chunks : output'[c] = "good"
  PROVE  GivesUpLast' /\ OutputIsTheFile'
<1>1. why' = "exhausted" => \E c \in Chunks : \A a \in ToSet(Ranking[c]) : <<c, a>> \in refused'
  BY DEF GivesUpLast
<1>2. why' = "allfailed" /\ netUp' => \A a \in Assigned : <<0, a>> \in refused'
  BY DEF GivesUpLast
<1> QED BY <1>1, <1>2, Frame DEF GivesUpLast, OutputIsTheFile

\* What a step of a V2 download has to show.
LEMMA V2StepKeeps ==
  ASSUME DownloadInv, IsV2, UNCHANGED legacy, row' = row, cids' = cids, netUp' = netUp,
         known' \subseteq Archives, DiskOK(store'), skip' \in BOOLEAN, WireOK(wire'),
         Lines(order', next'), Pinned(flight', got'), ChunkCap(flight'),
         AskedOK(order', next', flight', got', refused'),
         StatusOK(status', refused', netUp), refused \subseteq refused',
         Path = "public" => OnDisk(got', store'),
         phase' \in {"manifest", "chunks", "done", "failed"},
         phase' = "manifest" => Early /\ flight' = flight /\ got' = got /\ AllListed(status'),
         phase' = "chunks" => ForChunks(wire') /\ Whole(wire') /\ (Path = "public" => Sent(flight', wire')),
         phase' = "done" => \A c \in Chunks : output'[c] = "good",
         why' = "exhausted" => \/ why = "exhausted"
                               \/ \E c \in Chunks : \A a \in ToSet(Ranking[c]) : <<c, a>> \in refused',
         why' = "allfailed" /\ netUp => why = "allfailed" \/ \A a \in Assigned : <<0, a>> \in refused'
  PROVE  DownloadInv'
<1>1. FileGiven /\ DownloadBaseInv /\ LegacyInv /\ V2Inv /\ GivesUpLast
  BY DEF DownloadInv
<1>2. FileGiven'
  BY <1>1, Frame
<1>3. DownloadBaseInv'
  <2>1. netUp' \in BOOLEAN
    BY <1>1 DEF DownloadBaseInv
  <2>2. phase' \in Phases
    BY DEF Phases
  <2> QED BY <2>1, <2>2, BaseFrame
<1>4. LegacyInv'
  <2>1. /\ discovered' \in Seq(Archives) /\ remaining' \in Seq(Chunks) /\ fetched' \in Nat
        /\ total' \in 0 .. size /\ fetched' <= total' /\ FlyingOK(inFlight', active')
        /\ Early => fetched' = 0
    BY <1>1 DEF LegacyInv, legacy
  <2>2. phase' \in EarlyPhases => fetched' = 0
    BY <2>1 DEF EarlyPhases
  <2>3. Path # "legacy"
    BY DEF IsV2
  <2> QED BY <2>1, <2>2, <2>3, LegacyFrame
<1>5. V2Inv'
  <2>1. phase' \in EarlyPhases => \A c \in 1 .. MaxChunks : flight'[c] = None /\ got'[c] = "none"
    BY <1>1 DEF V2Inv, EarlyPhases
  <2>2. StatusOK(status', refused', netUp') /\ phase' # "discover"
    OBVIOUS
  <2> QED BY <2>1, <2>2, V2Frame
<1>6. GivesUpLast' /\ OutputIsTheFile'
  BY <1>1, LastFrame
<1> QED BY <1>2, <1>3, <1>4, <1>5, <1>6 DEF DownloadInv

\* What a V2 download knows between steps.
LEMMA V2Facts ==
  ASSUME DownloadInv
  PROVE  /\ FileGiven /\ Lines(order, next) /\ Pinned(flight, got) /\ ChunkCap(flight)
         /\ AskedOK(order, next, flight, got, refused) /\ StatusOK(status, refused, netUp)
         /\ WireOK(wire) /\ DiskOK(store) /\ skip \in BOOLEAN /\ netUp \in BOOLEAN /\ known \subseteq Archives
         /\ Path = "public" => OnDisk(got, store)
         /\ phase = "chunks" => ForChunks(wire)
         /\ phase = "chunks" /\ IsV2 => Whole(wire) /\ ChunkState(order, next, flight, got, refused, wire)
         /\ phase = "chunks" /\ Path = "public" => Sent(flight, wire)
         /\ phase = "manifest" /\ IsV2 => AllListed(status)
         /\ Early => \A c \in 1 .. MaxChunks : flight[c] = None /\ got[c] = "none"
  BY DEF DownloadInv, DownloadBaseInv, V2Inv, ChunkState

\* More refusals do not disturb the statuses of the manifest fan-out.
LEMMA StatusGrows ==
  ASSUME NEW st, NEW rf, NEW rg, NEW up, rf \subseteq rg, StatusOK(st, rf, up)
  PROVE  StatusOK(st, rg, up)
  BY DEF StatusOK

\* An archive that failed is no longer awaited.
LEMMA StatusFails ==
  ASSUME FileGiven, NEW a \in Archives, StatusOK(status, refused, netUp), AllListed(status)
  PROVE  /\ StatusOK([status EXCEPT ![a] = "failed"], refused \cup {<<0, a>>}, netUp)
         /\ AllListed([status EXCEPT ![a] = "failed"])
<1> DEFINE st == [status EXCEPT ![a] = "failed"]
           States == {"none", "untried", "dispatched", "failed"}
<1>1. status \in [Archives -> States] /\ Cardinality(InState(status, "dispatched")) <= Fanout
      /\ (netUp => \A b \in Archives : status[b] = "failed" => <<0, b>> \in refused)
  BY DEF StatusOK
<1>2. st \in [Archives -> States]
  BY <1>1
<1>3. \A b \in Archives : st[b] = IF b = a THEN "failed" ELSE status[b]
  BY <1>1
<1> HIDE DEF st
<1>4. InState(st, "dispatched") \in SUBSET InState(status, "dispatched")
  BY <1>3 DEF InState
<1>5. InState(status, "dispatched") \in SUBSET Archives /\ IsFiniteSet(Archives)
  BY DownloadAssumption DEF InState
<1>6. IsFiniteSet(InState(status, "dispatched"))
  BY <1>5, FS_Subset
<1>7. IsFiniteSet(InState(st, "dispatched"))
      /\ Cardinality(InState(st, "dispatched")) <= Cardinality(InState(status, "dispatched"))
  BY <1>4, <1>6, FS_Subset
<1>8. Cardinality(InState(st, "dispatched")) \in Nat /\ Cardinality(InState(status, "dispatched")) \in Nat
  BY <1>6, <1>7, FS_CardinalityType
<1>9. Cardinality(InState(st, "dispatched")) <= Fanout
  BY <1>1, <1>7, <1>8, FanoutType
<1>10. netUp => \A b \in Archives : st[b] = "failed" => <<0, b>> \in refused \cup {<<0, a>>}
  BY <1>1, <1>3
<1>11. StatusOK(st, refused \cup {<<0, a>>}, netUp)
  BY <1>2, <1>9, <1>10 DEF StatusOK
<1>12. AllListed(st)
  BY <1>3, FanoutType DEF AllListed
<1> QED BY <1>11, <1>12 DEF st

\* Fewer requests are still requests.
LEMMA WireLess ==
  ASSUME NEW w, NEW r, WireOK(w)
  PROVE  /\ WireOK(w \ {r}) /\ (ForChunks(w) => ForChunks(w \ {r})) /\ (Whole(w) => Whole(w \ {r}))
         /\ WireOK({}) /\ ForChunks({}) /\ Whole({})
<1>1. IsFiniteSet(w \ {r})
  BY FS_RemoveElement DEF WireOK
<1> QED BY <1>1, FS_EmptySet DEF WireOK, ForChunks, Whole

\* The chunk a CID is looked up as has that CID.
LEMMA IdxOfType ==
  ASSUME FileGiven, NEW i \in Chunks
  PROVE  IdxOf(cids[i]) \in Chunks /\ cids[IdxOf(cids[i])] = cids[i]
<1> DEFINE T == {b \in Chunks : cids[b] = cids[i]}
<1>1. T \in SUBSET Nat /\ T # {} /\ size \in Nat /\ \A x \in T : x <= size
  <2>1. Chunks \in SUBSET Nat /\ size \in Nat
    BY ChunksType
  <2>2. \A x \in Chunks : x <= size
    BY <2>1 DEF Chunks
  <2> QED BY <2>1, <2>2
<1>2. Max(T) \in T /\ \A x \in T : x <= Max(T)
  <2> HIDE DEF T
  <2> QED BY <1>1, MaxIn
<1>3. \E c \in Chunks : cids[c] = cids[i] /\ \A b \in Chunks : cids[b] = cids[i] => b <= c
  BY <1>2
<1> QED BY <1>3 DEF IdxOf

\* The slot of a chunk comes free.
LEMMA SlotFreed ==
  ASSUME FileGiven, Pinned(flight, got), ChunkCap(flight), WireOK(wire),
         NEW r \in wire, r.idx \in Chunks, NEW c \in Chunks, cids[c] = cids[r.idx]
  PROVE  LET fl == [flight EXCEPT ![c] = None] IN
         /\ fl \in [1 .. MaxChunks -> Archives \cup {None}]
         /\ \A b \in 1 .. MaxChunks : fl[b] = IF b = c THEN None ELSE flight[b]
         /\ ChunkCap(fl)
         /\ Sent(flight, wire) => Sent(fl, wire \ {r})
<1> DEFINE fl == [flight EXCEPT ![c] = None]
<1>1. flight \in [1 .. MaxChunks -> Archives \cup {None}] /\ c \in 1 .. MaxChunks
  BY ChunksType DEF Pinned
<1>2. fl \in [1 .. MaxChunks -> Archives \cup {None}]
  BY <1>1
<1>3. \A b \in 1 .. MaxChunks : fl[b] = IF b = c THEN None ELSE flight[b]
  BY <1>1
<1> HIDE DEF fl
<1>4. ChunkCap(fl)
  <2>1. InFlight(fl) \in SUBSET InFlight(flight) /\ InFlight(flight) \in SUBSET Chunks /\ IsFiniteSet(Chunks)
    BY <1>3, ChunksType DEF InFlight
  <2>2. IsFiniteSet(InFlight(flight))
    BY <2>1, FS_Subset
  <2>3. IsFiniteSet(InFlight(fl)) /\ Cardinality(InFlight(fl)) <= Cardinality(InFlight(flight))
    BY <2>1, <2>2, FS_Subset
  <2>4. Cardinality(InFlight(fl)) \in Nat /\ Cardinality(InFlight(flight)) \in Nat
    BY <2>2, <2>3, FS_CardinalityType
  <2>5. AtLeastOne(MaxConcurrent) \in Nat
    BY DownloadAssumption DEF AtLeastOne
  <2> QED BY <2>3, <2>4, <2>5 DEF ChunkCap
<1>5. ASSUME Sent(flight, wire) PROVE Sent(fl, wire \ {r})
  <2> SUFFICES ASSUME Distinct, NEW b \in Chunks, fl[b] # None
               PROVE  ChunkRequest(fl[b], b, 0) \in wire \ {r}
    BY DEF Sent
  <2>1. b # c /\ fl[b] = flight[b]
    BY <1>3, ChunksType
  <2>2. ChunkRequest(flight[b], b, 0) \in wire
    BY <1>5, <2>1 DEF Sent
  <2>3. r.idx = c
    BY DEF Distinct
  <2>4. ChunkRequest(flight[b], b, 0).idx = b
    BY RequestFields
  <2> QED BY <2>1, <2>2, <2>3, <2>4
<1> QED BY <1>2, <1>3, <1>4, <1>5 DEF fl

\* All chunks are there, and all are the file's.
LEMMA AssembledIsGood ==
  ASSUME FileGiven, NEW gt \in [1 .. MaxChunks -> {"none", "good"}], NEW st,
         AllGot(gt), Path = "public" => OnDisk(gt, st), AssembleV2(gt, st)
  PROVE  phase' = "done" /\ why' = why /\ \A c \in Chunks : output'[c] = "good"
<1>1. Chunks \subseteq 1 .. MaxChunks
  BY ChunksType
<1>2. \A c \in Chunks : gt[c] = "good"
  BY <1>1 DEF AllGot
<1>3. CASE Path = "public"
  BY <1>2, <1>3 DEF AssembleV2, Assemble, OnDisk
<1>4. CASE Path # "public"
  <2>1. ~(\E c \in Chunks : gt[c] = "wrong")
    BY <1>2
  <2>2. Assemble(gt)
    BY <1>4, <2>1 DEF AssembleV2
  <2> QED BY <1>2, <2>2 DEF Assemble
<1> QED BY <1>3, <1>4

---------------------------------------------------------------------------
\* The V2 download starts: the file is read from the chain and the first wave is
\* asked for the manifest.
LEMMA StepV2Start ==
  ASSUME DownloadInv, IsV2, UNCHANGED legacy, V2Start
  PROVE  DownloadInv'
<1> USE V2Facts
<1>1. /\ row' = row /\ cids' = cids /\ netUp' = netUp /\ store' = store /\ order' = order /\ next' = next
      /\ flight' = flight /\ got' = got /\ skip' = skip /\ refused' = refused /\ phase = "start" /\ Early
  BY DEF V2Start, Early
<1>2. ASSUME NEW reason \in {"chain", "access"}, Fail(reason), known' = known, wire' = wire, status' = status
      PROVE  DownloadInv'
  <2>1. phase' = "failed" /\ why' # "exhausted" /\ why' # "allfailed"
    BY <1>2 DEF Fail
  <2> QED BY <1>1, <1>2, <2>1, V2StepKeeps
<1>3. ASSUME DispatchWave(ArchiveStatus, known, wire) PROVE DownloadInv'
  <2>1. ArchiveStatus \in [Archives -> {"none", "untried", "dispatched", "failed"}]
    BY DEF ArchiveStatus
  <2>2. InState(ArchiveStatus, "dispatched") = {}
    BY DEF ArchiveStatus, InState
  <2>3. \A a \in Archives : ArchiveStatus[a] # "failed"
    BY DEF ArchiveStatus
  <2>4. StatusOK(ArchiveStatus, refused, netUp)
    BY <2>1, <2>2, <2>3, FS_EmptySet, FanoutType DEF StatusOK
  <2>5. AllListed(ArchiveStatus)
    BY FanoutType DEF AllListed, ArchiveStatus
  <2>6. /\ StatusOK(status', refused, netUp) /\ known' = known /\ WireOK(wire') /\ output' = output
        /\ \/ phase' = "manifest" /\ why' = why /\ AllListed(status')
           \/ /\ phase' = "failed" /\ why' = "allfailed"
              /\ netUp => \A a \in Assigned : <<0, a>> \in refused
    BY <1>3, <2>4, <2>5, WaveKeeps
  <2>7. phase' \in {"manifest", "failed"}
    BY <2>6
  <2>8. why' = "exhausted" => why = "exhausted"
    BY <2>6
  <2>9. why' = "allfailed" /\ netUp => why = "allfailed" \/ \A a \in Assigned : <<0, a>> \in refused'
    BY <1>1, <2>6
  <2>10. phase' = "manifest" => AllListed(status')
    BY <2>6
  <2> QED BY <1>1, <2>6, <2>7, <2>8, <2>9, <2>10, V2StepKeeps
<1> QED BY <1>2, <1>3 DEF V2Start

\* An archive that fails the manifest request gives its place to the next.
LEMMA ManifestFails ==
  ASSUME DownloadInv, IsV2, UNCHANGED legacy, phase = "manifest", NEW r \in wire,
         refused' = refused \cup {<<0, r.peer>>},
         DispatchWave([status EXCEPT ![r.peer] = "failed"], known, wire \ {r}),
         UNCHANGED <<row, cids, netUp, store, order, next, flight, got, skip>>
  PROVE  DownloadInv'
<1> USE V2Facts
<1> DEFINE rf == refused \cup {<<0, r.peer>>}
<1>1. r.peer \in Archives /\ WireOK(wire \ {r})
  BY WireLess DEF WireOK, Requests
<1>2. Early /\ refused \subseteq rf
  BY DEF Early
<1> DEFINE st == [status EXCEPT ![r.peer] = "failed"]
<1>3. StatusOK(st, rf, netUp) /\ AllListed(st)
  BY <1>1, StatusFails
<1>a. DispatchWave(st, known, wire \ {r}) /\ known \in SUBSET Archives
  OBVIOUS
<1> HIDE DEF st, rf
<1>4. /\ StatusOK(status', rf, netUp) /\ known' = known /\ WireOK(wire') /\ output' = output
      /\ \/ phase' = "manifest" /\ why' = why /\ AllListed(status')
         \/ /\ phase' = "failed" /\ why' = "allfailed"
            /\ netUp => \A a \in Assigned : <<0, a>> \in rf
  BY <1>1, <1>3, <1>a, WaveKeeps
<1>5. refused' = rf
  BY DEF rf
<1>6. AskedOK(order', next', flight', got', refused')
  <2>1. AskedOK(order, next, flight, got, rf)
    BY <1>2 DEF AskedOK
  <2> QED BY <1>5, <2>1
<1>7. phase' \in {"manifest", "failed"} /\ (phase' = "manifest" => AllListed(status'))
  BY <1>4
<1>8. why' = "exhausted" => why = "exhausted"
  BY <1>4
<1>9. why' = "allfailed" /\ netUp => why = "allfailed" \/ \A a \in Assigned : <<0, a>> \in refused'
  BY <1>4, <1>5
<1> QED BY <1>2, <1>4, <1>5, <1>6, <1>7, <1>8, <1>9, V2StepKeeps

\* The chunks skipped are those an earlier run left on disk.
LEMMA SkippedType ==
  ASSUME FileGiven, DiskOK(store)
  PROVE  /\ Skipped \in [1 .. MaxChunks -> {"none", "good"}]
         /\ Path = "public" => OnDisk(Skipped, store)
<1>1. \A c \in Chunks : store[cids[c]] \in {"none", "good"} /\ c \in 1 .. MaxChunks
  BY ChunksType DEF DiskOK
<1>2. Skipped \in [1 .. MaxChunks -> {"none", "good"}]
  BY <1>1 DEF Skipped
<1>3. Path = "public" => \A c \in Chunks : Skipped[c] = store[cids[c]]
  BY <1>1 DEF Skipped
<1> QED BY <1>2, <1>3 DEF OnDisk

\* An answer to a V2 manifest request.
LEMMA StepV2Manifest ==
  ASSUME DownloadInv, IsV2, UNCHANGED legacy, NEW r \in wire, NEW ans, V2Manifest(r, ans)
  PROVE  DownloadInv'
<1> USE V2Facts
<1>1. /\ row' = row /\ cids' = cids /\ netUp' = netUp /\ store' = store /\ skip' = skip
      /\ phase = "manifest" /\ Early
  BY DEF V2Manifest, Early
<1>2. CASE ans # "good"
  <2>1. /\ refused' = refused \cup {<<0, r.peer>>}
        /\ DispatchWave([status EXCEPT ![r.peer] = "failed"], known, wire \ {r})
        /\ UNCHANGED <<row, cids, netUp, store, order, next, flight, got, skip>>
    BY <1>2 DEF V2Manifest
  <2> QED BY <1>1, <2>1, ManifestFails
<1>3. CASE ans = "good"
  <2>1. /\ got' = Skipped /\ known' = known /\ status' = status /\ refused' = refused
        /\ IF AllGot(Skipped)
           THEN AssembleV2(Skipped, store) /\ wire' = {} /\ UNCHANGED <<order, next, flight>>
           ELSE BeginChunks(Skipped)
    BY <1>3 DEF V2Manifest
  <2>2. Skipped \in [1 .. MaxChunks -> {"none", "good"}] /\ (Path = "public" => OnDisk(Skipped, store))
    BY SkippedType
  <2>3. \A c \in 1 .. MaxChunks : flight[c] = None /\ got[c] = "none"
    BY <1>1
  <2>4. Pinned(flight, Skipped)
    BY <2>2, <2>3 DEF Pinned
  <2>5. AskedOK(order, next, flight, Skipped, refused)
    BY <2>3 DEF AskedOK
  <2>6. ChunkState(order, next, flight, Skipped, refused, {})
    BY <2>4, <2>5, WireLess DEF ChunkState
  <2>7. Sent(flight, {})
    BY <2>3, ChunksType DEF Sent
  <2>8. CASE AllGot(Skipped)
    <3>1. AssembleV2(Skipped, store) /\ wire' = {} /\ UNCHANGED <<order, next, flight>>
      BY <2>1, <2>8
    <3>2. phase' = "done" /\ why' = why /\ \A c \in Chunks : output'[c] = "good"
      BY <2>2, <2>8, <3>1, AssembledIsGood
    <3>3. WireOK(wire')
      BY <3>1, WireLess
    <3> QED BY <1>1, <2>1, <2>2, <2>4, <2>5, <3>1, <3>2, <3>3, V2StepKeeps
  <2>9. CASE ~AllGot(Skipped) /\ TryDispatch(flight, Skipped, known, FALSE, {})
    <3>1. /\ ChunkState(order', next', flight', Skipped, refused, wire')
          /\ Sent(flight', wire')
          /\ (phase' = "chunks" /\ why' = why) \/ (phase' = "failed" /\ why' = "send")
      BY <2>6, <2>7, <2>9, DispatchKeeps
    <3>2. /\ Lines(order', next') /\ Pinned(flight', Skipped) /\ ChunkCap(flight')
          /\ AskedOK(order', next', flight', Skipped, refused)
          /\ WireOK(wire') /\ ForChunks(wire') /\ Whole(wire')
      BY <3>1 DEF ChunkState
    <3>3. phase' \in {"chunks", "failed"} /\ (why' = why \/ why' = "send")
      BY <3>1
    <3> QED BY <1>1, <2>1, <2>2, <3>1, <3>2, <3>3, V2StepKeeps
  <2>10. CASE ~AllGot(Skipped) /\ Fail("chain") /\ wire' = {} /\ UNCHANGED <<order, next, flight>>
    <3>1. phase' = "failed" /\ why' = "chain"
      BY <2>10 DEF Fail
    <3>2. WireOK(wire')
      BY <2>10, WireLess
    <3> QED BY <1>1, <2>1, <2>2, <2>4, <2>5, <2>10, <3>1, <3>2, V2StepKeeps
  <2> QED BY <2>1, <2>8, <2>9, <2>10 DEF BeginChunks
<1> QED BY <1>2, <1>3

\* A dispatch in the chunk phase.
LEMMA DispatchStep ==
  ASSUME DownloadInv, IsV2, UNCHANGED legacy, phase = "chunks",
         NEW fl, NEW gt, NEW rf, NEW w, NEW ks \in SUBSET Archives, NEW sk \in BOOLEAN, NEW st,
         ChunkState(order, next, fl, gt, rf, w), Path = "public" => Sent(fl, w),
         Path = "public" => OnDisk(gt, st), DiskOK(st), refused \subseteq rf,
         TryDispatch(fl, gt, ks, sk, w), row' = row, cids' = cids, netUp' = netUp, known' = ks,
         skip' = sk, store' = st, got' = gt, refused' = rf, status' = status
  PROVE  DownloadInv'
<1> USE V2Facts
<1>1. /\ ChunkState(order', next', flight', gt, rf, wire')
      /\ Sent(fl, w) => Sent(flight', wire')
      /\ (phase' = "chunks" /\ why' = why) \/ (phase' = "failed" /\ why' = "send")
  BY DispatchKeeps
<1>2. /\ Lines(order', next') /\ Pinned(flight', gt) /\ ChunkCap(flight')
      /\ AskedOK(order', next', flight', gt, rf)
      /\ WireOK(wire') /\ ForChunks(wire') /\ Whole(wire')
  BY <1>1 DEF ChunkState
<1>3. phase' \in {"chunks", "failed"} /\ (why' = why \/ why' = "send")
  BY <1>1
<1>4. StatusOK(status', refused', netUp)
  BY StatusGrows
<1>5. known' \subseteq Archives
  OBVIOUS
<1> QED BY <1>1, <1>2, <1>3, <1>4, <1>5, V2StepKeeps

\* Identified and disconnected peers on a V2 path.
LEMMA StepV2PeerEvent ==
  ASSUME DownloadInv, IsV2, UNCHANGED legacy, NEW ks \in SUBSET Archives, V2PeerEvent(ks)
  PROVE  DownloadInv'
<1> USE V2Facts
<1>1. /\ row' = row /\ cids' = cids /\ netUp' = netUp /\ store' = store /\ got' = got /\ skip' = skip
      /\ refused' = refused
  BY DEF V2PeerEvent
<1>2. CASE phase = "manifest" /\ DispatchWave(status, ks, wire) /\ UNCHANGED <<order, next, flight>>
  <2>1. /\ StatusOK(status', refused, netUp) /\ known' = ks /\ WireOK(wire') /\ output' = output
        /\ \/ phase' = "manifest" /\ why' = why /\ AllListed(status')
           \/ /\ phase' = "failed" /\ why' = "allfailed"
              /\ netUp => \A a \in Assigned : <<0, a>> \in refused
    BY <1>2, WaveKeeps
  <2>2. Early /\ known' \subseteq Archives
    BY <1>2, <2>1 DEF Early
  <2>3. phase' \in {"manifest", "failed"} /\ (phase' = "manifest" => AllListed(status'))
    BY <2>1
  <2>4. why' = "exhausted" => why = "exhausted"
    BY <2>1
  <2>5. why' = "allfailed" /\ netUp => why = "allfailed" \/ \A a \in Assigned : <<0, a>> \in refused'
    BY <1>1, <2>1
  <2> QED BY <1>1, <1>2, <2>1, <2>2, <2>3, <2>4, <2>5, V2StepKeeps
<1>3. CASE phase = "chunks" /\ known' = ks /\ TryDispatch(flight, got, ks, skip, wire) /\ UNCHANGED status
  <2>1. ChunkState(order, next, flight, got, refused, wire) /\ (Path = "public" => Sent(flight, wire))
    BY <1>3
  <2> QED BY <1>1, <1>3, <2>1, DispatchStep
<1> QED BY <1>2, <1>3 DEF V2PeerEvent

\* The discovery grace period ends.
LEMMA StepGraceOver ==
  ASSUME DownloadInv, IsV2, UNCHANGED legacy, GraceOver
  PROVE  DownloadInv'
<1> USE V2Facts
<1>1. /\ row' = row /\ cids' = cids /\ netUp' = netUp /\ store' = store /\ got' = got /\ skip' = TRUE
      /\ refused' = refused /\ known' = known /\ status' = status /\ phase = "chunks"
      /\ TryDispatch(flight, got, known, TRUE, wire)
  BY DEF GraceOver
<1>2. ChunkState(order, next, flight, got, refused, wire) /\ (Path = "public" => Sent(flight, wire))
  BY <1>1
<1> QED BY <1>1, <1>2, DispatchStep

\* A refusal passes the chunk on to the next archive in line.
LEMMA StepNextArchive ==
  ASSUME DownloadInv, IsV2, UNCHANGED legacy, phase = "chunks", NEW r \in wire, r.idx \in Chunks,
         NEW c \in Chunks, cids[c] = cids[r.idx], flight[c] = r.peer, NextArchive(c, r),
         UNCHANGED <<row, cids, known, netUp, entry, status, skip>>
  PROVE  DownloadInv'
<1> USE V2Facts
<1> DEFINE fl == [flight EXCEPT ![c] = None]
           rf == refused \cup {<<c, r.peer>>}
<1>1. /\ fl \in [1 .. MaxChunks -> Archives \cup {None}]
      /\ \A b \in 1 .. MaxChunks : fl[b] = IF b = c THEN None ELSE flight[b]
      /\ ChunkCap(fl)
      /\ Sent(flight, wire) => Sent(fl, wire \ {r})
  BY SlotFreed
<1>2. refused' = rf /\ store' = store /\ got' = got /\ refused \subseteq rf
  BY DEF NextArchive
<1>3. r.peer \in Archives /\ r.peer # None /\ c \in 1 .. MaxChunks
  BY ChunksType, DownloadAssumption DEF WireOK, Requests
<1>4. got[c] = "none"
  BY <1>3 DEF Pinned
<1>5. WireOK(wire \ {r}) /\ ForChunks(wire \ {r}) /\ Whole(wire \ {r})
  BY WireLess
<1>6. CASE Exhausted(c)
  <2>1. Fail("exhausted") /\ wire' = wire \ {r} /\ order' = order /\ next' = next /\ flight' = fl
    BY <1>6 DEF NextArchive
  <2> HIDE DEF fl
  <2>2. LineOK(order[c], next[c], Ranking[c])
    BY <1>3 DEF Lines
  <2>3. ASSUME NEW a \in ToSet(Ranking[c]) PROVE <<c, a>> \in rf
    <3>1. order[c] \in Seq(Archives) /\ a \in ToSet(order[c]) /\ next[c] \in 1 .. Len(order[c]) + 1
      BY <2>2 DEF LineOK
    <3>2. Len(order[c]) \in Nat /\ DOMAIN order[c] = 1 .. Len(order[c])
      BY <3>1, LenProperties
    <3>3. PICK i \in 1 .. Len(order[c]) : a = order[c][i]
      BY <3>1, <3>2 DEF ToSet
    <3>4. next[c] > Len(order[c])
      BY <1>6 DEF Exhausted
    <3>5. i \in 1 .. next[c] - 1
      BY <3>1, <3>2, <3>4
    <3>6. <<c, a>> \in refused \/ flight[c] = a
      BY <1>3, <1>4, <3>3, <3>5 DEF AskedOK
    <3> QED BY <3>6
  <2>4. phase' = "failed" /\ why' = "exhausted"
    BY <2>1 DEF Fail
  <2>5. Pinned(fl, got)
    BY <1>1 DEF Pinned
  <2>6. AskedOK(order, next, fl, got, rf)
    <3> SUFFICES ASSUME NEW b \in 1 .. MaxChunks, got[b] = "none", NEW i \in 1 .. next[b] - 1
                 PROVE  <<b, order[b][i]>> \in rf \/ fl[b] = order[b][i]
      BY DEF AskedOK
    <3>1. <<b, order[b][i]>> \in refused \/ flight[b] = order[b][i]
      BY DEF AskedOK
    <3> QED BY <1>1, <3>1
  <2> HIDE DEF rf
  <2>7. StatusOK(status', refused', netUp)
    BY <1>2, StatusGrows
  <2>8. \E b \in Chunks : \A a \in ToSet(Ranking[b]) : <<b, a>> \in refused'
    BY <1>2, <2>3
  <2> QED BY <1>1, <1>2, <1>5, <2>1, <2>4, <2>5, <2>6, <2>7, <2>8, V2StepKeeps
<1>7. CASE ~Exhausted(c)
  <2>1. TryDispatch(fl, got, known, skip, wire \ {r})
    BY <1>7 DEF NextArchive
  <2> HIDE DEF fl
  <2>5. Pinned(fl, got)
    BY <1>1 DEF Pinned
  <2>6. AskedOK(order, next, fl, got, rf)
    <3> SUFFICES ASSUME NEW b \in 1 .. MaxChunks, got[b] = "none", NEW i \in 1 .. next[b] - 1
                 PROVE  <<b, order[b][i]>> \in rf \/ fl[b] = order[b][i]
      BY DEF AskedOK
    <3>1. <<b, order[b][i]>> \in refused \/ flight[b] = order[b][i]
      BY DEF AskedOK
    <3> QED BY <1>1, <3>1
  <2> HIDE DEF rf
  <2>7. ChunkState(order, next, fl, got, rf, wire \ {r})
    BY <1>1, <1>5, <2>5, <2>6 DEF ChunkState
  <2>8. Path = "public" => Sent(fl, wire \ {r})
    BY <1>1
  <2>9. known \in SUBSET Archives
    OBVIOUS
  <2> QED BY <1>2, <2>1, <2>7, <2>8, <2>9, DispatchStep
<1> QED BY <1>6, <1>7

\* A verified chunk is kept and its slot comes free.
LEMMA StepDeliver ==
  ASSUME DownloadInv, IsV2, UNCHANGED legacy, phase = "chunks", NEW r \in wire, r.idx \in Chunks,
         NEW c \in Chunks, cids[c] = cids[r.idx], Deliver(c, r, "good"),
         UNCHANGED <<row, cids, known, netUp, entry, status, skip>>
  PROVE  DownloadInv'
<1> USE V2Facts
<1> DEFINE fl == [flight EXCEPT ![c] = None]
           gt == [got EXCEPT ![c] = "good"]
           st == IF Path = "public" THEN [store EXCEPT ![cids[c]] = "good"] ELSE store
<1>1. /\ fl \in [1 .. MaxChunks -> Archives \cup {None}]
      /\ \A b \in 1 .. MaxChunks : fl[b] = IF b = c THEN None ELSE flight[b]
      /\ ChunkCap(fl)
      /\ Sent(flight, wire) => Sent(fl, wire \ {r})
  BY SlotFreed
<1>2. got' = gt /\ store' = st /\ refused' = refused
  BY DEF Deliver
<1>3. c \in 1 .. MaxChunks /\ cids[c] \in Cids
  BY ChunksType
<1>4. gt \in [1 .. MaxChunks -> {"none", "good"}]
      /\ \A b \in 1 .. MaxChunks : gt[b] = IF b = c THEN "good" ELSE got[b]
  BY <1>3 DEF Pinned
<1>5. DiskOK(st) /\ (Path = "public" => \A d \in Cids : st[d] = IF d = cids[c] THEN "good" ELSE store[d])
  BY <1>3 DEF DiskOK
<1>6. WireOK(wire \ {r}) /\ ForChunks(wire \ {r}) /\ Whole(wire \ {r})
  BY WireLess
<1>7. IF AllGot(gt)
      THEN AssembleV2(gt, st) /\ wire' = wire \ {r} /\ flight' = fl /\ UNCHANGED <<order, next>>
      ELSE IF Path = "public" THEN TryDispatch(fl, gt, known, skip, wire \ {r})
      ELSE flight' = fl /\ wire' = wire \ {r} /\ UNCHANGED <<order, next, phase, why, output>>
  BY DEF Deliver
<1> HIDE DEF fl, gt, st
<1>8. Pinned(fl, gt)
  BY <1>1, <1>4 DEF Pinned
<1>9. AskedOK(order, next, fl, gt, refused)
  BY <1>1, <1>4 DEF AskedOK
<1>10. Path = "public" => OnDisk(gt, st)
  <2> SUFFICES ASSUME Path = "public", NEW b \in Chunks, gt[b] = "good" PROVE st[cids[b]] = "good"
    BY DEF OnDisk
  <2>1. cids[b] \in Cids /\ b \in 1 .. MaxChunks
    BY ChunksType
  <2>2. CASE b = c
    BY <1>5, <2>1, <2>2
  <2>3. CASE b # c
    <3>1. got[b] = "good"
      BY <1>4, <2>1, <2>3
    <3>2. store[cids[b]] = "good"
      BY <3>1 DEF OnDisk
    <3> QED BY <1>5, <2>1, <3>2
  <2> QED BY <2>2, <2>3
<1>11. Path = "public" => Sent(fl, wire \ {r})
  BY <1>1
<1>12. CASE AllGot(gt)
  <2>1. AssembleV2(gt, st) /\ wire' = wire \ {r} /\ flight' = fl /\ UNCHANGED <<order, next>>
    BY <1>7, <1>12
  <2>2. phase' = "done" /\ why' = why /\ \A b \in Chunks : output'[b] = "good"
    BY <1>4, <1>10, <1>12, <2>1, AssembledIsGood
  <2> QED BY <1>1, <1>2, <1>5, <1>6, <1>8, <1>9, <1>10, <2>1, <2>2, V2StepKeeps
<1>13. CASE ~AllGot(gt) /\ Path = "public"
  <2>1. TryDispatch(fl, gt, known, skip, wire \ {r})
    BY <1>7, <1>13
  <2>2. ChunkState(order, next, fl, gt, refused, wire \ {r})
    BY <1>1, <1>6, <1>8, <1>9 DEF ChunkState
  <2>3. known \in SUBSET Archives
    OBVIOUS
  <2> QED BY <1>2, <1>5, <1>10, <1>11, <2>1, <2>2, <2>3, DispatchStep
<1>14. CASE ~AllGot(gt) /\ Path # "public"
  <2>1. flight' = fl /\ wire' = wire \ {r} /\ UNCHANGED <<order, next, phase, why, output>>
    BY <1>7, <1>14
  <2> QED BY <1>1, <1>2, <1>5, <1>6, <1>8, <1>9, <1>10, <1>14, <2>1, V2StepKeeps
<1> QED BY <1>12, <1>13, <1>14

\* An answer nobody awaits changes nothing but the wire.
LEMMA StepIgnore ==
  ASSUME DownloadInv, IsV2, UNCHANGED legacy, phase \in {"manifest", "chunks"}, NEW r \in wire, Ignore(r),
         Path = "public" => phase = "chunks" /\ ~Awaited(IdxOf(cids[r.idx]), r),
         UNCHANGED <<row, cids, known, netUp, entry, status, skip>>
  PROVE  DownloadInv'
<1> USE V2Facts
<1>1. /\ wire' = wire \ {r}
      /\ UNCHANGED <<phase, why, store, output, order, next, flight, got, refused>>
  BY DEF Ignore
<1>2. WireOK(wire \ {r}) /\ (ForChunks(wire) => ForChunks(wire \ {r})) /\ (Whole(wire) => Whole(wire \ {r}))
  BY WireLess
<1>3. phase = "manifest" => Early
  BY DEF Early
<1>4. Path = "public" => Sent(flight, wire \ {r})
  <2> SUFFICES ASSUME Path = "public", Distinct, NEW b \in Chunks, flight[b] # None
               PROVE  ChunkRequest(flight[b], b, 0) \in wire \ {r}
    BY DEF Sent
  <2>1. ChunkRequest(flight[b], b, 0) \in wire
    BY DEF Sent
  <2>2. ASSUME r = ChunkRequest(flight[b], b, 0) PROVE FALSE
    <3>1. r.idx = b /\ r.peer = flight[b]
      BY <2>2, RequestFields
    <3>2. IdxOf(cids[b]) \in Chunks /\ cids[IdxOf(cids[b])] = cids[b]
      BY IdxOfType
    <3>3. IdxOf(cids[b]) = b
      BY <3>2 DEF Distinct
    <3>4. got[b] = "none"
      BY ChunksType DEF Pinned
    <3> QED BY <3>1, <3>3, <3>4 DEF Awaited
  <2> QED BY <2>1, <2>2
<1>5. phase' \in {"manifest", "chunks"} /\ (phase' = "manifest" => phase = "manifest")
      /\ (phase' = "chunks" => phase = "chunks")
  BY <1>1
<1> QED BY <1>1, <1>2, <1>3, <1>4, <1>5, V2StepKeeps

\* An answer to a V2 chunk request.
LEMMA StepV2Chunk ==
  ASSUME DownloadInv, IsV2, UNCHANGED legacy, NEW r \in wire, NEW ans, V2Chunk(r, ans)
  PROVE  DownloadInv'
<1> USE V2Facts
<1> DEFINE c == IdxOf(cids[r.idx])
<1>1. phase = "chunks" /\ UNCHANGED <<row, cids, known, netUp, entry, status, skip>>
  BY DEF V2Chunk
<1>2. r.idx \in Chunks
  BY <1>1 DEF ForChunks
<1>3. c \in Chunks /\ cids[c] = cids[r.idx]
  BY <1>2, IdxOfType
<1>4. CASE ~Awaited(c, r) /\ Ignore(r)
  BY <1>1, <1>4, StepIgnore
<1>5. CASE Accepts(ans) /\ Deliver(c, r, ans)
  <2>1. Deliver(c, r, "good")
    BY <1>5 DEF Accepts
  <2> HIDE DEF c
  <2> QED BY <1>1, <1>2, <1>3, <2>1, StepDeliver
<1>6. CASE Awaited(c, r) /\ NextArchive(c, r)
  <2>1. flight[c] = r.peer
    BY <1>6 DEF Awaited
  <2> HIDE DEF c
  <2> QED BY <1>1, <1>2, <1>3, <1>6, <2>1, StepNextArchive
<1> QED BY <1>4, <1>5, <1>6 DEF V2Chunk

\* A V2 request that failed.
LEMMA StepV2RequestFailed ==
  ASSUME DownloadInv, IsV2, UNCHANGED legacy, Running, NEW r \in wire, V2RequestFailed(r)
  PROVE  DownloadInv'
<1> USE V2Facts
<1> DEFINE c == IdxOf(cids[r.idx])
<1>1. UNCHANGED <<row, cids, netUp, entry, skip>>
  BY DEF V2RequestFailed
<1>2. CASE /\ Path = "public" /\ phase = "manifest"
           /\ refused' = refused \cup {<<0, r.peer>>}
           /\ DispatchWave([status EXCEPT ![r.peer] = "failed"], known, wire \ {r})
           /\ UNCHANGED <<store, order, next, flight, got>>
  BY <1>1, <1>2, ManifestFails
<1>3. CASE phase = "chunks" /\ flight[c] = r.peer /\ NextArchive(c, r) /\ UNCHANGED <<known, status>>
  <2>1. r.idx \in Chunks
    BY <1>3 DEF ForChunks
  <2>2. c \in Chunks /\ cids[c] = cids[r.idx]
    BY <2>1, IdxOfType
  <2> HIDE DEF c
  <2> QED BY <1>1, <1>3, <2>1, <2>2, StepNextArchive
<1>4. CASE /\ Path = "private" \/ (phase = "chunks" /\ flight[c] # r.peer)
           /\ Ignore(r) /\ UNCHANGED <<known, status>>
  <2>1. Path = "public" => phase = "chunks" /\ ~Awaited(c, r)
    BY <1>4 DEF Awaited
  <2>2. phase # "discover"
    BY DEF DownloadInv, V2Inv
  <2>3. phase \in {"manifest", "chunks"}
    BY <2>2 DEF Running
  <2> QED BY <1>1, <1>4, <2>1, <2>3, StepIgnore
<1> QED BY <1>2, <1>3, <1>4 DEF V2RequestFailed

---------------------------------------------------------------------------
\* What a step that leaves the V2 state alone has to show of the rest.
LEMMA OtherStepKeeps ==
  ASSUME DownloadInv, UNCHANGED v2, row' = row, cids' = cids, netUp' \in BOOLEAN, netUp' => netUp,
         known' \subseteq Archives, DiskOK(store'), WireOK(wire'), phase' \in Phases,
         phase' \in EarlyPhases => Early,
         IsV2 => store' = store /\ phase' # "discover",
         IsV2 /\ phase' \in {"manifest", "chunks"} => phase' = phase /\ wire' = wire,
         phase' = "chunks" => ForChunks(wire'),
         LegacyInv',
         why' \in {"exhausted", "allfailed"} => why' = why,
         phase' = "done" => \A c \in Chunks : output'[c] = "good"
  PROVE  DownloadInv'
<1>1. FileGiven /\ DownloadBaseInv /\ LegacyInv /\ V2Inv /\ GivesUpLast
  BY DEF DownloadInv
<1>2. FileGiven'
  BY <1>1, Frame
<1>3. DownloadBaseInv'
  BY BaseFrame
<1>4. V2Inv'
  <2>1. /\ skip' = skip /\ order' = order /\ next' = next /\ flight' = flight /\ got' = got
        /\ refused' = refused /\ status' = status
    BY DEF v2
  <2>2. /\ skip' \in BOOLEAN /\ Lines(order', next') /\ Pinned(flight', got')
        /\ ChunkCap(flight') /\ AskedOK(order', next', flight', got', refused')
        /\ (phase' \in EarlyPhases => \A c \in 1 .. MaxChunks : flight'[c] = None /\ got'[c] = "none")
    BY <1>1, <2>1 DEF V2Inv
  <2>3. StatusOK(status', refused', netUp')
    <3>1. StatusOK(status, refused, netUp')
      BY <1>1 DEF StatusOK, V2Inv
    <3> QED BY <2>1, <3>1
  <2>4. /\ Path = "public" => OnDisk(got', store')
        /\ IsV2 /\ phase' = "manifest" => AllListed(status')
        /\ IsV2 /\ phase' = "chunks" => Whole(wire')
        /\ Path = "public" /\ phase' = "chunks" => Sent(flight', wire')
    BY <1>1, <2>1 DEF V2Inv, IsV2
  <2> QED BY <2>2, <2>3, <2>4, V2Frame
<1>5. GivesUpLast' /\ OutputIsTheFile'
  <2>1. refused \subseteq refused'
    BY DEF v2
  <2>2. why' = "exhausted" => why = "exhausted"
    OBVIOUS
  <2>3. why' = "allfailed" /\ netUp' => why = "allfailed"
    OBVIOUS
  <2> QED BY <1>1, <2>1, <2>2, <2>3, LastFrame
<1> QED BY <1>2, <1>3, <1>4, <1>5 DEF DownloadInv

\* The steps every path has.
LEMMA StepCommon ==
  ASSUME DownloadInv, Route \/ SwarmStops \/ NetworkShutDown \/ Deadline, UNCHANGED <<legacy, v2>>
  PROVE  DownloadInv'
<1>1. FileGiven /\ DownloadBaseInv /\ LegacyInv /\ V2Inv /\ OutputIsTheFile
  BY DEF DownloadInv
<1>2. /\ row' = row /\ cids' = cids /\ known' = known /\ store' = store
      /\ netUp' \in BOOLEAN /\ (netUp' => netUp) /\ (wire' = wire \/ wire' = {})
      /\ \/ phase' = "failed" /\ why' \in {"visibility", "shutdown", "deadline"}
         \/ Path = "legacy" /\ phase = "start" /\ phase' = "discover" /\ why' = why /\ wire' = wire
         \/ Running /\ phase' = phase /\ why' = why /\ wire' = wire
  <2>1. netUp \in BOOLEAN
    BY <1>1 DEF DownloadBaseInv
  <2>2. CASE Route
    BY <2>1, <2>2 DEF Route, Fail
  <2>3. CASE SwarmStops
    BY <2>1, <2>3 DEF SwarmStops
  <2>4. CASE NetworkShutDown
    BY <2>1, <2>4 DEF NetworkShutDown, Fail
  <2>5. CASE Deadline
    BY <2>1, <2>5 DEF Deadline, Fail
  <2> QED BY <2>2, <2>3, <2>4, <2>5
<1>3. WireOK(wire') /\ known' \subseteq Archives /\ DiskOK(store')
  BY <1>1, <1>2, WireLess DEF DownloadBaseInv
<1>4. phase' \in Phases /\ phase' # "done" /\ (phase' \in EarlyPhases => Early)
  BY <1>1, <1>2 DEF DownloadBaseInv, Phases, EarlyPhases, Early, Running
<1>5. phase' = "chunks" => phase = "chunks" /\ wire' = wire
  BY <1>2
<1>6. phase' = "chunks" => ForChunks(wire')
  BY <1>1, <1>5 DEF DownloadBaseInv
<1>7. LegacyInv'
  <2>1. /\ discovered' = discovered /\ remaining' = remaining /\ fetched' = fetched /\ total' = total
        /\ inFlight' = inFlight /\ active' = active /\ holders' = holders
    BY DEF legacy
  <2>2. /\ discovered' \in Seq(Archives) /\ remaining' \in Seq(Chunks) /\ fetched' \in Nat
        /\ total' \in 0 .. size /\ fetched' <= total' /\ FlyingOK(inFlight', active')
        /\ (phase' \in EarlyPhases => fetched' = 0)
    BY <1>1, <1>4, <2>1 DEF LegacyInv
  <2>3. OnePerCid({})
    BY DEF OnePerCid
  <2>4. Path = "legacy" => OnePerCid(wire')
    BY <1>1, <1>2, <2>3 DEF LegacyInv
  <2>5. Path = "legacy" /\ phase' = "chunks" =>
            PeersOK(holders', discovered') /\ Counted(wire', inFlight')
              /\ Tally(fetched', store', wire', remaining', total')
    BY <1>1, <1>2, <1>5, <2>1 DEF LegacyInv
  <2> QED BY <1>2, <2>2, <2>4, <2>5, LegacyFrame
<1>8. IsV2 => phase' # "discover"
  BY <1>1, <1>2 DEF V2Inv, IsV2
<1>9. IsV2 /\ phase' \in {"manifest", "chunks"} => phase' = phase /\ wire' = wire
  BY <1>2
<1>10. why' \in {"exhausted", "allfailed"} => why' = why
  BY <1>2
<1> QED BY <1>2, <1>3, <1>4, <1>6, <1>7, <1>8, <1>9, <1>10, OtherStepKeeps

---------------------------------------------------------------------------
\* What a step of the V1 download has to show.
LEMMA LegacyStepKeeps ==
  ASSUME DownloadInv, Path = "legacy", UNCHANGED v2, row' = row, cids' = cids, netUp' = netUp,
         known' \subseteq Archives, DiskOK(store'), WireOK(wire'), OnePerCid(wire'), phase' \in Phases,
         phase' \in EarlyPhases => Early /\ fetched' = 0,
         discovered' \in Seq(Archives), remaining' \in Seq(Chunks),
         fetched' \in Nat, total' \in 0 .. size, fetched' <= total', FlyingOK(inFlight', active'),
         phase' = "chunks" => /\ ForChunks(wire') /\ PeersOK(holders', discovered')
                              /\ Counted(wire', inFlight')
                              /\ Tally(fetched', store', wire', remaining', total'),
         why' = why, phase' = "done" => \A c \in Chunks : output'[c] = "good"
  PROVE  DownloadInv'
<1>1. netUp' \in BOOLEAN /\ (netUp' => netUp)
  BY DEF DownloadInv, DownloadBaseInv
<1>2. ~IsV2
  BY DEF IsV2
<1>3. LegacyInv'
  BY LegacyFrame
<1> QED BY <1>1, <1>2, <1>3, OtherStepKeeps

\* What the V1 download knows between steps.
LEMMA LegacyFacts ==
  ASSUME DownloadInv, Path = "legacy"
  PROVE  /\ FileGiven /\ WireOK(wire) /\ DiskOK(store) /\ known \subseteq Archives
         /\ phase \in Phases /\ OnePerCid(wire)
         /\ discovered \in Seq(Archives) /\ remaining \in Seq(Chunks)
         /\ fetched \in Nat /\ total \in 0 .. size /\ total \in Nat /\ fetched <= total
         /\ FlyingOK(inFlight, active) /\ (Early => fetched = 0)
         /\ phase = "chunks" => /\ ForChunks(wire) /\ PeersOK(holders, discovered)
                                /\ Counted(wire, inFlight)
                                /\ Tally(fetched, store, wire, remaining, total)
  BY ChunksType DEF DownloadInv, DownloadBaseInv, LegacyInv, Phases

\* PeerDiscovered on the V1 path.
LEMMA StepLegacyDiscovered ==
  ASSUME DownloadInv, Path = "legacy", UNCHANGED v2, NEW a \in Archives, LegacyDiscovered(a)
  PROVE  DownloadInv'
<1> USE LegacyFacts
<1>1. /\ phase' = "manifest" /\ Early /\ discovered' = Append(discovered, a)
      /\ wire' \subseteq wire \cup {ManifestRequest(a)}
      /\ UNCHANGED <<row, cids, why, known, netUp, store, output,
                     holders, remaining, inFlight, active, fetched, total>>
  BY DEF LegacyDiscovered, Early
<1>2. 0 \in 0 .. MaxChunks /\ 0 \in Nat
  BY DownloadAssumption
<1>3. ManifestRequest(a) \in Requests /\ ManifestRequest(a).kind = "manifest"
  BY <1>2, RequestType, RequestFields
<1>4. WireOK(wire')
  <2>1. IsFiniteSet(wire \cup {ManifestRequest(a)})
    BY FS_AddElement DEF WireOK
  <2>2. wire' \in SUBSET (wire \cup {ManifestRequest(a)})
    BY <1>1
  <2>3. IsFiniteSet(wire')
    BY <2>1, <2>2, FS_Subset
  <2> QED BY <1>1, <1>3, <2>3 DEF WireOK
<1>5. OnePerCid(wire')
  BY <1>1, <1>3 DEF OnePerCid
<1>6. discovered' \in Seq(Archives)
  BY <1>1, AppendProperties
<1>7. phase' \in Phases
  BY <1>1 DEF Phases
<1> QED BY <1>1, <1>4, <1>5, <1>6, <1>7, LegacyStepKeeps

\* PeerIdentified and PeerDisconnected on the V1 path.
LEMMA StepLegacyPeerEvent ==
  ASSUME DownloadInv, Path = "legacy", UNCHANGED v2, NEW ks \in SUBSET Archives, LegacyPeerEvent(ks)
  PROVE  DownloadInv'
<1> USE LegacyFacts
<1>1. /\ phase \in {"discover", "manifest"} /\ known' = ks
      /\ UNCHANGED <<row, cids, phase, why, netUp, wire, store, output>>
      /\ UNCHANGED <<discovered, holders, remaining, inFlight, active, fetched, total>>
  BY DEF LegacyPeerEvent, legacy
<1>2. phase' \in Phases /\ phase' # "chunks" /\ phase' # "done" /\ Early
  BY <1>1 DEF Phases, Early
<1> QED BY <1>1, <1>2, LegacyStepKeeps

\* The peer that gave the manifest leads the list.
LEMMA PromoteType ==
  ASSUME NEW a \in Archives, discovered \in Seq(Archives)
  PROVE  Promote(a) \in Seq(Archives) /\ Promote(a) # <<>>
<1>1. Len(discovered) \in Nat /\ DOMAIN discovered = 1 .. Len(discovered)
      /\ discovered \in [1 .. Len(discovered) -> Archives]
  BY LenProperties
<1>2. CASE a \notin ToSet(discovered)
  <2>1. <<a>> \in Seq(Archives) /\ Len(<<a>>) = 1
    OBVIOUS
  <2>2. <<a>> \o discovered \in Seq(Archives) /\ Len(<<a>> \o discovered) = 1 + Len(discovered)
    BY <2>1, ConcatProperties
  <2>3. Len(<<a>> \o discovered) # 0
    BY <2>2, <1>1
  <2>4. <<a>> \o discovered # <<>>
    BY <2>2, <2>3, EmptySeq
  <2> QED BY <1>2, <2>2, <2>4 DEF Promote
<1>3. CASE a \in ToSet(discovered)
  <2> DEFINE i == CHOOSE n \in DOMAIN discovered : discovered[n] = a
             p == [j \in DOMAIN discovered |->
                     IF j = 1 THEN a ELSE IF j = i THEN discovered[1] ELSE discovered[j]]
  <2>1. Promote(a) = p
    BY <1>3 DEF Promote
  <2>2. PICK n \in DOMAIN discovered : discovered[n] = a
    BY <1>3 DEF ToSet
  <2>3. 1 \in DOMAIN discovered
    BY <1>1, <2>2
  <2>4. p \in [1 .. Len(discovered) -> Archives]
    BY <1>1, <2>3
  <2>5. p \in Seq(Archives)
    BY <1>1, <2>4, SeqDef
  <2>6. Len(p) = Len(discovered)
    <3> HIDE DEF p
    <3> QED BY <1>1, <2>4, <2>5, LenProperties
  <2>7. Len(discovered) # 0
    BY <1>1, <2>3
  <2>8. p # <<>>
    <3> HIDE DEF p
    <3> QED BY <2>5, <2>6, <2>7, EmptySeq
  <2> HIDE DEF p
  <2> QED BY <2>1, <2>5, <2>8
<1> QED BY <1>2, <1>3

\* The holder of a chunk is an archive, or there is none.
LEMMA HolderMapType ==
  ASSUME FileGiven, NEW up
  PROVE  HolderMap(up) \in [Chunks -> Archives \cup {None}]
<1> DEFINE at(c) == {i \in DOMAIN Ranking[c] : Ranking[c][i] \in known}
<1>1. ASSUME NEW c \in Chunks, at(c) # {} PROVE Ranking[c][Min(at(c))] \in Archives
  <2>1. c \in 1 .. MaxChunks
    BY ChunksType
  <2>2. Ranking[c] \in Seq(Archives) /\ Len(Ranking[c]) \in Nat /\ DOMAIN Ranking[c] = 1 .. Len(Ranking[c])
    BY <2>1, RankingType
  <2>3. at(c) \in SUBSET Nat
    BY <2>2
  <2>4. Min(at(c)) \in at(c)
    <3> HIDE DEF at
    <3> QED BY <1>1, <2>3, MinIn
  <2>5. Min(at(c)) \in 1 .. Len(Ranking[c])
    BY <2>2, <2>4
  <2> HIDE DEF at
  <2> QED BY <2>2, <2>5, ElementOfSeq
<1>2. HolderMap(up) = [c \in Chunks |-> IF up /\ at(c) # {} THEN Ranking[c][Min(at(c))] ELSE None]
  BY DEF HolderMap
<1> HIDE DEF at
<1> QED BY <1>1, <1>2

\* What is queued at first is what the disk lacks, all of it and no more.
LEMMA MissingQueued ==
  ASSUME FileGiven, DiskOK(store)
  PROVE  /\ Missing \in Seq(Chunks) /\ Len(Missing) \in 0 .. size
         /\ Tally(0, store, {}, Missing, Len(Missing))
         /\ Missing = <<>> => \A c \in Chunks : store[cids[c]] = "good"
<1> DEFINE S == {c \in Chunks : store[cids[c]] = "none"}
<1>1. S \in SUBSET Chunks /\ IsFiniteSet(Chunks) /\ Chunks \in SUBSET Nat /\ Cardinality(Chunks) = size /\ size \in Nat
  BY ChunksType
<1>2. IsFiniteSet(S) /\ Cardinality(S) <= size /\ S \in SUBSET Nat
  <2> HIDE DEF S
  <2>1. IsFiniteSet(S) /\ Cardinality(S) <= Cardinality(Chunks)
    BY <1>1, FS_Subset
  <2> QED BY <1>1, <2>1
<1>3. Missing = InOrder(S)
  BY DEF Missing
<1>4. \A c \in Chunks : c \in S <=> store[cids[c]] = "none"
  OBVIOUS
<1>a. \A c \in Chunks : store[cids[c]] \in {"none", "good"}
  BY ChunksType DEF DiskOK
<1> HIDE DEF S
<1>5. /\ Missing \in Seq(S) /\ Len(Missing) = Cardinality(S)
      /\ \A x \in S : \E k \in DOMAIN Missing : Missing[k] = x
  BY <1>2, <1>3, InOrderLists
<1>6. Missing \in Seq(Chunks)
  BY <1>1, <1>5, SeqMonotonic
<1>7. Cardinality(S) \in Nat
  BY <1>2, FS_CardinalityType
<1>8. Orphans(store, {}, Missing) = {}
  <2> SUFFICES ASSUME NEW d \in ToSet(cids), store[d] = "none",
                      \A i \in DOMAIN Missing : cids[Missing[i]] # d
               PROVE  FALSE
    BY DEF Orphans
  <2>1. PICK c \in Chunks : cids[c] = d
    BY ChunksType DEF ToSet
  <2>2. c \in S
    BY <1>4, <2>1
  <2> QED BY <1>5, <2>1, <2>2
<1>9. Tally(0, store, {}, Missing, Len(Missing))
  <2>1. Cardinality(Orphans(store, {}, Missing)) = 0
    BY <1>8, FS_EmptySet
  <2>2. Cardinality({}) = 0
    BY FS_EmptySet
  <2>3. Len(Missing) \in Nat
    BY <1>5, <1>7
  <2> QED BY <2>1, <2>2, <2>3 DEF Tally
<1>10. Missing = <<>> => \A c \in Chunks : store[cids[c]] = "good"
  <2>1. Missing = <<>> => DOMAIN Missing = {}
    OBVIOUS
  <2>2. Missing = <<>> => S = {}
    BY <1>5, <2>1
  <2> QED BY <1>4, <1>a, <2>2
<1>11. Len(Missing) \in 0 .. size
  BY <1>1, <1>2, <1>5, <1>7
<1> QED BY <1>6, <1>9, <1>10, <1>11

\* An answer to a V1 manifest request.
LEMMA StepLegacyManifest ==
  ASSUME DownloadInv, Path = "legacy", UNCHANGED v2, NEW r \in wire, NEW ans, NEW up,
         LegacyManifest(r, ans, up)
  PROVE  DownloadInv'
<1> USE LegacyFacts
<1>1. /\ phase = "manifest" /\ UNCHANGED <<row, cids, known, netUp, store, fetched>> /\ Early /\ fetched = 0
  BY DEF LegacyManifest, Early
<1>2. CASE ans # "good"
  <2>1. /\ wire' = wire \ {r}
        /\ UNCHANGED <<phase, why, output, discovered, holders, remaining, inFlight, active, total>>
    BY <1>2 DEF LegacyManifest
  <2>2. WireOK(wire') /\ OnePerCid(wire')
    BY <2>1, WireLess DEF OnePerCid
  <2>3. phase' # "chunks" /\ phase' # "done"
    BY <1>1, <2>1
  <2> QED BY <1>1, <2>1, <2>2, <2>3, LegacyStepKeeps
<1>3. CASE ans = "good"
  <2>1. /\ discovered' = Promote(r.peer) /\ total' = Len(Missing) /\ holders' = HolderMap(up)
        /\ IF Missing = <<>>
           THEN /\ Assemble([c \in Chunks |-> store[cids[c]]]) /\ wire' = {}
                /\ UNCHANGED <<remaining, inFlight, active>>
           ELSE FillFetches(Missing, inFlight, active, holders', discovered', {})
    BY <1>3 DEF LegacyManifest
  <2>2. /\ Missing \in Seq(Chunks) /\ Len(Missing) \in 0 .. size
        /\ Tally(0, store, {}, Missing, Len(Missing))
        /\ Missing = <<>> => \A c \in Chunks : store[cids[c]] = "good"
    BY MissingQueued
  <2>3. r.peer \in Archives
    BY DEF WireOK, Requests
  <2>4. discovered' \in Seq(Archives) /\ discovered' # <<>>
    BY <2>1, <2>3, PromoteType
  <2>5. PeersOK(holders', discovered')
    BY <2>1, <2>4, HolderMapType DEF PeersOK
  <2>6. WireOK({}) /\ ForChunks({}) /\ OnePerCid({}) /\ Counted({}, inFlight)
    BY WireLess DEF OnePerCid, Counted
  <2>7. total' \in 0 .. size /\ total' \in Nat /\ fetched' \in Nat /\ fetched' <= total'
    BY <1>1, <2>1, <2>2, ChunksType
  <2>8. CASE Missing = <<>>
    <3>1. /\ phase' = "done" /\ why' = why /\ output' = [c \in Chunks |-> store[cids[c]]] /\ wire' = {}
          /\ UNCHANGED <<remaining, inFlight, active>>
      BY <2>1, <2>8 DEF Assemble
    <3>2. \A c \in Chunks : output'[c] = "good"
      BY <2>2, <2>8, <3>1
    <3>3. phase' \in Phases /\ phase' \notin EarlyPhases /\ phase' # "chunks"
      BY <3>1 DEF Phases, EarlyPhases
    <3> QED BY <1>1, <2>4, <2>6, <2>7, <3>1, <3>2, <3>3, LegacyStepKeeps
  <2>9. CASE Missing # <<>>
    <3>1. FillFetches(Missing, inFlight, active, holders', discovered', {})
      BY <2>1, <2>9
    <3>2. /\ remaining' \in Seq(Chunks) /\ FlyingOK(inFlight', active')
          /\ WireOK(wire') /\ OnePerCid(wire') /\ why' = why /\ output' = output
          /\ \/ phase' = "spin"
             \/ /\ phase' = "chunks" /\ ForChunks(wire') /\ Counted(wire', inFlight')
                /\ Tally(0, store, wire', remaining', total')
      <4> DEFINE q == Missing
      <4>1. q \in Seq(Chunks) /\ Tally(0, store, {}, q, total') /\ 0 \in Nat
            /\ FillFetches(q, inFlight, active, holders', discovered', {})
        BY <2>1, <2>2, <3>1
      <4> HIDE DEF q
      <4> QED BY <4>1, <2>4, <2>5, <2>6, <2>7, FillKeeps
    <3>3. phase' \in Phases /\ phase' \notin EarlyPhases /\ phase' # "done"
      BY <3>2 DEF Phases, EarlyPhases
    <3>4. phase' = "chunks" => /\ ForChunks(wire') /\ PeersOK(holders', discovered')
                               /\ Counted(wire', inFlight')
                               /\ Tally(fetched', store', wire', remaining', total')
      BY <1>1, <2>5, <3>2
    <3> QED BY <1>1, <2>4, <2>7, <3>2, <3>3, <3>4, LegacyStepKeeps
  <2> QED BY <2>8, <2>9
<1> QED BY <1>2, <1>3

\* A chunk with the CID of the failed fetch goes to the end of the queue.
LEMMA RequeueType ==
  ASSUME FileGiven, remaining \in Seq(Chunks), NEW k \in Chunks
  PROVE  LET q == Requeue(cids[k]) IN
         /\ q \in Seq(Chunks) /\ Len(q) = Len(remaining) + 1
         /\ \E i \in DOMAIN q : cids[q[i]] = cids[k]
         /\ \A i \in DOMAIN remaining : i \in DOMAIN q /\ q[i] = remaining[i]
<1> DEFINE d == cids[k]
           c == CHOOSE i \in Chunks : cids[i] = d /\ \A j \in Chunks : cids[j] = d => i <= j
           q == Append(remaining, c)
           T == {i \in Chunks : cids[i] = d}
<1>1. T \in SUBSET Nat /\ T # {}
  BY ChunksType
<1>2. PICK i \in T : \A m \in T : i <= m
  <2> HIDE DEF T
  <2> QED BY <1>1, LeastNat
<1>3. \E j \in Chunks : cids[j] = d /\ \A m \in Chunks : cids[m] = d => j <= m
  BY <1>2
<1>4. c \in Chunks /\ cids[c] = d
  <2> HIDE DEF d
  <2> QED BY <1>3
<1>5. Requeue(d) = q
  BY DEF Requeue
<1> HIDE DEF c
<1>6. /\ q \in Seq(Chunks) /\ Len(q) = Len(remaining) + 1
      /\ \A j \in 1 .. Len(remaining) : q[j] = remaining[j] /\ q[Len(remaining) + 1] = c
  BY <1>4, AppendProperties
<1>7. Len(remaining) \in Nat /\ DOMAIN remaining = 1 .. Len(remaining)
  BY LenProperties
<1>8. q[Len(remaining) + 1] = c
  BY <1>4, AppendProperties
<1> HIDE DEF q
<1>9. DOMAIN q = 1 .. Len(remaining) + 1
  BY <1>6, <1>7, LenProperties
<1>10. Len(remaining) + 1 \in DOMAIN q /\ \A j \in DOMAIN remaining : j \in DOMAIN q
  BY <1>7, <1>9
<1>11. \E j \in DOMAIN q : cids[q[j]] = cids[k]
  BY <1>4, <1>8, <1>10
<1> QED BY <1>5, <1>6, <1>7, <1>10, <1>11

\* A request that ended makes room for one chunk more, fetched or queued again.
LEMMA TallySettled ==
  ASSUME FileGiven, WireOK(wire), NEW r \in wire, NEW w, w = wire \ {r},
         NEW O \in SUBSET ToSet(cids), NEW O1 \in SUBSET O
  PROVE
         /\ Cardinality(w) \in Nat /\ Cardinality(wire) = Cardinality(w) + 1
         /\ Cardinality(O) \in Nat /\ Cardinality(O1) \in 0 .. Cardinality(O)
         /\ Cardinality(w) = 0 => w = {}
         /\ Cardinality(O1) = 0 => O1 = {}
<1>1. IsFiniteSet(wire)
  BY DEF WireOK
<1>2. IsFiniteSet(w) /\ Cardinality(w) = Cardinality(wire) - 1
  BY <1>1, FS_RemoveElement
<1>5. IsFiniteSet(O)
  BY ChunksType, FS_Subset
<1>6. IsFiniteSet(O1) /\ Cardinality(O1) <= Cardinality(O)
  BY <1>5, FS_Subset
<1>7. Cardinality(O) \in Nat /\ Cardinality(O1) \in Nat /\ Cardinality(w) \in Nat /\ Cardinality(wire) \in Nat
  BY <1>1, <1>2, <1>5, <1>6, FS_CardinalityType
<1>8. (Cardinality(w) = 0 => w = {}) /\ (Cardinality(O1) = 0 => O1 = {})
  BY <1>2, <1>6, FS_EmptySet
<1>9. Cardinality(wire) = Cardinality(w) + 1
  BY <1>2, <1>7
<1>10. Cardinality(O1) \in 0 .. Cardinality(O)
  BY <1>6, <1>7
<1> QED BY <1>7, <1>8, <1>9, <1>10

\* The CID of a request that ended is no longer awaited.
LEMMA FetchSettled ==
  ASSUME FileGiven, WireOK(wire), ForChunks(wire), OnePerCid(wire), Counted(wire, inFlight),
         FlyingOK(inFlight, active), NEW r \in wire
  PROVE  LET d == cids[r.idx] IN
         /\ r.idx \in Chunks /\ d \in Cids /\ d \in inFlight
         /\ WireOK(wire \ {r}) /\ ForChunks(wire \ {r}) /\ OnePerCid(wire \ {r})
         /\ Counted(wire \ {r}, inFlight \ {d})
         /\ FlyingOK(inFlight \ {d}, active)
         /\ FlyingOK(inFlight \ {d}, [active EXCEPT ![d] = Idle])
<1> DEFINE d == cids[r.idx]
<1>1. r.idx \in Chunks /\ r.kind = "chunk"
  BY DEF ForChunks
<1>2. d \in Cids /\ d \in inFlight
  BY <1>1, ChunksType DEF Counted
<1>3. WireOK(wire \ {r}) /\ ForChunks(wire \ {r}) /\ OnePerCid(wire \ {r})
  BY WireLess DEF OnePerCid
<1>4. Counted(wire \ {r}, inFlight \ {d})
  <2> SUFFICES ASSUME NEW q \in wire, q # r PROVE cids[q.idx] \in inFlight /\ cids[q.idx] # d
    BY DEF Counted
  <2>1. q.kind = "chunk" /\ cids[q.idx] \in inFlight
    BY DEF Counted, ForChunks
  <2> QED BY <1>1, <2>1 DEF OnePerCid
<1>5. /\ active \in [Cids -> Fetches] /\ inFlight \in SUBSET ToSet(cids)
      /\ \A e \in inFlight : e \in ToSet(cids) /\ IsActive(active, e)
      /\ Cardinality(inFlight) <= MaxConcurrent
  BY DEF FlyingOK
<1>6. IsFiniteSet(inFlight)
  BY <1>5, ChunksType, FS_Subset
<1>7. Cardinality(inFlight \ {d}) <= MaxConcurrent
  <2>1. IsFiniteSet(inFlight \ {d}) /\ Cardinality(inFlight \ {d}) = Cardinality(inFlight) - 1
    BY <1>2, <1>6, FS_RemoveElement
  <2>2. Cardinality(inFlight) \in Nat
    BY <1>6, FS_CardinalityType
  <2> QED BY <1>5, <2>1, <2>2, DownloadAssumption
<1>8. FlyingOK(inFlight \ {d}, active)
  BY <1>5, <1>7 DEF FlyingOK
<1> DEFINE act == [active EXCEPT ![d] = Idle]
<1>9. act \in [Cids -> Fetches] /\ \A e \in Cids : e # d => act[e] = active[e]
  BY <1>2, <1>5, IdleFields
<1> HIDE DEF act
<1>10. \A e \in inFlight \ {d} : e \in ToSet(cids) /\ IsActive(act, e)
  BY <1>5, <1>9, ChunksType DEF IsActive
<1>11. FlyingOK(inFlight \ {d}, act)
  BY <1>7, <1>9, <1>10 DEF FlyingOK
<1> QED BY <1>1, <1>2, <1>3, <1>4, <1>8, <1>11 DEF act

\* A fetch that failed is queued again, whether or not FetchManager is told.
LEMMA FetchFails ==
  ASSUME DownloadInv, Path = "legacy", UNCHANGED v2, phase = "chunks", NEW r \in wire, NEW act,
         FlyingOK(inFlight \ {cids[r.idx]}, act),
         FillFetches(Requeue(cids[r.idx]), inFlight \ {cids[r.idx]}, act, holders, discovered, wire \ {r}),
         UNCHANGED <<row, cids, known, netUp, store, discovered, holders, fetched, total>>
  PROVE  DownloadInv'
<1> USE LegacyFacts
<1> DEFINE d == cids[r.idx]
           w == wire \ {r}
           q == Requeue(d)
           fly == inFlight \ {d}
<1>1. /\ r.idx \in Chunks /\ d \in Cids
      /\ WireOK(w) /\ ForChunks(w) /\ OnePerCid(w) /\ Counted(w, fly)
  BY FetchSettled
<1>2. /\ q \in Seq(Chunks) /\ Len(q) = Len(remaining) + 1
      /\ \E i \in DOMAIN q : cids[q[i]] = d
      /\ \A i \in DOMAIN remaining : i \in DOMAIN q /\ q[i] = remaining[i]
  BY <1>1, RequeueType
<1>3. FillFetches(q, fly, act, holders, discovered, w) /\ FlyingOK(fly, act)
  OBVIOUS
<1>a. w = wire \ {r} /\ d = cids[r.idx]
  OBVIOUS
<1> HIDE DEF q, fly, w, d
<1>4. Orphans(store, w, q) \subseteq Orphans(store, wire, remaining)
  <2> SUFFICES ASSUME NEW e \in Orphans(store, w, q) PROVE e \in Orphans(store, wire, remaining)
    OBVIOUS
  <2>1. /\ e \in ToSet(cids) /\ store[e] = "none" /\ (\A x \in w : cids[x.idx] # e)
        /\ \A i \in DOMAIN q : cids[q[i]] # e
    BY DEF Orphans
  <2>2. e # d
    BY <1>2, <2>1
  <2>3. \A x \in wire : cids[x.idx] # e
    BY <1>a, <2>1, <2>2
  <2>4. \A i \in DOMAIN remaining : cids[remaining[i]] # e
    BY <1>2, <2>1
  <2> QED BY <2>1, <2>3, <2>4 DEF Orphans
<1>6. Tally(fetched, store, w, q, total)
  <2> DEFINE O == Orphans(store, wire, remaining)
             O1 == Orphans(store, w, q)
             cw == Cardinality(w)
             cr == Cardinality(wire)
             co == Cardinality(O)
             c1 == Cardinality(O1)
             lr == Len(remaining)
             lq == Len(q)
  <2>0. O \in SUBSET ToSet(cids) /\ O1 \in SUBSET O
    BY <1>4 DEF Orphans
  <2>1. cw \in Nat /\ cr = cw + 1 /\ co \in Nat /\ c1 \in 0 .. co
    <3> HIDE DEF O, O1
    <3> QED BY <1>a, <2>0, TallySettled
  <2>2. lr \in Nat /\ lq = lr + 1
    BY <1>2, LenProperties
  <2>3. fetched + lr + cr + co <= total
    BY DEF Tally
  <2> HIDE DEF cw, cr, co, c1, lr, lq
  <2>4. fetched + lq + cw + c1 <= total
    BY <2>1, <2>2, <2>3
  <2> QED BY <2>4 DEF Tally, lq, cw, c1, O1
<1>7. /\ remaining' \in Seq(Chunks) /\ FlyingOK(inFlight', active')
      /\ WireOK(wire') /\ OnePerCid(wire') /\ why' = why /\ output' = output
      /\ \/ phase' = "spin"
         \/ /\ phase' = "chunks" /\ ForChunks(wire') /\ Counted(wire', inFlight')
            /\ Tally(fetched, store, wire', remaining', total)
  BY <1>1, <1>2, <1>3, <1>6, FillKeeps
<1>8. phase' \in Phases /\ phase' \notin EarlyPhases /\ phase' # "done"
  BY <1>7 DEF Phases, EarlyPhases
<1>9. phase' = "chunks" => /\ ForChunks(wire') /\ PeersOK(holders', discovered')
                           /\ Counted(wire', inFlight')
                           /\ Tally(fetched', store', wire', remaining', total')
  BY <1>7
<1> QED BY <1>7, <1>8, <1>9, LegacyStepKeeps

\* ShardRequestFailed on the V1 path.
LEMMA StepLegacyRequestFailed ==
  ASSUME DownloadInv, Path = "legacy", UNCHANGED v2, Running, NEW r \in wire, LegacyRequestFailed(r)
  PROVE  DownloadInv'
<1> USE LegacyFacts
<1>1. UNCHANGED <<row, cids, known, netUp, store, discovered, holders, fetched, total>>
  BY DEF LegacyRequestFailed
<1>2. CASE phase = "chunks"
  <2>1. r.kind = "chunk" /\ cids[r.idx] \in inFlight
    BY <1>2 DEF ForChunks, Counted
  <2>2. FillFetches(Requeue(cids[r.idx]), inFlight \ {cids[r.idx]}, active, holders, discovered, wire \ {r})
    BY <1>2, <2>1 DEF LegacyRequestFailed
  <2>3. FlyingOK(inFlight \ {cids[r.idx]}, active)
    BY <1>2, FetchSettled
  <2> QED BY <1>1, <1>2, <2>2, <2>3, FetchFails
<1>3. CASE phase # "chunks"
  <2>1. wire' = wire \ {r} /\ UNCHANGED <<phase, why, output, remaining, inFlight, active>>
    BY <1>3 DEF LegacyRequestFailed
  <2>2. WireOK(wire') /\ OnePerCid(wire')
    BY <2>1, WireLess DEF OnePerCid
  <2>3. Early /\ phase' # "chunks" /\ phase' # "done"
    BY <1>3, <2>1 DEF Running, Early
  <2> QED BY <1>1, <2>1, <2>2, <2>3, LegacyStepKeeps
<1> QED BY <1>2, <1>3

\* The last piece of a chunk: it is on disk, and if none is left to fetch so
\* are all the others.
LEMMA FetchCompletes ==
  ASSUME DownloadInv, Path = "legacy", UNCHANGED v2, phase = "chunks", NEW r \in wire,
         fetched' = fetched + 1, store' = [store EXCEPT ![cids[r.idx]] = "good"],
         IF fetched' = total
         THEN /\ Assemble([c \in Chunks |-> store'[cids[c]]]) /\ wire' = wire \ {r}
              /\ active' = [active EXCEPT ![cids[r.idx]] = Idle]
              /\ inFlight' = inFlight \ {cids[r.idx]} /\ UNCHANGED remaining
         ELSE FillFetches(remaining, inFlight \ {cids[r.idx]}, [active EXCEPT ![cids[r.idx]] = Idle],
                          holders, discovered, wire \ {r}),
         UNCHANGED <<row, cids, known, netUp, discovered, holders, total>>
  PROVE  DownloadInv'
<1> USE LegacyFacts
<1> DEFINE d == cids[r.idx]
           w == wire \ {r}
           fly == inFlight \ {d}
           act == [active EXCEPT ![d] = Idle]
           st == [store EXCEPT ![d] = "good"]
           n == fetched + 1
<1>1. /\ r.idx \in Chunks /\ d \in Cids
      /\ WireOK(w) /\ ForChunks(w) /\ OnePerCid(w) /\ Counted(w, fly) /\ FlyingOK(fly, act)
  BY FetchSettled
<1>2. st \in [Cids -> {"none", "good"}] /\ \A e \in Cids : st[e] = IF e = d THEN "good" ELSE store[e]
  BY <1>1 DEF DiskOK
<1>3. /\ w = wire \ {r} /\ d = cids[r.idx] /\ store' = st /\ fetched' = n /\ n = fetched + 1
      /\ IF n = total
         THEN Assemble([c \in Chunks |-> st[cids[c]]]) /\ wire' = w /\ active' = act
              /\ inFlight' = fly /\ remaining' = remaining
         ELSE FillFetches(remaining, fly, act, holders, discovered, w)
  OBVIOUS
<1> HIDE DEF d, w, fly, act, st, n
<1>4. Orphans(st, w, remaining) \subseteq Orphans(store, wire, remaining)
  <2> SUFFICES ASSUME NEW e \in Orphans(st, w, remaining) PROVE e \in Orphans(store, wire, remaining)
    OBVIOUS
  <2>1. /\ e \in ToSet(cids) /\ st[e] = "none" /\ (\A x \in w : cids[x.idx] # e)
        /\ \A i \in DOMAIN remaining : cids[remaining[i]] # e
    BY DEF Orphans
  <2>2. e # d /\ store[e] = "none"
    BY <1>2, <2>1, ChunksType
  <2>3. \A x \in wire : cids[x.idx] # e
    BY <1>3, <2>1, <2>2
  <2> QED BY <2>1, <2>2, <2>3 DEF Orphans
<1>5. n \in Nat /\ n = fetched + 1
  BY <1>3
<1>6. /\ Tally(n, st, w, remaining, total) /\ n <= total
      /\ n = total => remaining = <<>> /\ w = {} /\ Orphans(st, w, remaining) = {}
  <2> DEFINE O == Orphans(store, wire, remaining)
             O1 == Orphans(st, w, remaining)
             cw == Cardinality(w)
             cr == Cardinality(wire)
             co == Cardinality(O)
             c1 == Cardinality(O1)
             lr == Len(remaining)
  <2>0. w = wire \ {r} /\ O \in SUBSET ToSet(cids) /\ O1 \in SUBSET O
    BY <1>3, <1>4 DEF Orphans
  <2>1. /\ cw \in Nat /\ cr = cw + 1 /\ co \in Nat /\ c1 \in 0 .. co
        /\ (cw = 0 => w = {}) /\ (c1 = 0 => O1 = {})
    <3> HIDE DEF O, O1
    <3> QED BY <2>0, TallySettled
  <2>2. lr \in Nat /\ (lr = 0 => remaining = <<>>)
    BY LenProperties, EmptySeq
  <2>3. fetched + lr + cr + co <= total
    BY DEF Tally
  <2> HIDE DEF cw, cr, co, c1, lr, O, O1
  <2>a. /\ lr \in Nat /\ cw \in Nat /\ co \in Nat /\ c1 \in Nat /\ c1 <= co /\ cr = cw + 1
        /\ fetched \in Nat /\ n = fetched + 1 /\ total \in Nat
    BY <1>5, <2>1, <2>2
  <2>4. n + lr + cw + c1 <= total
    BY ONLY <2>3, <2>a
  <2>5. n <= total /\ (n = total => lr = 0 /\ cw = 0 /\ c1 = 0)
    BY ONLY <2>4, <2>a
  <2>6. Tally(n, st, w, remaining, total)
    BY <2>4 DEF Tally, lr, cw, c1, O1
  <2> QED BY <2>1, <2>2, <2>5, <2>6 DEF O1
<1>7. DiskOK(store')
  BY <1>2, <1>3 DEF DiskOK
<1>8. CASE n = total
  <2>1. /\ phase' = "done" /\ why' = why /\ output' = [c \in Chunks |-> st[cids[c]]]
        /\ wire' = w /\ active' = act /\ inFlight' = fly /\ remaining' = remaining
    BY <1>3, <1>8 DEF Assemble
  <2>2. \A c \in Chunks : st[cids[c]] = "good"
    <3> SUFFICES ASSUME NEW c \in Chunks, st[cids[c]] # "good" PROVE FALSE
      OBVIOUS
    <3>1. cids[c] \in ToSet(cids) /\ st[cids[c]] = "none"
      BY <1>2, ChunksType
    <3>2. remaining = <<>> /\ w = {} /\ cids[c] \notin Orphans(st, w, remaining)
      BY <1>6, <1>8
    <3>3. DOMAIN remaining = {}
      BY <3>2
    <3> QED BY <3>1, <3>2, <3>3 DEF Orphans
  <2>3. \A c \in Chunks : output'[c] = "good"
    BY <2>1, <2>2
  <2>4. phase' \in Phases /\ phase' \notin EarlyPhases /\ phase' # "chunks"
    BY <2>1 DEF Phases, EarlyPhases
  <2> QED BY <1>1, <1>3, <1>5, <1>6, <1>7, <2>1, <2>3, <2>4, LegacyStepKeeps
<1>9. CASE n # total
  <2>1. FillFetches(remaining, fly, act, holders, discovered, w)
    BY <1>3, <1>9
  <2>2. /\ remaining' \in Seq(Chunks) /\ FlyingOK(inFlight', active')
        /\ WireOK(wire') /\ OnePerCid(wire') /\ why' = why /\ output' = output
        /\ \/ phase' = "spin"
           \/ /\ phase' = "chunks" /\ ForChunks(wire') /\ Counted(wire', inFlight')
              /\ Tally(n, st, wire', remaining', total)
    BY <1>1, <1>5, <1>6, <2>1, FillKeeps
  <2>3. phase' \in Phases /\ phase' \notin EarlyPhases /\ phase' # "done"
    BY <2>2 DEF Phases, EarlyPhases
  <2>4. phase' = "chunks" => /\ ForChunks(wire') /\ PeersOK(holders', discovered')
                             /\ Counted(wire', inFlight')
                             /\ Tally(fetched', store', wire', remaining', total')
    BY <1>3, <2>2
  <2> QED BY <1>3, <1>5, <1>6, <1>7, <2>2, <2>3, <2>4, LegacyStepKeeps
<1> QED BY <1>8, <1>9

\* A piece that is not the last: the request for the next takes its place.
LEMMA FetchGoesOn ==
  ASSUME DownloadInv, Path = "legacy", UNCHANGED v2, phase = "chunks", NEW r \in wire, NEW ans,
         active[cids[r.idx]].peer # None,
         active' = [active EXCEPT ![cids[r.idx]].off = r.off + 1,
                                  ![cids[r.idx]].bytes = IF ans = "good" THEN @ ELSE "wrong"],
         wire' = (wire \ {r}) \cup {ChunkRequest(active[cids[r.idx]].peer, r.idx, r.off + 1)},
         UNCHANGED <<phase, why, store, output, remaining, inFlight, fetched>>,
         UNCHANGED <<row, cids, known, netUp, discovered, holders, total>>
  PROVE  DownloadInv'
<1> USE LegacyFacts
<1> DEFINE d == cids[r.idx]
           w == wire \ {r}
           f == active[d]
           x == ChunkRequest(f.peer, r.idx, r.off + 1)
           b == IF ans = "good" THEN f.bytes ELSE "wrong"
           g == [f EXCEPT !.off = r.off + 1, !.bytes = b]
<1>1. /\ r.idx \in Chunks /\ d \in Cids /\ d \in inFlight /\ WireOK(w) /\ ForChunks(w) /\ OnePerCid(w)
      /\ Counted(w, inFlight \ {d})
  BY FetchSettled
<1>2. r.off \in Nat /\ r \in Requests
  BY DEF WireOK, Requests
<1>3. active \in [Cids -> Fetches] /\ f \in Fetches
  BY <1>1 DEF FlyingOK
<1>4. f.peer \in Archives /\ f.peer # None
  BY <1>3 DEF Fetches
<1>5. g \in Fetches /\ g.peer = f.peer
  <2>1. b \in {"good", "wrong"} /\ r.off + 1 \in Nat
    BY <1>2, <1>3 DEF Fetches
  <2> HIDE DEF b, f
  <2> QED BY <1>3, <2>1 DEF Fetches
<1>6. active' = [active EXCEPT ![d] = g]
  BY <1>1, <1>3, Zenon
<1>7. x \in Requests /\ x.kind = "chunk" /\ x.idx = r.idx
  <2>1. r.idx \in 0 .. MaxChunks /\ r.off + 1 \in Nat
    BY <1>1, <1>2, ChunksType
  <2> QED BY <1>4, <2>1, RequestType, RequestFields
<1>8. wire' = w \cup {x} /\ w = wire \ {r} /\ d = cids[r.idx]
  OBVIOUS
<1>a. f = active[d]
  OBVIOUS
<1> HIDE DEF g, x, w, f, d
<1>9. active' \in [Cids -> Fetches] /\ \A e \in Cids : active'[e] = IF e = d THEN g ELSE active[e]
  BY <1>1, <1>3, <1>5, <1>6
<1>10. FlyingOK(inFlight', active')
  <2>1. \A e \in inFlight : e \in ToSet(cids) /\ IsActive(active, e) /\ e \in Cids
    BY ChunksType DEF FlyingOK
  <2>2. \A e \in inFlight : IsActive(active', e)
    BY <1>4, <1>5, <1>9, <2>1 DEF IsActive
  <2> QED BY <1>9, <2>1, <2>2 DEF FlyingOK
<1>11. IsFiniteSet(w) /\ IsFiniteSet(wire)
  BY <1>1 DEF WireOK
<1>12. WireOK(wire')
  <2>1. IsFiniteSet(w \cup {x})
    BY <1>11, FS_AddElement
  <2> QED BY <1>1, <1>7, <1>8, <2>1 DEF WireOK
<1>13. ForChunks(wire')
  BY <1>1, <1>7, <1>8 DEF ForChunks
<1>14. OnePerCid(wire')
  <2>1. \A y \in w : cids[y.idx] # d
    BY <1>1 DEF Counted
  <2> QED BY <1>1, <1>7, <1>8, <2>1 DEF OnePerCid
<1>15. Counted(wire', inFlight')
  BY <1>1, <1>7, <1>8 DEF Counted
<1>16. Tally(fetched', store', wire', remaining', total')
  <2>1. Orphans(store, wire', remaining) = Orphans(store, wire, remaining)
    <3>1. \A e : (\A y \in wire' : cids[y.idx] # e) <=> (\A y \in wire : cids[y.idx] # e)
      BY <1>7, <1>8
    <3> QED BY <3>1 DEF Orphans
  <2>2. Cardinality(w) = Cardinality(wire) - 1
    BY <1>8, <1>11, FS_RemoveElement
  <2>3. Cardinality(w \cup {x}) = IF x \in w THEN Cardinality(w) ELSE Cardinality(w) + 1
    BY <1>11, FS_AddElement
  <2>4. Cardinality(w) \in Nat /\ Cardinality(wire) \in Nat
    BY <1>11, FS_CardinalityType
  <2>5. Cardinality(wire') \in Nat /\ Cardinality(wire') <= Cardinality(wire)
    <3>1. Cardinality(wire') = Cardinality(w \cup {x})
      BY <1>8
    <3>2. Cardinality(wire') = Cardinality(w) \/ Cardinality(wire') = Cardinality(w) + 1
      BY <2>3, <3>1
    <3> QED BY <2>2, <2>4, <3>2
  <2>6. fetched + Len(remaining) + Cardinality(wire) + Cardinality(Orphans(store, wire, remaining)) <= total
    BY DEF Tally
  <2>7. Len(remaining) \in Nat
    BY LenProperties
  <2>8. Cardinality(Orphans(store, wire, remaining)) \in Nat
    <3>1. Orphans(store, wire, remaining) \in SUBSET ToSet(cids) /\ IsFiniteSet(ToSet(cids))
      BY ChunksType DEF Orphans
    <3>2. IsFiniteSet(Orphans(store, wire, remaining))
      BY <3>1, FS_Subset
    <3> QED BY <3>2, FS_CardinalityType
  <2>9. fetched + Len(remaining) + Cardinality(wire') + Cardinality(Orphans(store, wire, remaining)) <= total
    <3> DEFINE lq == Len(remaining)
               cw == Cardinality(wire)
               c1 == Cardinality(wire')
               co == Cardinality(Orphans(store, wire, remaining))
    <3>1. lq \in Nat /\ cw \in Nat /\ c1 \in Nat /\ co \in Nat /\ c1 <= cw /\ fetched + lq + cw + co <= total
      BY <2>4, <2>5, <2>6, <2>7, <2>8
    <3> HIDE DEF lq, cw, c1, co
    <3>2. fetched + lq + c1 + co <= total
      BY <3>1
    <3> QED BY <3>2 DEF lq, c1, co
  <2>10. Tally(fetched, store, wire', remaining, total)
    BY <2>1, <2>9 DEF Tally
  <2> QED BY <2>10
<1> QED BY <1>10, <1>12, <1>13, <1>14, <1>15, <1>16, LegacyStepKeeps DEF EarlyPhases

\* An answer to a V1 chunk request.
LEMMA StepLegacyChunk ==
  ASSUME DownloadInv, Path = "legacy", UNCHANGED v2, NEW r \in wire, NEW ans, LegacyChunk(r, ans)
  PROVE  DownloadInv'
<1> USE LegacyFacts
<1> DEFINE d == cids[r.idx]
           outcome == Piece(r, ans)
<1>1. phase = "chunks" /\ UNCHANGED <<row, cids, known, netUp, discovered, holders, total>>
  BY DEF LegacyChunk
<1>2. CASE /\ outcome = "more" /\ netUp
           /\ active' = [active EXCEPT ![d].off = r.off + 1,
                                       ![d].bytes = IF ans = "good" THEN @ ELSE "wrong"]
           /\ wire' = (wire \ {r}) \cup {ChunkRequest(active[d].peer, r.idx, r.off + 1)}
           /\ UNCHANGED <<phase, why, store, output, remaining, inFlight, fetched>>
  <2>1. active[d].peer # None
    BY <1>2 DEF Piece, ExpectedPiece
  <2> QED BY <1>1, <1>2, <2>1, FetchGoesOn
<1>3. CASE /\ outcome = "complete" /\ fetched' = fetched + 1
           /\ store' = [store EXCEPT ![d] = "good"]
           /\ IF fetched' = total
              THEN /\ Assemble([c \in Chunks |-> store'[cids[c]]]) /\ wire' = wire \ {r}
                   /\ active' = [active EXCEPT ![d] = Idle]
                   /\ inFlight' = inFlight \ {d} /\ UNCHANGED remaining
              ELSE FillFetches(remaining, inFlight \ {d}, [active EXCEPT ![d] = Idle],
                               holders, discovered, wire \ {r})
  BY <1>1, <1>3, FetchCompletes
<1>4. CASE /\ FillFetches(Requeue(d), inFlight \ {d}, [active EXCEPT ![d] = Idle],
                          holders, discovered, wire \ {r})
           /\ UNCHANGED <<store, fetched>>
  <2>1. FlyingOK(inFlight \ {d}, [active EXCEPT ![d] = Idle])
    BY <1>1, FetchSettled
  <2> QED BY <1>1, <1>4, <2>1, FetchFails
<1> QED BY <1>2, <1>3, <1>4 DEF LegacyChunk

---------------------------------------------------------------------------
\* The invariant is inductive: every step of every path keeps it.
LEMMA DownloadStep == DownloadInv /\ [DownloadNext]_downloadVars => DownloadInv'
<1> SUFFICES ASSUME DownloadInv, [DownloadNext]_downloadVars PROVE DownloadInv'
  OBVIOUS
<1>0. known \subseteq Archives
  BY DEF DownloadInv, DownloadBaseInv
<1>1. CASE UNCHANGED downloadVars
  <2>1. UNCHANGED <<row, cids, phase, why, known, netUp, wire, store, output>> /\ UNCHANGED <<legacy, v2>>
    BY <1>1 DEF downloadVars, base
  <2>2. FileGiven /\ DownloadBaseInv /\ LegacyInv /\ OutputIsTheFile /\ V2Inv
    BY DEF DownloadInv
  <2>3. LegacyInv'
    <3>1. UNCHANGED <<discovered, holders, remaining, inFlight, active, fetched, total>>
      BY <2>1 DEF legacy
    <3> QED BY <2>1, <2>2, <3>1, LegacyFrame DEF LegacyInv, Early, EarlyPhases
  <2>4. phase' \in Phases /\ (phase' \in EarlyPhases => Early) /\ netUp' \in BOOLEAN
    BY <2>1, <2>2 DEF DownloadBaseInv, Phases, EarlyPhases, Early
  <2>5. WireOK(wire') /\ DiskOK(store') /\ (phase' = "chunks" => ForChunks(wire'))
    BY <2>1, <2>2 DEF DownloadBaseInv
  <2>6. phase' = "done" => \A c \in Chunks : output'[c] = "good"
    BY <2>1, <2>2 DEF OutputIsTheFile
  <2>7. IsV2 => store' = store /\ phase' # "discover"
    BY <2>1, <2>2 DEF V2Inv
  <2> QED BY <1>0, <2>1, <2>3, <2>4, <2>5, <2>6, <2>7, OtherStepKeeps
<1>2. CASE (Route \/ SwarmStops \/ NetworkShutDown \/ Deadline) /\ UNCHANGED <<legacy, v2>>
  BY <1>2, StepCommon
<1>3. CASE V2(V2Start) \/ V2(GraceOver)
  <2>1. IsV2 /\ UNCHANGED legacy /\ (V2Start \/ GraceOver)
    BY <1>3 DEF V2, IsV2
  <2> QED BY <2>1, StepV2Start, StepGraceOver
<1>4. ASSUME NEW a \in Archives, Discovered(a) \/ Identified(a) \/ Disconnected(a) PROVE DownloadInv'
  <2>1. CASE Discovered(a)
    <3>1. Path = "legacy" /\ UNCHANGED v2 /\ LegacyDiscovered(a)
      BY <2>1 DEF Discovered, Legacy
    <3> QED BY <3>1, StepLegacyDiscovered
  <2>2. ASSUME NEW ks \in SUBSET Archives, Legacy(LegacyPeerEvent(ks)) \/ V2(V2PeerEvent(ks))
        PROVE  DownloadInv'
    <3>1. CASE Legacy(LegacyPeerEvent(ks))
      <4>1. Path = "legacy" /\ UNCHANGED v2 /\ LegacyPeerEvent(ks)
        BY <3>1 DEF Legacy
      <4> QED BY <4>1, StepLegacyPeerEvent
    <3>2. CASE V2(V2PeerEvent(ks))
      <4>1. IsV2 /\ UNCHANGED legacy /\ V2PeerEvent(ks)
        BY <3>2 DEF V2, IsV2
      <4> QED BY <4>1, StepV2PeerEvent
    <3> QED BY <2>2, <3>1, <3>2
  <2>3. CASE Identified(a)
    <3>1. known \cup {a} \in SUBSET Archives
      BY <1>0
    <3>2. Legacy(LegacyPeerEvent(known \cup {a})) \/ V2(V2PeerEvent(known \cup {a}))
      BY <2>3 DEF Identified
    <3> QED BY <2>2, <3>1, <3>2
  <2>4. CASE Disconnected(a)
    <3>1. known \ {a} \in SUBSET Archives
      BY <1>0
    <3>2. Legacy(LegacyPeerEvent(known \ {a})) \/ V2(V2PeerEvent(known \ {a}))
      BY <2>4 DEF Disconnected
    <3> QED BY <2>2, <3>1, <3>2
  <2> QED BY <1>4, <2>1, <2>3, <2>4
<1>5. ASSUME NEW r \in wire, Settled(r) PROVE DownloadInv'
  <2>1. ASSUME NEW ans \in Answers, Legacy(\E up \in BOOLEAN : LegacyManifest(r, ans, up)) PROVE DownloadInv'
    <3>1. PICK up \in BOOLEAN : Path = "legacy" /\ UNCHANGED v2 /\ LegacyManifest(r, ans, up)
      BY <2>1 DEF Legacy
    <3> QED BY <3>1, StepLegacyManifest
  <2>2. ASSUME NEW ans \in Answers, Legacy(LegacyChunk(r, ans)) PROVE DownloadInv'
    <3>1. Path = "legacy" /\ UNCHANGED v2 /\ LegacyChunk(r, ans)
      BY <2>2 DEF Legacy
    <3> QED BY <3>1, StepLegacyChunk
  <2>3. ASSUME NEW ans \in Answers, V2(V2Manifest(r, ans)) PROVE DownloadInv'
    <3>1. IsV2 /\ UNCHANGED legacy /\ V2Manifest(r, ans)
      BY <2>3 DEF V2, IsV2
    <3> QED BY <3>1, StepV2Manifest
  <2>4. ASSUME NEW ans \in Answers, V2(V2Chunk(r, ans)) PROVE DownloadInv'
    <3>1. IsV2 /\ UNCHANGED legacy /\ V2Chunk(r, ans)
      BY <2>4 DEF V2, IsV2
    <3> QED BY <3>1, StepV2Chunk
  <2>5. CASE RequestFailed(r)
    <3>1. Running /\ (Legacy(LegacyRequestFailed(r)) \/ V2(V2RequestFailed(r)))
      BY <2>5 DEF RequestFailed
    <3>2. CASE Legacy(LegacyRequestFailed(r))
      <4>1. Path = "legacy" /\ UNCHANGED v2 /\ LegacyRequestFailed(r)
        BY <3>2 DEF Legacy
      <4> QED BY <3>1, <4>1, StepLegacyRequestFailed
    <3>3. CASE V2(V2RequestFailed(r))
      <4>1. IsV2 /\ UNCHANGED legacy /\ V2RequestFailed(r)
        BY <3>3 DEF V2, IsV2
      <4> QED BY <3>1, <4>1, StepV2RequestFailed
    <3> QED BY <3>1, <3>2, <3>3
  <2> QED BY <1>5, <2>1, <2>2, <2>3, <2>4, <2>5 DEF Settled, Response
<1> QED BY <1>1, <1>2, <1>3, <1>4, <1>5 DEF DownloadNext

\* The tally, the lines and the cap hold in every state a download can reach,
\* for any number of archives, any ranking, files of any length and any cap.
THEOREM DownloadInvariant == DownloadSpec => []DownloadInv
<1>1. DownloadInit => DownloadInv
  BY InitHolds
<1>2. DownloadInv /\ [DownloadNext]_downloadVars => DownloadInv'
  BY DownloadStep
<1> QED BY <1>1, <1>2, PTL DEF DownloadSpec

\* What the invariant says of the lines, the cap and the open requests.
LEMMA NothingIsMissed == DownloadInv => NoArchiveIsMissed
<1> SUFFICES ASSUME DownloadInv PROVE NoArchiveIsMissed
  OBVIOUS
<1>1. FileGiven /\ DownloadBaseInv /\ LegacyInv /\ V2Inv /\ GivesUpLast
  BY DEF DownloadInv
<1>2. BaseTypeOK
  <2>1. WireOK(wire) /\ DiskOK(store)
    BY <1>1 DEF DownloadBaseInv
  <2>2. store \in [Cids -> {"none", "good", "wrong"}]
    BY <2>1 DEF DiskOK
  <2>3. wire \subseteq [kind : {"manifest", "chunk"}, peer : Archives, idx : 0 .. MaxChunks, off : Nat]
    BY <2>1 DEF WireOK, Requests
  <2> QED BY <1>1, <2>2, <2>3 DEF BaseTypeOK, DownloadBaseInv
<1>3. LegacyTypeOK
  <2>1. discovered \in Seq(Archives) /\ remaining \in Seq(Chunks)
    BY <1>1 DEF LegacyInv
  <2>2. ToSet(discovered) \subseteq Archives /\ ToSet(remaining) \subseteq Chunks
    BY <2>1, LenProperties DEF ToSet
  <2>3. inFlight \subseteq Cids
    BY <1>1, ChunksType DEF LegacyInv, FlyingOK
  <2>4. fetched \in Nat /\ total \in 0 .. size /\ fetched <= total
    BY <1>1 DEF LegacyInv
  <2>5. fetched \in 0 .. total
    BY <1>1, <2>4, ChunksType
  <2> QED BY <2>2, <2>3, <2>4, <2>5 DEF LegacyTypeOK
<1>4. \A c \in Chunks : c \in 1 .. MaxChunks /\ LineOK(order[c], next[c], Ranking[c])
  BY <1>1, ChunksType DEF V2Inv, Lines
<1>5. LineKeepsRank
  <2> SUFFICES ASSUME NEW c \in Chunks
      PROVE /\ ToSet(order[c]) = ToSet(Ranking[c]) /\ Len(order[c]) = Len(Ranking[c])
            /\ \A i, j \in next[c] .. Len(order[c]) :
                 i < j => \E m, n \in DOMAIN Ranking[c] :
                            m < n /\ Ranking[c][m] = order[c][i] /\ Ranking[c][n] = order[c][j]
    BY DEF LineKeepsRank
  <2>1. LineOK(order[c], next[c], Ranking[c])
    BY <1>4
  <2> QED BY <2>1 DEF LineOK
<1>6. CapIsKept
  BY <1>1 DEF CapIsKept, V2Inv, LegacyInv, ChunkCap, StatusOK, FlyingOK
<1>7. AwaitedIsAsked
  BY <1>1 DEF AwaitedIsAsked, V2Inv, Sent
<1>8. OneRequestPerFetch
  <2> SUFFICES ASSUME NEW d \in Cids
               PROVE  Cardinality({r \in wire : r.kind = "chunk" /\ Path = "legacy" /\ cids[r.idx] = d}) <= 1
    BY DEF OneRequestPerFetch
  <2> DEFINE S == {r \in wire : r.kind = "chunk" /\ Path = "legacy" /\ cids[r.idx] = d}
  <2>1. \A r, s \in S : r = s
    BY <1>1 DEF LegacyInv, OnePerCid
  <2> HIDE DEF S
  <2>2. CASE S = {}
    BY <2>2, FS_EmptySet DEF S
  <2>3. CASE S # {}
    <3>1. PICK r \in S : TRUE
      BY <2>3
    <3>2. S = {r}
      BY <2>1, <3>1
    <3>3. Cardinality(S) = 1
      BY <3>2, FS_Singleton
    <3> QED BY <3>3 DEF S
  <2> QED BY <2>2, <2>3
<1>9. V2TypeOK
  <2>1. status \in [Archives -> {"none", "untried", "dispatched", "failed"}] /\ skip \in BOOLEAN
    BY <1>1 DEF V2Inv, StatusOK
  <2>2. flight \in [1 .. MaxChunks -> Archives \cup {None}] /\ got \in [1 .. MaxChunks -> {"none", "good"}]
    BY <1>1 DEF V2Inv, Pinned
  <2>3. got \in [1 .. MaxChunks -> {"none", "good", "wrong"}]
    BY <2>2
  <2>4. \A c \in 1 .. MaxChunks : next[c] \in 1 .. Len(Ranking[c]) + 1
    <3> TAKE c \in 1 .. MaxChunks
    <3>1. LineOK(order[c], next[c], Ranking[c])
      BY <1>1 DEF V2Inv, Lines
    <3> QED BY <3>1 DEF LineOK
  <2> QED BY <2>1, <2>2, <2>3, <2>4 DEF V2TypeOK
<1> QED BY <1>1, <1>2, <1>3, <1>5, <1>6, <1>7, <1>8, <1>9 DEF NoArchiveIsMissed, DownloadTypeOK

\* On every path of download_route.rs: a chunk is given up only when every
\* archive assigned to it refused, the line keeps the chain's ranking, no cap
\* is exceeded, what is awaited was asked and a V1 fetch has one request.
THEOREM ArchivesGetTheirTurn == DownloadSpec => []NoArchiveIsMissed
  BY DownloadInvariant, NothingIsMissed, PTL

\* A download that reports success wrote the file's own bytes, whatever the
\* peers sent, also on the V1 path, which ends by counting completed fetches
\* although equal chunks share one.
THEOREM OutputIsGenuine == DownloadSpec => []OutputIsTheFile
<1>1. DownloadInv => OutputIsTheFile
  BY DEF DownloadInv
<1> QED BY <1>1, DownloadInvariant, PTL
=============================================================================
