-------------------------- MODULE ArchiveStoreProofs --------------------------
(***************************************************************************)
(* Proofs about ArchiveStore, for any files, positions, handlers, sharing  *)
(* of chunks between files and grace period, with kills or with power      *)
(* losses.  IInv is inductive; the properties follow from it.  The second  *)
(* half is about Sidecar, one of the store's record files, for any records *)
(* and damage; SidecarIInv is inductive.                                   *)
(***************************************************************************)
EXTENDS ArchiveStore, Sidecar, TLAPS, FiniteSetTheorems

\* The records that the next loss cannot take: the lines of the files if the
\* process is killed, the synced ones if power is lost.
Persistent == IF fault = "kill" THEN lines ELSE durable

\* What accept_validated records before the held record of p.
Preceding(p) ==
    {GcRec(CidOf[p]), ProofRec(p)} \cup (IF RootOf[p] \in Private THEN {MapRec(p)} ELSE {})

\* A node that is down remembers nothing; after a power loss, what is left of
\* the files is durable.
DownIsEmpty ==
    ~up => /\ known = {} /\ held = {} /\ tracked = {} /\ ~gcIntact /\ writer = None
           /\ fault = "power" => durable = lines
           /\ pc = [h \in Handlers |-> "idle"] /\ manifest = [r \in Roots |-> "absent"]

\* What is in memory is persistent; the first start comes before any record.
KnownIsPersistent ==
    known \subseteq Persistent /\ (~gcInit => lines = {}) /\ (up => gcInit)

\* A held record is in its file, even unsynced, only behind what precedes it.
HeldIsPreceded ==
    \A p \in Positions : HeldRec(p) \in lines => Preceding(p) \subseteq Persistent

\* What each handler has achieved at each of its steps.
PushIsBacked ==
    \A h \in Handlers :
        /\ pc[h] \in {"put", "map", "proof", "held"} => GcRec(CidOf[pos[h]]) \in known
        /\ pc[h] \in {"map", "proof", "held"} => CidOf[pos[h]] \in chunks \ unsettled
        /\ pc[h] \in {"proof", "held"} /\ RootOf[pos[h]] \in Private
              => MapRec(pos[h]) \in known
        /\ pc[h] = "held" => ProofRec(pos[h]) \in known

\* An acknowledged position has its records and its chunk where no loss takes
\* them, and a running node knows it.
AckedIsPersistent ==
    \A p \in acked :
        /\ HeldRec(p) \in Persistent
        /\ CidOf[p] \in chunks \ unsettled
        /\ up => p \in held /\ HeldRec(p) \in known

\* A position is in the tracker because of its record or of a Public manifest.
HeldHasReason ==
    \A p \in held : HeldRec(p) \in known \/ PublicManifest(RootOf[p])

\* A Public manifest that is indexed or acknowledged is whole in its file.
ManifestsAreWhole ==
    \A r \in Roots \ Private :
        /\ manifest[r] # "absent" => manifest[r] = "whole" /\ mfile[r] = "whole"
        /\ r \in mAcked => mfile[r] = "whole" /\ (up => manifest[r] = "whole")

\* A chunk's age in the collector is no more than its time out of use.
AgeIsCalm == tracked \subseteq chunks /\ \A c \in tracked : age[c] <= calm[c]

IInv ==
    /\ TypeOK /\ DownIsEmpty /\ KnownIsPersistent /\ HeldIsPreceded /\ HeldIsComplete
    /\ PushIsBacked /\ AckedIsPersistent /\ HeldHasReason /\ HeldIsOnDisk
    /\ ManifestsAreWhole /\ AgeIsCalm

-------------------------------------------------------------------------------
(* Records *)

\* Records of different kinds, and held records of different positions, differ.
LEMMA RecordsDiffer ==
  /\ \A p \in Positions, q \in Positions : HeldRec(p) = HeldRec(q) => p = q
  /\ \A p, q \in Positions : HeldRec(p) # ProofRec(q) /\ HeldRec(p) # MapRec(q)
  /\ \A p \in Positions, c \in CIDs : HeldRec(p) # GcRec(c)
  BY DEF HeldRec, ProofRec, MapRec, GcRec

\* The records of the positions of pushes are records.
LEMMA RecordsTyped ==
  /\ \A c \in CIDs : GcRec(c) \in Records
  /\ \A p \in Positions : /\ GcRec(CidOf[p]) \in Records /\ MapRec(p) \in Records
                          /\ ProofRec(p) \in Records /\ HeldRec(p) \in Records
  BY ArchiveAssumption DEF Records

\* An append that returned Ok has made its record known and persistent, whether
\* it wrote the record or knew it already, and has taken nothing away.
LEMMA AppendOkPersists ==
  ASSUME TypeOK, KnownIsPersistent, UNCHANGED fault, NEW x, AppendOk(x)
  PROVE  /\ known' = known \cup {x} /\ lines' = lines \cup {x}
         /\ durable' \subseteq lines'
         /\ Persistent \subseteq Persistent' /\ known' \subseteq Persistent'
<1>1. CASE x \in known
  BY <1>1 DEF AppendOk, TypeOK, KnownIsPersistent, Persistent
<1>2. CASE x \notin known
  <2>1. durable' = Synced(x) /\ lines' = lines \cup {x} /\ known' = known \cup {x}
    BY <1>2 DEF AppendOk
  <2>2. durable \subseteq durable' /\ x \in durable' /\ durable' \subseteq lines'
    BY <2>1 DEF Synced, TypeOK
  <2> QED
    BY <2>1, <2>2 DEF TypeOK, KnownIsPersistent, Persistent
<1> QED
  BY <1>1, <1>2

\* A failed append takes nothing away.
LEMMA AppendFailedKeeps ==
  ASSUME TypeOK, UNCHANGED fault, NEW x, AppendFailed(x)
  PROVE  /\ known' = known /\ durable' = durable
         /\ lines \subseteq lines' /\ lines' \subseteq lines \cup {x}
         /\ Persistent \subseteq Persistent'
  BY DEF AppendFailed, Persistent

\* Whatever is under way when the node goes down is a record, and a held record
\* only behind the others.
LEMMA WritingIsPreceded ==
  ASSUME TypeOK, KnownIsPersistent, PushIsBacked, NEW h \in Handlers,
         pc[h] \in {"exempt", "map", "proof", "held"}
  PROVE  /\ Writing(h) \in Records
         /\ \A p \in Positions : HeldRec(p) = Writing(h)
                => Preceding(p) \subseteq Persistent
<1> USE ArchiveAssumption
<1>1. pos[h] \in Positions /\ CidOf[pos[h]] \in CIDs
  BY DEF TypeOK
<1>2. Writing(h) \in Records
  BY <1>1, RecordsTyped DEF Writing
<1>3. ASSUME NEW p \in Positions, HeldRec(p) = Writing(h)
      PROVE  Preceding(p) \subseteq Persistent
  <2>1. Writing(h) = HeldRec(pos[h]) /\ pc[h] = "held"
    BY <1>1, <1>3, RecordsDiffer DEF Writing
  <2>2. p = pos[h]
    BY <1>1, <1>3, <2>1, RecordsDiffer
  <2>3. Preceding(p) \subseteq known
    BY <2>1, <2>2 DEF PushIsBacked, Preceding
  <2> QED
    BY <2>3 DEF KnownIsPersistent
<1> QED
  BY <1>2, <1>3

\* The append that a loss interrupts.
LEMMA MidAppendIsPreceded ==
  ASSUME TypeOK, KnownIsPersistent, PushIsBacked, NEW x \in MidAppend
  PROVE  /\ x \subseteq Records
         /\ \A p \in Positions : HeldRec(p) \in x => Preceding(p) \subseteq Persistent
<1>1. CASE x = {}
  BY <1>1
<1>2. CASE x # {}
  <2>1. PICK h \in Handlers : /\ x = {Writing(h)}
                            /\ pc[h] \in {"exempt", "map", "proof", "held"}
    BY <1>2 DEF MidAppend
  <2> QED
    BY <2>1, WritingIsPreceded
<1> QED
  BY <1>1, <1>2

\* A put, whatever its outcome, takes no chunk away and unsettles none that was
\* there.
LEMMA PutKeepsChunks ==
  ASSUME NEW c, Stored(c) \/ NotStored(c)
  PROVE  chunks \subseteq chunks' /\ chunks \ unsettled \subseteq chunks' \ unsettled'
  BY DEF Stored, NotStored, Arrive

\* Every step preserves the invariant.
LEMMA StepPreserves == IInv /\ [Next]_vars => IInv'
<1> SUFFICES ASSUME IInv, [Next]_vars, UNCHANGED fault PROVE IInv'
  BY DEF Next, vars
<1> USE ArchiveAssumption DEF disk, push, sync, gc, hist
<1>1. ASSUME Open PROVE IInv'
  <2>1. /\ lines \subseteq lines' /\ durable \subseteq durable' /\ durable' \subseteq lines'
        /\ lines' \subseteq Records /\ known' \subseteq lines'
        /\ known' \subseteq Persistent'
    <3>1. CASE gcInit
      BY <1>1, <3>1 DEF Open, IInv, TypeOK, DownIsEmpty, Persistent
    <3>2. CASE ~gcInit
      BY <1>1, <3>2, RecordsTyped DEF Open, IInv, TypeOK, KnownIsPersistent, Persistent
    <3> QED
      BY <3>1, <3>2
  <2>2. \A p \in Positions : HeldRec(p) \in lines' => HeldRec(p) \in lines /\ gcInit
    BY <1>1, RecordsDiffer DEF Open, IInv, TypeOK, KnownIsPersistent
  <2>3. \A x \in lines : (x[1] = "gc" => gcIntact') => x \in known'
    BY <1>1 DEF Open, IInv, KnownIsPersistent
  <2>4. /\ \A p \in Positions :
              HeldRec(p)[1] # "gc" /\ ProofRec(p)[1] # "gc" /\ MapRec(p)[1] # "gc"
        /\ Persistent \subseteq lines
    BY DEF HeldRec, ProofRec, MapRec, IInv, TypeOK, Persistent
  <2>5. TypeOK'
    BY <1>1, <2>1 DEF IInv, Open, HeldFromDisk, LoadManifest, TypeOK, ManifestFile
  <2>6. DownIsEmpty' /\ KnownIsPersistent'
    BY <1>1, <2>1 DEF IInv, Open, DownIsEmpty, KnownIsPersistent
  <2>7. HeldIsPreceded'
    BY <1>1, <2>1, <2>2 DEF IInv, Open, HeldIsPreceded, Persistent
  <2>8. HeldIsComplete'
    BY <1>1, <2>1, <2>2, <2>3, <2>4
       DEF IInv, HeldIsPreceded, HeldIsComplete, RecordsOf, Preceding
  <2>9. PushIsBacked'
    BY <1>1 DEF IInv, Open, push, DownIsEmpty, PushIsBacked
  <2>10. AckedIsPersistent'
    BY <1>1, <2>1, <2>3, <2>4
       DEF IInv, TypeOK, Open, HeldFromDisk, AckedIsPersistent, Persistent
  <2>11. HeldHasReason' /\ HeldIsOnDisk'
    BY <1>1 DEF IInv, Open, HeldFromDisk, HeldHasReason, HeldIsOnDisk, PublicManifest
  <2>12. ManifestsAreWhole' /\ AgeIsCalm'
    BY <1>1 DEF IInv, TypeOK, Open, LoadManifest, ManifestFile, ManifestsAreWhole, AgeIsCalm
  <2> QED
    BY <2>5, <2>6, <2>7, <2>8, <2>9, <2>10, <2>11, <2>12 DEF IInv
<1>2. ASSUME NEW h \in Handlers, NEW p \in Pushable, BeginPush(h, p) PROVE IInv'
  <2>1. TypeOK'
    BY <1>2 DEF IInv, BeginPush, TypeOK, HandlerSteps, ManifestFile, Snapshots, Records
  <2>2. DownIsEmpty' /\ KnownIsPersistent' /\ HeldIsPreceded' /\ HeldIsComplete'
    BY <1>2
       DEF IInv, BeginPush, DownIsEmpty, KnownIsPersistent, HeldIsPreceded, Preceding,
           HeldIsComplete, RecordsOf, TypeOK, Persistent
  <2>3. PushIsBacked' /\ AckedIsPersistent'
    BY <1>2 DEF IInv, BeginPush, PushIsBacked, AckedIsPersistent, TypeOK, Persistent
  <2>4. HeldHasReason' /\ HeldIsOnDisk'
    BY <1>2 DEF IInv, BeginPush, HeldHasReason, HeldIsOnDisk, TypeOK, PublicManifest
  <2>5. ManifestsAreWhole' /\ AgeIsCalm'
    BY <1>2 DEF IInv, BeginPush, ManifestsAreWhole, AgeIsCalm, TypeOK
  <2> QED
    BY <2>1, <2>2, <2>3, <2>4, <2>5 DEF IInv
<1>3. ASSUME NEW h \in Handlers, Exempt(h) PROVE IInv'
  <2> DEFINE x == GcRec(CidOf[pos[h]])
  <2>1. /\ known' = known \cup {x} /\ lines' = lines \cup {x} /\ durable' \subseteq lines'
        /\ Persistent \subseteq Persistent' /\ known' \subseteq Persistent'
    BY <1>3, AppendOkPersists DEF Exempt, IInv
  <2>2. pos[h] \in Positions /\ CidOf[pos[h]] \in CIDs /\ x \in Records
    BY RecordsTyped DEF IInv, TypeOK
  <2> HIDE DEF x
  <2>3. TypeOK'
    BY <1>3, <2>1, <2>2, RecordsDiffer
       DEF x, IInv, Exempt, Unlocked, TypeOK, HandlerSteps, ManifestFile, Snapshots, Records
  <2>4. DownIsEmpty' /\ KnownIsPersistent'
    BY <1>3, <2>1 DEF x, IInv, Exempt, Unlocked, DownIsEmpty, KnownIsPersistent, TypeOK
  <2>5. HeldIsPreceded' /\ HeldIsComplete'
    BY <1>3, <2>1, <2>2, RecordsDiffer
       DEF x, IInv, Exempt, Unlocked, HeldIsPreceded, Preceding, HeldIsComplete, RecordsOf,
           TypeOK, PushIsBacked, KnownIsPersistent
  <2>6. PushIsBacked' /\ AckedIsPersistent'
    BY <1>3, <2>1, <2>2, RecordsDiffer
       DEF x, IInv, Exempt, Unlocked, PushIsBacked, AckedIsPersistent, TypeOK, RecordsOf,
           Preceding, KnownIsPersistent
  <2>7. HeldHasReason' /\ HeldIsOnDisk'
    BY <1>3, <2>1, <2>2, RecordsDiffer
       DEF x, IInv, Exempt, Unlocked, HeldHasReason, HeldIsOnDisk, TypeOK, RecordsOf,
           Preceding, PushIsBacked, KnownIsPersistent, PublicManifest
  <2>8. ManifestsAreWhole' /\ AgeIsCalm'
    BY <1>3, <2>1, <2>2, RecordsDiffer
       DEF x, IInv, Exempt, Unlocked, ManifestsAreWhole, AgeIsCalm, TypeOK
  <2> QED
    BY <2>3, <2>4, <2>5, <2>6, <2>7, <2>8 DEF IInv
<1>4. ASSUME NEW h \in Handlers, ExemptFails(h) PROVE IInv'
  <2>1. known' = known /\ durable' = durable /\ lines \subseteq lines'
    BY <1>4, AppendFailedKeeps DEF ExemptFails, IInv
  <2>2. CidOf[pos[h]] \in CIDs /\ lines' \subseteq lines \cup {GcRec(CidOf[pos[h]])}
    BY <1>4, AppendFailedKeeps DEF ExemptFails, IInv, TypeOK
  <2>3. /\ lines' \subseteq Records
        /\ \A p \in Positions : HeldRec(p) \in lines' => HeldRec(p) \in lines
    BY <2>2, RecordsTyped, RecordsDiffer DEF IInv, TypeOK
  <2>4. TypeOK'
    BY <1>4, <2>1, <2>3 DEF IInv, ExemptFails, TypeOK, HandlerSteps, Unlocked
  <2>5. DownIsEmpty' /\ KnownIsPersistent' /\ HeldIsPreceded' /\ HeldIsComplete'
    BY <1>4, <2>1, <2>3
       DEF IInv, TypeOK, ExemptFails, Unlocked, DownIsEmpty, KnownIsPersistent,
           HeldIsPreceded, HeldIsComplete, Persistent
  <2>6. PushIsBacked' /\ AckedIsPersistent'
    BY <1>4, <2>1 DEF IInv, TypeOK, ExemptFails, PushIsBacked, AckedIsPersistent, Persistent
  <2>7. HeldHasReason' /\ HeldIsOnDisk' /\ ManifestsAreWhole' /\ AgeIsCalm'
    BY <1>4, <2>1
       DEF IInv, ExemptFails, HeldHasReason, HeldIsOnDisk, ManifestsAreWhole, AgeIsCalm,
           PublicManifest
  <2> QED
    BY <2>4, <2>5, <2>6, <2>7 DEF IInv
<1>5. ASSUME NEW h \in Handlers, PutOk(h) PROVE IInv'
  <2>1. chunks \subseteq chunks' /\ chunks \ unsettled \subseteq chunks' \ unsettled'
    BY <1>5, PutKeepsChunks DEF PutOk
  <2>2. TypeOK'
    BY <1>5 DEF IInv, PutOk, TypeOK, HandlerSteps, Stored, NotStored, Arrive
  <2>3. DownIsEmpty' /\ KnownIsPersistent' /\ HeldIsPreceded' /\ HeldIsComplete'
    BY <1>5
       DEF IInv, PutOk, Unlocked, DownIsEmpty, KnownIsPersistent, HeldIsPreceded,
           HeldIsComplete, Persistent
  <2>4. PushIsBacked' /\ AckedIsPersistent'
    BY <1>5, <2>1
       DEF IInv, PutOk, TypeOK, PushIsBacked, AckedIsPersistent, Persistent, Stored, Arrive
  <2>5. HeldHasReason' /\ HeldIsOnDisk' /\ ManifestsAreWhole'
    BY <1>5, <2>1
       DEF IInv, PutOk, HeldHasReason, HeldIsOnDisk, ManifestsAreWhole, PublicManifest
  <2>6. AgeIsCalm'
    BY <1>5 DEF IInv, TypeOK, PutOk, AgeIsCalm, Stored, NotStored, Arrive
  <2> QED
    BY <2>2, <2>3, <2>4, <2>5, <2>6 DEF IInv
<1>6. ASSUME NEW h \in Handlers, PutFails(h) PROVE IInv'
  <2>1. chunks \subseteq chunks' /\ chunks \ unsettled \subseteq chunks' \ unsettled'
    BY <1>6, PutKeepsChunks DEF PutFails
  <2>2. TypeOK'
    BY <1>6 DEF IInv, PutFails, TypeOK, HandlerSteps, Stored, NotStored, Arrive
  <2>3. DownIsEmpty' /\ KnownIsPersistent' /\ HeldIsPreceded' /\ HeldIsComplete'
    BY <1>6
       DEF IInv, PutFails, Unlocked, DownIsEmpty, KnownIsPersistent, HeldIsPreceded,
           HeldIsComplete, Persistent
  <2>4. PushIsBacked' /\ AckedIsPersistent'
    BY <1>6, <2>1 DEF IInv, PutFails, TypeOK, PushIsBacked, AckedIsPersistent, Persistent
  <2>5. HeldHasReason' /\ HeldIsOnDisk' /\ ManifestsAreWhole'
    BY <1>6, <2>1
       DEF IInv, PutFails, HeldHasReason, HeldIsOnDisk, ManifestsAreWhole, PublicManifest
  <2>6. AgeIsCalm'
    BY <1>6 DEF IInv, TypeOK, PutFails, AgeIsCalm, Stored, NotStored, Arrive
  <2> QED
    BY <2>2, <2>3, <2>4, <2>5, <2>6 DEF IInv
<1>7. ASSUME NEW h \in Handlers, RecordMap(h) PROVE IInv'
  <2> DEFINE x == MapRec(pos[h])
  <2>1. /\ known' = known \cup {x} /\ lines' = lines \cup {x} /\ durable' \subseteq lines'
        /\ Persistent \subseteq Persistent' /\ known' \subseteq Persistent'
    BY <1>7, AppendOkPersists DEF RecordMap, IInv
  <2>2. pos[h] \in Positions /\ CidOf[pos[h]] \in CIDs /\ x \in Records
    BY RecordsTyped DEF IInv, TypeOK
  <2> HIDE DEF x
  <2>3. TypeOK'
    BY <1>7, <2>1, <2>2, RecordsDiffer
       DEF x, IInv, RecordMap, Unlocked, TypeOK, HandlerSteps, ManifestFile, Snapshots,
           Records
  <2>4. DownIsEmpty' /\ KnownIsPersistent'
    BY <1>7, <2>1 DEF x, IInv, RecordMap, Unlocked, DownIsEmpty, KnownIsPersistent, TypeOK
  <2>5. HeldIsPreceded' /\ HeldIsComplete'
    BY <1>7, <2>1, <2>2, RecordsDiffer
       DEF x, IInv, RecordMap, Unlocked, HeldIsPreceded, Preceding, HeldIsComplete,
           RecordsOf, TypeOK, PushIsBacked, KnownIsPersistent
  <2>6. PushIsBacked' /\ AckedIsPersistent'
    BY <1>7, <2>1, <2>2, RecordsDiffer
       DEF x, IInv, RecordMap, Unlocked, PushIsBacked, AckedIsPersistent, TypeOK, RecordsOf,
           Preceding, KnownIsPersistent
  <2>7. HeldHasReason' /\ HeldIsOnDisk'
    BY <1>7, <2>1, <2>2, RecordsDiffer
       DEF x, IInv, RecordMap, Unlocked, HeldHasReason, HeldIsOnDisk, TypeOK, RecordsOf,
           Preceding, PushIsBacked, KnownIsPersistent, PublicManifest
  <2>8. ManifestsAreWhole' /\ AgeIsCalm'
    BY <1>7, <2>1, <2>2, RecordsDiffer
       DEF x, IInv, RecordMap, Unlocked, ManifestsAreWhole, AgeIsCalm, TypeOK
  <2> QED
    BY <2>3, <2>4, <2>5, <2>6, <2>7, <2>8 DEF IInv
<1>8. ASSUME NEW h \in Handlers, RecordProof(h) PROVE IInv'
  <2> DEFINE x == ProofRec(pos[h])
  <2>1. /\ known' = known \cup {x} /\ lines' = lines \cup {x} /\ durable' \subseteq lines'
        /\ Persistent \subseteq Persistent' /\ known' \subseteq Persistent'
    BY <1>8, AppendOkPersists DEF RecordProof, IInv
  <2>2. pos[h] \in Positions /\ CidOf[pos[h]] \in CIDs /\ x \in Records
    BY RecordsTyped DEF IInv, TypeOK
  <2> HIDE DEF x
  <2>3. TypeOK'
    BY <1>8, <2>1, <2>2, RecordsDiffer
       DEF x, IInv, RecordProof, TypeOK, HandlerSteps, ManifestFile, Snapshots, Records
  <2>4. DownIsEmpty' /\ KnownIsPersistent'
    BY <1>8, <2>1 DEF x, IInv, RecordProof, DownIsEmpty, KnownIsPersistent, TypeOK
  <2>5. HeldIsPreceded' /\ HeldIsComplete'
    BY <1>8, <2>1, <2>2, RecordsDiffer
       DEF x, IInv, RecordProof, HeldIsPreceded, Preceding, HeldIsComplete, RecordsOf,
           TypeOK, PushIsBacked, KnownIsPersistent
  <2>6. PushIsBacked' /\ AckedIsPersistent'
    BY <1>8, <2>1, <2>2, RecordsDiffer
       DEF x, IInv, RecordProof, PushIsBacked, AckedIsPersistent, TypeOK, RecordsOf,
           Preceding, KnownIsPersistent
  <2>7. HeldHasReason' /\ HeldIsOnDisk'
    BY <1>8, <2>1, <2>2, RecordsDiffer
       DEF x, IInv, RecordProof, HeldHasReason, HeldIsOnDisk, TypeOK, RecordsOf, Preceding,
           PushIsBacked, KnownIsPersistent, PublicManifest
  <2>8. ManifestsAreWhole' /\ AgeIsCalm'
    BY <1>8, <2>1, <2>2, RecordsDiffer
       DEF x, IInv, RecordProof, ManifestsAreWhole, AgeIsCalm, TypeOK
  <2> QED
    BY <2>3, <2>4, <2>5, <2>6, <2>7, <2>8 DEF IInv
<1>9. ASSUME NEW h \in Handlers, RecordHeld(h) PROVE IInv'
  <2> DEFINE x == HeldRec(pos[h])
  <2>1. /\ known' = known \cup {x} /\ lines' = lines \cup {x} /\ durable' \subseteq lines'
        /\ Persistent \subseteq Persistent' /\ known' \subseteq Persistent'
    BY <1>9, AppendOkPersists DEF RecordHeld, IInv
  <2>2. pos[h] \in Positions /\ CidOf[pos[h]] \in CIDs /\ x \in Records
    BY RecordsTyped DEF IInv, TypeOK
  <2> HIDE DEF x
  <2>3. TypeOK'
    BY <1>9, <2>1, <2>2, RecordsDiffer
       DEF x, IInv, RecordHeld, TypeOK, HandlerSteps, ManifestFile, Snapshots, Records
  <2>4. DownIsEmpty' /\ KnownIsPersistent'
    BY <1>9, <2>1 DEF x, IInv, RecordHeld, DownIsEmpty, KnownIsPersistent, TypeOK
  <2>5. HeldIsPreceded' /\ HeldIsComplete'
    BY <1>9, <2>1, <2>2, RecordsDiffer
       DEF x, IInv, RecordHeld, HeldIsPreceded, Preceding, HeldIsComplete, RecordsOf,
           TypeOK, PushIsBacked, KnownIsPersistent
  <2>6. PushIsBacked' /\ AckedIsPersistent'
    BY <1>9, <2>1, <2>2, RecordsDiffer
       DEF x, IInv, RecordHeld, PushIsBacked, AckedIsPersistent, TypeOK, RecordsOf,
           Preceding, KnownIsPersistent
  <2>7. HeldHasReason' /\ HeldIsOnDisk'
    BY <1>9, <2>1, <2>2, RecordsDiffer
       DEF x, IInv, RecordHeld, HeldHasReason, HeldIsOnDisk, TypeOK, RecordsOf, Preceding,
           PushIsBacked, KnownIsPersistent, PublicManifest
  <2>8. ManifestsAreWhole' /\ AgeIsCalm'
    BY <1>9, <2>1, <2>2, RecordsDiffer
       DEF x, IInv, RecordHeld, ManifestsAreWhole, AgeIsCalm, TypeOK
  <2> QED
    BY <2>3, <2>4, <2>5, <2>6, <2>7, <2>8 DEF IInv
<1>10. ASSUME NEW h \in Handlers, RecordFails(h) PROVE IInv'
  <2>1. /\ known' = known /\ durable' = durable /\ lines \subseteq lines'
        /\ lines' \subseteq lines \cup {Writing(h)}
    BY <1>10, AppendFailedKeeps DEF RecordFails, IInv
  <2>2. /\ lines' \subseteq Records
        /\ \A p \in Positions : HeldRec(p) \in lines' => Preceding(p) \subseteq Persistent
    BY <1>10, <2>1, WritingIsPreceded DEF RecordFails, IInv, TypeOK, HeldIsPreceded
  <2>3. TypeOK'
    BY <1>10, <2>1, <2>2 DEF IInv, RecordFails, TypeOK, HandlerSteps
  <2>4. DownIsEmpty' /\ KnownIsPersistent' /\ HeldIsPreceded' /\ HeldIsComplete'
    BY <1>10, <2>1, <2>2
       DEF IInv, TypeOK, RecordFails, DownIsEmpty, KnownIsPersistent, HeldIsPreceded,
           HeldIsComplete, Persistent
  <2>5. PushIsBacked' /\ AckedIsPersistent'
    BY <1>10, <2>1
       DEF IInv, TypeOK, RecordFails, PushIsBacked, AckedIsPersistent, Persistent
  <2>6. HeldHasReason' /\ HeldIsOnDisk' /\ ManifestsAreWhole' /\ AgeIsCalm'
    BY <1>10, <2>1
       DEF IInv, RecordFails, HeldHasReason, HeldIsOnDisk, ManifestsAreWhole, AgeIsCalm,
           PublicManifest
  <2> QED
    BY <2>3, <2>4, <2>5, <2>6 DEF IInv
<1>11. ASSUME NEW r \in Roots, ManifestPush(r) PROVE IInv'
  <2>1. TypeOK'
    BY <1>11
       DEF IInv, ManifestPush, Unlocked, TypeOK, HandlerSteps, ManifestFile, Snapshots,
           Records
  <2>2. DownIsEmpty' /\ KnownIsPersistent' /\ HeldIsPreceded' /\ HeldIsComplete'
    BY <1>11
       DEF IInv, ManifestPush, Unlocked, DownIsEmpty, KnownIsPersistent, HeldIsPreceded,
           Preceding, HeldIsComplete, RecordsOf, TypeOK, Persistent
  <2>3. PushIsBacked' /\ AckedIsPersistent'
    BY <1>11
       DEF IInv, ManifestPush, Unlocked, PushIsBacked, AckedIsPersistent, TypeOK, Persistent
  <2>4. HeldHasReason' /\ HeldIsOnDisk'
    BY <1>11
       DEF IInv, ManifestPush, Unlocked, HeldHasReason, HeldIsOnDisk, TypeOK, PublicManifest
  <2>5. ManifestsAreWhole' /\ AgeIsCalm'
    BY <1>11 DEF IInv, ManifestPush, Unlocked, ManifestsAreWhole, AgeIsCalm, TypeOK
  <2> QED
    BY <2>1, <2>2, <2>3, <2>4, <2>5 DEF IInv
<1>12. ASSUME NEW r \in Roots, ManifestPushFails(r) PROVE IInv'
  <2>1. TypeOK'
    BY <1>12
       DEF IInv, ManifestPushFails, Unlocked, TypeOK, HandlerSteps, ManifestFile, Snapshots,
           Records
  <2>2. DownIsEmpty' /\ KnownIsPersistent' /\ HeldIsPreceded' /\ HeldIsComplete'
    BY <1>12
       DEF IInv, ManifestPushFails, Unlocked, DownIsEmpty, KnownIsPersistent,
           HeldIsPreceded, Preceding, HeldIsComplete, RecordsOf, TypeOK, Persistent
  <2>3. PushIsBacked' /\ AckedIsPersistent'
    BY <1>12
       DEF IInv, ManifestPushFails, Unlocked, PushIsBacked, AckedIsPersistent, TypeOK,
           Persistent
  <2>4. HeldHasReason' /\ HeldIsOnDisk'
    BY <1>12
       DEF IInv, ManifestPushFails, Unlocked, HeldHasReason, HeldIsOnDisk, TypeOK,
           PublicManifest
  <2>5. ManifestsAreWhole' /\ AgeIsCalm'
    BY <1>12 DEF IInv, ManifestPushFails, Unlocked, ManifestsAreWhole, AgeIsCalm, TypeOK
  <2> QED
    BY <2>1, <2>2, <2>3, <2>4, <2>5 DEF IInv
<1>13. ASSUME SyncBegin PROVE IInv'
  <2>1. TypeOK'
    BY <1>13 DEF IInv, SyncBegin, TypeOK, HandlerSteps, ManifestFile, Snapshots, Records
  <2>2. DownIsEmpty' /\ KnownIsPersistent' /\ HeldIsPreceded' /\ HeldIsComplete'
    BY <1>13
       DEF IInv, SyncBegin, DownIsEmpty, KnownIsPersistent, HeldIsPreceded, Preceding,
           HeldIsComplete, RecordsOf, TypeOK, Persistent
  <2>3. PushIsBacked' /\ AckedIsPersistent'
    BY <1>13 DEF IInv, SyncBegin, PushIsBacked, AckedIsPersistent, TypeOK, Persistent
  <2>4. HeldHasReason' /\ HeldIsOnDisk'
    BY <1>13 DEF IInv, SyncBegin, HeldHasReason, HeldIsOnDisk, TypeOK, PublicManifest
  <2>5. ManifestsAreWhole' /\ AgeIsCalm'
    BY <1>13 DEF IInv, SyncBegin, ManifestsAreWhole, AgeIsCalm, TypeOK
  <2> QED
    BY <2>1, <2>2, <2>3, <2>4, <2>5 DEF IInv
<1>14. ASSUME Sweep PROVE IInv'
  <2>1. PICK failed \in SUBSET Expired :
          /\ chunks' = chunks \ (Expired \ failed)
          /\ unsettled' = unsettled \cup (Expired \ failed)
          /\ tracked' = ((tracked \cup chunks) \cap Candidates) \ (Expired \ failed)
    BY <1>14 DEF Sweep
  <2>2. \A c \in Expired :
          /\ c \in CIDs /\ gcIntact /\ GcRec(c) \notin known
          /\ \A p \in Positions : PublicManifest(RootOf[p]) /\ RootOf[p] \notin Fundable
                 => CidOf[p] # c
    BY <1>14 DEF Sweep, Expired, Candidates, IInv, TypeOK, Snapshots
  <2>3. /\ chunks' \subseteq chunks /\ tracked' \subseteq chunks' \cap Candidates
        /\ \A c \in CIDs : GcRec(c) \in known /\ c \in chunks
               => c \in chunks' /\ (c \in unsettled' => c \in unsettled)
    BY <2>1, <2>2 DEF IInv, AgeIsCalm
  <2>4. TypeOK'
    BY <1>14, <2>1, <2>2, <2>3 DEF IInv, Sweep, TypeOK, AgeNow
  <2>5. DownIsEmpty' /\ KnownIsPersistent' /\ HeldIsPreceded' /\ HeldIsComplete'
    BY <1>14
       DEF IInv, Sweep, Unlocked, DownIsEmpty, KnownIsPersistent, HeldIsPreceded,
           HeldIsComplete, Persistent
  <2>6. PushIsBacked'
    BY <1>14, <2>3 DEF IInv, TypeOK, Sweep, PushIsBacked
  <2>7. AckedIsPersistent'
    BY <1>14, <2>1, <2>2
       DEF IInv, TypeOK, Sweep, Unlocked, AckedIsPersistent, HeldIsComplete, Persistent
  <2>8. HeldHasReason' /\ HeldIsOnDisk'
    BY <1>14, <2>1, <2>2
       DEF IInv, TypeOK, Sweep, HeldHasReason, HeldIsOnDisk, HeldIsComplete, PublicManifest
  <2>9. ManifestsAreWhole'
    BY <1>14 DEF IInv, Sweep, ManifestsAreWhole
  <2>10. AgeIsCalm'
    BY <1>14, <2>3 DEF IInv, TypeOK, Sweep, AgeIsCalm, AgeNow
  <2> QED
    BY <2>4, <2>5, <2>6, <2>7, <2>8, <2>9, <2>10 DEF IInv
<1>15. ASSUME SweepSkipped PROVE IInv'
  <2>1. TypeOK'
    BY <1>15
       DEF IInv, SweepSkipped, Unlocked, TypeOK, HandlerSteps, ManifestFile, Snapshots,
           Records
  <2>2. DownIsEmpty' /\ KnownIsPersistent' /\ HeldIsPreceded' /\ HeldIsComplete'
    BY <1>15
       DEF IInv, SweepSkipped, Unlocked, DownIsEmpty, KnownIsPersistent, HeldIsPreceded,
           Preceding, HeldIsComplete, RecordsOf, TypeOK, Persistent
  <2>3. PushIsBacked' /\ AckedIsPersistent'
    BY <1>15
       DEF IInv, SweepSkipped, Unlocked, PushIsBacked, AckedIsPersistent, TypeOK, Persistent
  <2>4. HeldHasReason' /\ HeldIsOnDisk'
    BY <1>15
       DEF IInv, SweepSkipped, Unlocked, HeldHasReason, HeldIsOnDisk, TypeOK, PublicManifest
  <2>5. ManifestsAreWhole' /\ AgeIsCalm'
    BY <1>15 DEF IInv, SweepSkipped, Unlocked, ManifestsAreWhole, AgeIsCalm, TypeOK
  <2> QED
    BY <2>1, <2>2, <2>3, <2>4, <2>5 DEF IInv
<1>16. ASSUME NEW p \in Positions, SyncFetch(p) PROVE IInv'
  <2>1. TypeOK'
    BY <1>16
       DEF IInv, SyncFetch, Unlocked, TypeOK, HandlerSteps, ManifestFile, Snapshots, Records
  <2>2. DownIsEmpty' /\ KnownIsPersistent' /\ HeldIsPreceded' /\ HeldIsComplete'
    BY <1>16
       DEF IInv, SyncFetch, Unlocked, DownIsEmpty, KnownIsPersistent, HeldIsPreceded,
           Preceding, HeldIsComplete, RecordsOf, TypeOK, Persistent
  <2>3. PushIsBacked' /\ AckedIsPersistent'
    BY <1>16
       DEF IInv, SyncFetch, Unlocked, PushIsBacked, AckedIsPersistent, TypeOK, Persistent
  <2>4. HeldHasReason' /\ HeldIsOnDisk'
    BY <1>16
       DEF IInv, SyncFetch, Unlocked, HeldHasReason, HeldIsOnDisk, TypeOK, PublicManifest
  <2>5. ManifestsAreWhole' /\ AgeIsCalm'
    BY <1>16 DEF IInv, SyncFetch, Unlocked, ManifestsAreWhole, AgeIsCalm, TypeOK
  <2> QED
    BY <2>1, <2>2, <2>3, <2>4, <2>5 DEF IInv
<1>17. ASSUME NEW c \in CIDs, FetchEnds(c) PROVE IInv'
  <2>1. chunks \subseteq chunks' /\ chunks \ unsettled \subseteq chunks' \ unsettled'
    BY <1>17, PutKeepsChunks DEF FetchEnds
  <2>2. TypeOK'
    BY <1>17 DEF IInv, FetchEnds, TypeOK, HandlerSteps, Stored, NotStored, Arrive
  <2>3. DownIsEmpty' /\ KnownIsPersistent' /\ HeldIsPreceded' /\ HeldIsComplete'
    BY <1>17
       DEF IInv, FetchEnds, Unlocked, DownIsEmpty, KnownIsPersistent, HeldIsPreceded,
           HeldIsComplete, Persistent
  <2>4. PushIsBacked' /\ AckedIsPersistent'
    BY <1>17, <2>1 DEF IInv, FetchEnds, TypeOK, PushIsBacked, AckedIsPersistent, Persistent
  <2>5. HeldHasReason' /\ HeldIsOnDisk' /\ ManifestsAreWhole'
    BY <1>17, <2>1
       DEF IInv, FetchEnds, HeldHasReason, HeldIsOnDisk, ManifestsAreWhole, PublicManifest
  <2>6. AgeIsCalm'
    BY <1>17 DEF IInv, TypeOK, FetchEnds, AgeIsCalm, Stored, NotStored, Arrive
  <2> QED
    BY <2>2, <2>3, <2>4, <2>5, <2>6 DEF IInv
<1>18. ASSUME Tick PROVE IInv'
  <2>1. TypeOK'
    BY <1>18 DEF IInv, Tick, Next1, TypeOK, HandlerSteps, ManifestFile, Snapshots, Records
  <2>2. DownIsEmpty' /\ KnownIsPersistent' /\ HeldIsPreceded' /\ HeldIsComplete'
    BY <1>18
       DEF IInv, Tick, Next1, DownIsEmpty, KnownIsPersistent, HeldIsPreceded, Preceding,
           HeldIsComplete, RecordsOf, TypeOK, Persistent
  <2>3. PushIsBacked' /\ AckedIsPersistent'
    BY <1>18 DEF IInv, Tick, Next1, PushIsBacked, AckedIsPersistent, TypeOK, Persistent
  <2>4. HeldHasReason' /\ HeldIsOnDisk'
    BY <1>18 DEF IInv, Tick, Next1, HeldHasReason, HeldIsOnDisk, TypeOK, PublicManifest
  <2>5. ManifestsAreWhole' /\ AgeIsCalm'
    BY <1>18 DEF IInv, Tick, Next1, ManifestsAreWhole, AgeIsCalm, TypeOK
  <2> QED
    BY <2>1, <2>2, <2>3, <2>4, <2>5 DEF IInv
<1>19. ASSUME Kill PROVE IInv'
  <2>1. PICK x \in MidAppend : lines' = lines \cup x
    BY <1>19 DEF Kill
  <2>2. Persistent = lines /\ Persistent' = lines' /\ durable' = durable
    BY <1>19 DEF Kill, Persistent
  <2>3. /\ lines' \subseteq Records
        /\ \A p \in Positions : HeldRec(p) \in lines' => Preceding(p) \subseteq Persistent
    BY <2>1, MidAppendIsPreceded DEF IInv, TypeOK, HeldIsPreceded
  <2>4. /\ chunks \subseteq chunks' /\ chunks \ unsettled \subseteq chunks' \ unsettled'
        /\ chunks' \subseteq CIDs /\ unsettled' \subseteq CIDs
    BY <1>19 DEF Kill, MidPut, IInv, TypeOK
  <2>5. Persistent \subseteq Persistent' /\ durable' \subseteq lines' /\ mAcked' = mAcked
    BY <1>19, <2>1, <2>2 DEF Kill, IInv, TypeOK
  <2>6. mfile' \in [Roots -> ManifestFile]
    BY <1>19 DEF Kill, MidWrite, IInv, TypeOK, ManifestFile
  <2>7. TypeOK'
    <3>1. /\ known' = {} /\ held' = {} /\ tracked' = {} /\ fetching' = {} /\ writer' = None
          /\ snap' = None
      BY <1>19 DEF Kill, LoseMemory
    <3>2. /\ age' \in [CIDs -> 0..Grace] /\ calm' \in [CIDs -> 0..Grace]
          /\ pc' \in [Handlers -> HandlerSteps] /\ manifest' \in [Roots -> ManifestFile]
      BY <1>19 DEF Kill, LoseMemory, HandlerSteps, ManifestFile
    <3>3. /\ up' \in BOOLEAN /\ gcIntact' \in BOOLEAN /\ gcInit' = gcInit /\ pos' = pos
          /\ acked' = acked
      BY <1>19 DEF Kill, LoseMemory
    <3> QED
      BY <2>3, <2>4, <2>5, <2>6, <3>1, <3>2, <3>3 DEF IInv, TypeOK
  <2>8. DownIsEmpty' /\ KnownIsPersistent'
    BY <1>19, <2>2 DEF IInv, Kill, LoseMemory, DownIsEmpty, KnownIsPersistent
  <2>9. HeldIsPreceded' /\ HeldIsComplete'
    BY <1>19, <2>3, <2>5 DEF Kill, LoseMemory, HeldIsPreceded, HeldIsComplete
  <2>10. PushIsBacked' /\ AckedIsPersistent'
    BY <1>19, <2>4, <2>5 DEF IInv, Kill, LoseMemory, PushIsBacked, AckedIsPersistent
  <2>11. HeldHasReason' /\ HeldIsOnDisk' /\ AgeIsCalm'
    BY <1>19 DEF Kill, LoseMemory, HeldHasReason, HeldIsOnDisk, AgeIsCalm
  <2>12. ManifestsAreWhole'
    BY <1>19, <2>5 DEF IInv, TypeOK, Kill, LoseMemory, MidWrite, ManifestsAreWhole
  <2> QED
    BY <2>7, <2>8, <2>9, <2>10, <2>11, <2>12 DEF IInv
<1>20. ASSUME PowerLoss PROVE IInv'
  <2>1. PICK x \in MidAppend : durable \subseteq lines' /\ lines' \subseteq lines \cup x
    BY <1>20 DEF PowerLoss, IInv, TypeOK
  <2>2. Persistent = durable /\ Persistent' = lines' /\ durable' = lines'
    BY <1>20 DEF PowerLoss, Persistent
  <2>3. /\ lines' \subseteq Records
        /\ \A p \in Positions : HeldRec(p) \in lines' => Preceding(p) \subseteq Persistent
    BY <2>1, MidAppendIsPreceded DEF IInv, TypeOK, HeldIsPreceded
  <2>4. /\ chunks \ unsettled \subseteq chunks' \ unsettled'
        /\ chunks' \subseteq CIDs /\ unsettled' \subseteq CIDs
    BY <1>20 DEF PowerLoss, MidPut, IInv, TypeOK
  <2>5. Persistent \subseteq Persistent' /\ durable' \subseteq lines' /\ mAcked' = {}
    BY <1>20, <2>1, <2>2 DEF PowerLoss
  <2>6. mfile' \in [Roots -> ManifestFile]
    BY <1>20 DEF PowerLoss
  <2>7. TypeOK'
    <3>1. /\ known' = {} /\ held' = {} /\ tracked' = {} /\ fetching' = {} /\ writer' = None
          /\ snap' = None
      BY <1>20 DEF PowerLoss, LoseMemory
    <3>2. /\ age' \in [CIDs -> 0..Grace] /\ calm' \in [CIDs -> 0..Grace]
          /\ pc' \in [Handlers -> HandlerSteps] /\ manifest' \in [Roots -> ManifestFile]
      BY <1>20 DEF PowerLoss, LoseMemory, HandlerSteps, ManifestFile
    <3>3. /\ up' \in BOOLEAN /\ gcIntact' \in BOOLEAN /\ gcInit' = gcInit /\ pos' = pos
          /\ acked' = acked
      BY <1>20 DEF PowerLoss, LoseMemory
    <3> QED
      BY <2>3, <2>4, <2>5, <2>6, <3>1, <3>2, <3>3 DEF IInv, TypeOK
  <2>8. DownIsEmpty' /\ KnownIsPersistent'
    BY <1>20, <2>2 DEF IInv, PowerLoss, LoseMemory, DownIsEmpty, KnownIsPersistent
  <2>9. HeldIsPreceded' /\ HeldIsComplete'
    BY <1>20, <2>3, <2>5 DEF PowerLoss, LoseMemory, HeldIsPreceded, HeldIsComplete
  <2>10. PushIsBacked' /\ AckedIsPersistent'
    BY <1>20, <2>4, <2>5 DEF IInv, PowerLoss, LoseMemory, PushIsBacked, AckedIsPersistent
  <2>11. HeldHasReason' /\ HeldIsOnDisk' /\ AgeIsCalm'
    BY <1>20 DEF PowerLoss, LoseMemory, HeldHasReason, HeldIsOnDisk, AgeIsCalm
  <2>12. ManifestsAreWhole'
    BY <1>20, <2>5 DEF IInv, TypeOK, PowerLoss, LoseMemory, MidWrite, ManifestsAreWhole
  <2> QED
    BY <2>7, <2>8, <2>9, <2>10, <2>11, <2>12 DEF IInv
<1>21. CASE UNCHANGED vars
  BY <1>21
     DEF vars, IInv, TypeOK, DownIsEmpty, KnownIsPersistent, HeldIsPreceded, HeldIsComplete,
         PushIsBacked, AckedIsPersistent, HeldHasReason, HeldIsOnDisk, ManifestsAreWhole,
         AgeIsCalm, RecordsOf, PublicManifest, Persistent
<1> QED
  BY <1>1, <1>2, <1>3, <1>4, <1>5, <1>6, <1>7, <1>8, <1>9, <1>10, <1>11, <1>12, <1>13,
     <1>14, <1>15, <1>16, <1>17, <1>18, <1>19, <1>20, <1>21 DEF Next

\* The initial states satisfy the invariant.
LEMMA InitEstablishes == Init => IInv
<1> SUFFICES ASSUME Init PROVE IInv
  OBVIOUS
<1> USE ArchiveAssumption DEF Init
<1>1. TypeOK
  <2>1. /\ mfile \in [Roots -> ManifestFile] /\ manifest \in [Roots -> ManifestFile]
        /\ pc \in [Handlers -> HandlerSteps]
        /\ age \in [CIDs -> 0..Grace] /\ calm \in [CIDs -> 0..Grace]
    BY DEF HandlerSteps, ManifestFile
  <2> QED
    BY <2>1 DEF TypeOK
<1>2. DownIsEmpty /\ KnownIsPersistent /\ PushIsBacked
  BY DEF DownIsEmpty, KnownIsPersistent, PushIsBacked, Persistent
<1>3. HeldIsPreceded /\ HeldIsComplete
  BY DEF HeldIsPreceded, HeldIsComplete
<1>4. AckedIsPersistent /\ HeldHasReason /\ HeldIsOnDisk /\ ManifestsAreWhole /\ AgeIsCalm
  BY DEF AckedIsPersistent, HeldHasReason, HeldIsOnDisk, ManifestsAreWhole, AgeIsCalm
<1> QED
  BY <1>1, <1>2, <1>3, <1>4 DEF IInv

\* The inductive invariant holds in every reachable state.
LEMMA InvariantHolds == Spec => []IInv
<1>1. Init => IInv
  BY InitEstablishes
<1>2. IInv /\ [Next]_vars => IInv'
  BY StepPreserves
<1> QED
  BY <1>1, <1>2, PTL DEF Spec

-------------------------------------------------------------------------------
(* What is proved *)

\* An acknowledged push is never forgotten and its chunk never deleted, whatever
\* V1 files share its chunks or its root and however often the node goes down.
THEOREM AckedSurvive == Spec => []AckedSurvives
<1>1. IInv => AckedSurvives
  BY ArchiveAssumption DEF IInv, TypeOK, AckedIsPersistent, HeldIsComplete, AckedSurvives
<1> QED
  BY <1>1, InvariantHolds, PTL

\* The held tracker names only chunks on disk, each recorded one with all its
\* records, and every variable keeps its type.
THEOREM HeldBacked == Spec => []HeldIsBacked
<1>1. IInv => HeldIsBacked
  BY DEF IInv, HeldIsBacked
<1> QED
  BY <1>1, InvariantHolds, PTL

\* An acknowledged Public manifest is whole whenever the node runs, until power
\* is lost.
THEOREM ManifestKept == Spec => []PublicManifestKept
<1>1. IInv => PublicManifestKept
  BY DEF IInv, TypeOK, ManifestsAreWhole, PublicManifestKept
<1> QED
  BY <1>1, InvariantHolds, PTL

\* Only the sweep deletes a chunk of a running node, and only what has been seen
\* out of use for the whole grace period.
LEMMA StepRespectsGrace ==
  ASSUME IInv, [Next]_vars, up, up', NEW c \in chunks \ chunks'
  PROVE  calm[c] = Grace
<1> USE ArchiveAssumption
<1>1. Sweep
  BY PutKeepsChunks
     DEF Next, vars, disk, Open, BeginPush, Exempt, ExemptFails, PutOk, PutFails, RecordMap,
         RecordProof, RecordHeld, RecordFails, ManifestPush, ManifestPushFails, SyncBegin,
         SweepSkipped, SyncFetch, FetchEnds, Tick, Kill, PowerLoss, LoseMemory
<1>2. c \in Expired /\ c \in CIDs
  BY <1>1 DEF Sweep, IInv, TypeOK
<1>3. AgeNow(c) >= Grace
  BY <1>2 DEF Expired
<1>4. CASE c \in tracked
  BY <1>2, <1>3, <1>4 DEF AgeNow, IInv, TypeOK, AgeIsCalm
<1>5. CASE c \notin tracked
  BY <1>2, <1>3, <1>5 DEF AgeNow, IInv, TypeOK
<1> QED
  BY <1>4, <1>5

\* Garbage collection respects the grace period of every chunk.
THEOREM GraceHolds == Spec => GraceRespected
<1>1. IInv /\ [Next]_vars
        => [(up /\ up') => \A c \in chunks \ chunks' : calm[c] = Grace]_vars
  BY StepRespectsGrace
<1> QED
  BY <1>1, InvariantHolds, PTL DEF Spec, GraceRespected

(***************************************************************************)
(* Sidecar: a record file, for any records, damage and number of lines.    *)
(***************************************************************************)

Seeding   == {"seed", "seedSync", "seedMark"}
Appending == {"open", "entry", "cut", "write", "sync"}

\* The records of a file, and those among its first n lines.
RecordsIn(c) == ToSet(LinesOf(c))
First(c, n)  == {LinesOf(c)[i] : i \in 1 .. n}

\* Where a record may come from.
Source ==
    Appended \cup (IF kind = "gc" THEN Legacy ELSE {})
      \cup (IF damage \in Damaged THEN ToSet(damage.lines) ELSE {})

\* The file is well formed, and no line is of unknown origin.
FileOK ==
    /\ crash \in {"kill", "power"} /\ entry \in BOOLEAN /\ trusted \in BOOLEAN
    /\ stuck \in BOOLEAN
    /\ list \in Contents \cup {NoList} /\ prior \in Contents \cup {NoList}
    /\ safe \in 0 .. Len(LinesOf(list))
    /\ RecordsIn(list) \subseteq Source /\ RecordsIn(prior) \subseteq Source

\* r is there whatever a kill or a power loss leaves of the file.
Survives(r) ==
    /\ r \in RecordsIn(list)
    /\ crash = "power" => /\ r \in First(list, safe)
                          /\ ~entry => r \in RecordsIn(prior)

\* What is in memory, and what was recorded, survives; unless it is contested.
RecordsSurvive ==
    /\ \A r \in loaded : Survives(r)
    /\ recorded \subseteq Appended
    /\ \A r \in recorded : Survives(r) \/ Contested(r)
    /\ health = "ok" => \A r \in recorded : r \in loaded \/ Contested(r)

\* No line of c has r's index and another record.
Agrees(r, c) == \A q \in RecordsIn(c) \ {Bad} : q[1] = r[1] => q = r

\* While every load of a keyed file could mend it, the file does not contradict
\* what was recorded, and its lines are in memory or the node's own.
KeysAgree ==
    kind = "keyed" /\ ~stuck =>
        /\ \A r \in loaded \cup recorded :
              Agrees(r, list) /\ (crash = "power" /\ ~entry => Agrees(r, prior))
        /\ step \in Appending \cup {"idle"} =>
              RecordsIn(list) \ {Bad} \subseteq loaded \cup Appended
        /\ step \in Appending => \A q \in loaded : q[1] # rec[1]

\* What holds at each step.
StageOK ==
    /\ step \in {"down", "idle"} \cup Seeding \cup Appending
    /\ step = "down" => /\ loaded = {} /\ health = "none" /\ ~trusted
                        /\ crash = "power" => entry /\ safe = Len(LinesOf(list))
    /\ step \in Seeding => /\ kind = "gc" /\ damage = NoList
                           /\ loaded = {} /\ recorded = {} /\ health = "none"
    /\ step = "seed" => list = NoList /\ marker = "absent"
    /\ step \in {"seedSync", "seedMark"} => list # NoList /\ ~list.torn
    /\ step = "seedSync" => marker = "absent" /\ prior = NoList
    /\ step = "seedMark" => entry
    /\ step \in Appending => rec \in Appended
    /\ step \in {"open", "entry", "cut"} => kind # "gc"
    /\ step \in {"entry", "cut", "write", "sync"} => list # NoList
    /\ step \in {"write", "sync"} => ~list.torn /\ (kind = "gc" => health = "ok")
    /\ step \in {"cut", "write", "sync"} /\ kind # "gc" => entry
    /\ step = "sync" => rec \in RecordsIn(list)
    /\ trusted => entry /\ list # NoList

\* The GC list begins with the chunks of the first start, and the marker never
\* precedes it.
GcOK ==
    kind = "gc" =>
        /\ damage = NoList /\ list # NoList =>
              /\ Legacy \subseteq RecordsIn(list)
              /\ crash = "power" => Legacy \subseteq First(list, safe)
        /\ damage # NoList => marker = "synced"
        /\ list = NoList /\ marker # "absent" => damage = Lost
        /\ crash = "power" /\ ~entry => marker = "absent" /\ prior = NoList
        /\ health = "ok" => /\ list # NoList /\ ~list.torn
                            /\ crash = "power" => entry
        /\ health = "ok" /\ damage = NoList => Legacy \subseteq loaded

SidecarIInv ==
    /\ FileOK /\ RecordsSurvive /\ KeysAgree /\ StageOK /\ GcOK /\ BrokenByDamageOnly

-----------------------------------------------------------------------------
(* Lines and records. *)

\* A file has its lines; there is none without a file.
LEMMA FileFacts ==
  /\ LinesOf(NoList) = << >> /\ RecordsIn(NoList) = {}
  /\ \A c \in Contents :
        /\ c # NoList /\ LinesOf(c) = c.lines /\ c.lines \in Seq(AnyLine) /\ c.torn \in BOOLEAN
        /\ Len(c.lines) \in Nat /\ First(c, Len(c.lines)) = RecordsIn(c)
  /\ \A s \in Seq(AnyLine), b \in BOOLEAN : Content(s, b) \in Contents
<1>1. LinesOf(NoList) = << >> /\ RecordsIn(NoList) = {}
  BY DEF LinesOf, RecordsIn, ToSet
<1>2. ASSUME NEW c \in Contents
      PROVE  /\ c # NoList /\ LinesOf(c) = c.lines /\ c.lines \in Seq(AnyLine)
             /\ c.torn \in BOOLEAN
  BY SidecarAssumption DEF LinesOf, Contents
<1>3. ASSUME NEW c \in Contents
      PROVE  Len(c.lines) \in Nat /\ First(c, Len(c.lines)) = RecordsIn(c)
  BY <1>2 DEF First, RecordsIn, ToSet
<1>4. \A s \in Seq(AnyLine), b \in BOOLEAN : Content(s, b) \in Contents
  BY DEF Content, Contents
<1> QED BY <1>1, <1>2, <1>3, <1>4

\* No file and an empty file have no records.
LEMMA EmptyFacts ==
  /\ LinesOf(NoList) = << >> /\ RecordsIn(NoList) = {} /\ Len(LinesOf(NoList)) = 0
  /\ Content(<< >>, FALSE) \in Contents /\ Content(<< >>, FALSE) # NoList
  /\ LinesOf(Content(<< >>, FALSE)) = << >> /\ RecordsIn(Content(<< >>, FALSE)) = {}
<1>1. << >> \in Seq(AnyLine) /\ Len(<< >>) = 0 /\ DOMAIN << >> = {}
  OBVIOUS
<1>2. Content(<< >>, FALSE) \in Contents /\ Content(<< >>, FALSE).lines = << >>
  BY <1>1 DEF Content, Contents
<1>3. LinesOf(Content(<< >>, FALSE)) = << >> /\ Content(<< >>, FALSE) # NoList
  BY <1>2, FileFacts
<1> QED BY <1>1, <1>2, <1>3, FileFacts DEF RecordsIn, ToSet

\* A fragment is no line.
LEMMA TornFacts ==
  ASSUME NEW c \in Contents, NEW b \in BOOLEAN
  PROVE  /\ [c EXCEPT !.torn = b] \in Contents
         /\ [c EXCEPT !.torn = b].torn = b
         /\ LinesOf([c EXCEPT !.torn = b]) = LinesOf(c)
         /\ RecordsIn([c EXCEPT !.torn = b]) = RecordsIn(c)
         /\ \A n : First([c EXCEPT !.torn = b], n) = First(c, n)
<1>1. /\ [c EXCEPT !.torn = b] \in Contents /\ [c EXCEPT !.torn = b].torn = b
      /\ [c EXCEPT !.torn = b].lines = c.lines
  BY DEF Contents
<1>2. LinesOf([c EXCEPT !.torn = b]) = LinesOf(c)
  BY <1>1, FileFacts
<1> QED BY <1>1, <1>2 DEF RecordsIn, First

\* What an append adds.
LEMMA AppendFacts ==
  ASSUME NEW c \in Contents, NEW x \in AnyLine
  PROVE  LET new == Content(Append(c.lines, x), FALSE) IN
         /\ new \in Contents /\ ~new.torn
         /\ RecordsIn(new) = RecordsIn(c) \cup {x}
         /\ Len(LinesOf(new)) = Len(LinesOf(c)) + 1
         /\ \A n \in 0 .. Len(LinesOf(c)) : First(new, n) = First(c, n)
<1> DEFINE s == c.lines
           new == Content(Append(s, x), FALSE)
<1>1. s \in Seq(AnyLine) /\ LinesOf(c) = s
  BY FileFacts
<1>2. Append(s, x) \in Seq(AnyLine) /\ Len(Append(s, x)) = Len(s) + 1 /\ Len(s) \in Nat
  BY <1>1
<1>3. new \in Contents /\ ~new.torn /\ LinesOf(new) = Append(s, x)
  BY <1>2, FileFacts DEF Content
<1>4. /\ \A i \in 1 .. Len(s) : Append(s, x)[i] = s[i]
      /\ Append(s, x)[Len(s) + 1] = x
      /\ DOMAIN Append(s, x) = 1 .. Len(s) + 1 /\ DOMAIN s = 1 .. Len(s)
  BY <1>1
<1>5. RecordsIn(new) = RecordsIn(c) \cup {x}
  <2>1. ToSet(Append(s, x)) = ToSet(s) \cup {x}
    BY <1>2, <1>4 DEF ToSet
  <2> QED BY <1>1, <1>3, <2>1 DEF RecordsIn
<1>6. ASSUME NEW n \in 0 .. Len(s) PROVE First(new, n) = First(c, n)
  <2>1. \A i \in 1 .. n : Append(s, x)[i] = s[i]
    BY <1>2, <1>4
  <2> QED BY <1>1, <1>3, <2>1 DEF First
<1> QED BY <1>1, <1>2, <1>3, <1>5, <1>6

\* What is left of a file when its last lines are gone.
LEMMA RemainsFacts ==
  ASSUME NEW c \in Contents, NEW n \in 0 .. Len(LinesOf(c)), NEW d \in Remains(c, n)
  PROVE  /\ d \in Contents
         /\ First(c, n) \subseteq RecordsIn(d) /\ RecordsIn(d) \subseteq RecordsIn(c)
<1> DEFINE s == c.lines
<1>1. s \in Seq(AnyLine) /\ LinesOf(c) = s /\ Len(s) \in Nat
  BY FileFacts
<1>2. PICK m \in n .. Len(s), t \in BOOLEAN : d = Content(SubSeq(s, 1, m), t)
  BY DEF Remains
<1>3. m \in Nat /\ m <= Len(s) /\ n <= m /\ n \in Nat
  BY <1>1
<1>4. /\ SubSeq(s, 1, m) \in Seq(AnyLine) /\ Len(SubSeq(s, 1, m)) = m
      /\ \A i \in 1 .. m : SubSeq(s, 1, m)[i] = s[i]
  BY <1>1, <1>3
<1>5. d \in Contents /\ LinesOf(d) = SubSeq(s, 1, m)
  BY <1>2, <1>4, FileFacts DEF Content
<1>6. DOMAIN SubSeq(s, 1, m) = 1 .. m /\ DOMAIN s = 1 .. Len(s)
  BY <1>1, <1>4
<1>7. RecordsIn(d) = {s[i] : i \in 1 .. m}
  BY <1>4, <1>5, <1>6 DEF RecordsIn, ToSet
<1>8. RecordsIn(c) = {s[i] : i \in 1 .. Len(s)}
  BY <1>1, <1>6 DEF RecordsIn, ToSet
<1> QED BY <1>1, <1>3, <1>5, <1>7, <1>8 DEF First

\* The lines of a file are finitely many.
LEMMA RecordsFinite ==
  ASSUME NEW c \in Contents \cup {NoList}
  PROVE  IsFiniteSet(RecordsIn(c))
<1> DEFINE s == LinesOf(c)
<1>1. s \in Seq(AnyLine)
  <2>1. << >> \in Seq(AnyLine)
    OBVIOUS
  <2>2. c = NoList \/ c \in Contents
    OBVIOUS
  <2> QED BY <2>1, <2>2, FileFacts
<1>2. Len(s) \in Nat /\ DOMAIN s = 1 .. Len(s) /\ s \in [1 .. Len(s) -> ToSet(s)]
  BY <1>1 DEF ToSet
<1>3. s \in Surjection(1 .. Len(s), ToSet(s))
  BY <1>2 DEF Surjection, ToSet
<1>4. IsFiniteSet(1 .. Len(s))
  BY <1>2, FS_Interval
<1> QED BY <1>3, <1>4, FS_Surjection DEF RecordsIn

\* The sequence made of a finite set has its elements.
LEMMA SetToSeqFacts ==
  ASSUME NEW S \in SUBSET AnyLine, IsFiniteSet(S)
  PROVE  /\ SetToSeq(S) \in Seq(AnyLine)
         /\ RecordsIn(Content(SetToSeq(S), FALSE)) = S
<1> DEFINE n == Cardinality(S)
           f == SetToSeq(S)
<1>1. n \in Nat /\ ExistsBijection(1 .. n, S)
  BY FS_CardinalityType
<1>2. PICK g : g \in Bijection(1 .. n, S)
  BY <1>1 DEF ExistsBijection
<1>3. g \in [1 .. n -> S] /\ IsInjective(g)
  BY <1>2 DEF Bijection, Injection, IsInjective
<1>4. f \in [1 .. n -> S] /\ IsInjective(f)
  BY <1>3 DEF SetToSeq
<1>5. f \in Injection(1 .. n, S)
  BY <1>4 DEF IsInjective, Injection
<1>6. IsFiniteSet(1 .. n) /\ Cardinality(1 .. n) = n
  BY <1>1, FS_Interval
<1>7. f \in Surjection(1 .. n, S)
  BY <1>5, <1>6, FS_Injection
<1>8. f \in Seq(AnyLine) /\ DOMAIN f = 1 .. n
  BY <1>1, <1>4
<1>9. ToSet(f) = S
  BY <1>4, <1>7, <1>8 DEF Surjection, ToSet
<1>10. Content(f, FALSE) \in Contents /\ Content(f, FALSE).lines = f
  BY <1>8, FileFacts DEF Content
<1> QED BY <1>8, <1>9, <1>10, FileFacts DEF RecordsIn

-----------------------------------------------------------------------------
(* What steps have in common. *)

\* A file that keeps its records, and its synced ones, lets them survive.
LEMMA SurvivesKept ==
  ASSUME UNCHANGED crash, RecordsIn(list) \subseteq RecordsIn(list)',
         First(list, safe) \subseteq First(list, safe)',
         ~entry' => ~entry /\ prior' = prior
  PROVE  \A r : Survives(r) => Survives(r)'
BY DEF Survives

\* What is contested stays so.
LEMMA ContestedKept ==
  ASSUME UNCHANGED fixed, stuck => stuck'
  PROVE  \A r : Contested(r) => Contested(r)'
BY DEF Contested, fixed

\* The sources are those of the beginning.
LEMMA SourceFacts ==
  ASSUME UNCHANGED fixed
  PROVE  Source' = Source
BY DEF Source, fixed

\* No source has a joined line, and only a damaged file has one that does not parse.
LEMMA SourceParses ==
  /\ Glued \notin Source
  /\ Bad \in Source => damage \in Damaged /\ Bad \in ToSet(damage.lines)
  /\ Source \subseteq AnyLine
BY SidecarAssumption DEF Source, AnyLine

\* A step of the node that leaves the file as it is.
LEMMA FileUntouched ==
  ASSUME FileOK, UNCHANGED <<fixed, list, safe, prior>>,
         entry' \in BOOLEAN, trusted' \in BOOLEAN, stuck' \in BOOLEAN
  PROVE  FileOK'
BY SourceFacts DEF FileOK, fixed, RecordsIn, LinesOf

\* A step that leaves the lines and the memory as they are keeps the keys.
LEMMA KeysKept ==
  ASSUME KeysAgree, UNCHANGED <<fixed, loaded, recorded>>, stuck => stuck',
         RecordsIn(list)' \subseteq RecordsIn(list),
         ~entry' => ~entry /\ prior' = prior,
         step' \in Appending => step \in Appending /\ rec' = rec,
         step' = "idle" => step \in Appending \cup {"idle"}
  PROVE  KeysAgree'
<1> SUFFICES ASSUME kind = "keyed", ~stuck PROVE KeysAgree'
  BY DEF KeysAgree, fixed
<1>1. \A r : Agrees(r, list) => Agrees(r, list)'
  BY DEF Agrees
<1>2. \A r : ~entry' /\ Agrees(r, prior) => Agrees(r, prior)'
  BY DEF Agrees, RecordsIn, LinesOf
<1> QED BY <1>1, <1>2 DEF KeysAgree, fixed

-----------------------------------------------------------------------------
(* The steps. *)

\* The list is seeded: nothing was recorded before.
LEMMA SeedNameStep ==
  ASSUME SidecarIInv, SeedName
  PROVE  SidecarIInv'
<1> DEFINE new == Content(SetToSeq(Legacy), FALSE)
<1>1. /\ step = "seed" /\ list' = new /\ safe' = Len(new.lines) /\ entry' = FALSE
      /\ prior' = list /\ step' = "seedSync"
      /\ UNCHANGED <<fixed, marker, alive, health, loaded, trusted, rec, recorded, stuck>>
  BY DEF SeedName
<1>2. /\ kind = "gc" /\ damage = NoList /\ loaded = {} /\ recorded = {}
      /\ health = "none" /\ list = NoList
      /\ marker = "absent" /\ ~trusted
  BY <1>1 DEF SidecarIInv, StageOK, Seeding
<1>3. new \in Contents /\ RecordsIn(new) = Legacy /\ ~new.torn
  <2>1. Legacy \in SUBSET AnyLine /\ IsFiniteSet(Legacy)
    BY SidecarAssumption DEF AnyLine
  <2> QED BY <2>1, SetToSeqFacts, FileFacts DEF Content
<1> HIDE DEF new
<1>4. First(new, Len(new.lines)) = Legacy /\ LinesOf(new) = new.lines /\ Len(new.lines) \in Nat
      /\ new # NoList
  BY <1>3, FileFacts
<1>5. FileOK'
  <2>1. Legacy \subseteq Source
    BY <1>2 DEF Source
  <2>2. RecordsIn(list)' = Legacy /\ RecordsIn(prior)' = {} /\ LinesOf(list)' = LinesOf(new)
    <3>1. RecordsIn(list)' = RecordsIn(new) /\ LinesOf(list)' = LinesOf(new)
      BY <1>1 DEF RecordsIn, LinesOf
    <3>2. RecordsIn(prior)' = RecordsIn(NoList)
      BY <1>1, <1>2 DEF RecordsIn, LinesOf
    <3> QED BY <1>3, <3>1, <3>2, EmptyFacts
  <2>3. safe' \in 0 .. Len(LinesOf(list)')
    <3>1. safe' = Len(new.lines)
      BY <1>1
    <3> QED BY <1>4, <2>2, <3>1
  <2> QED BY <1>1, <1>2, <1>3, <2>1, <2>2, <2>3, SourceFacts DEF SidecarIInv, FileOK, fixed
<1>6. RecordsSurvive'
  BY <1>1, <1>2 DEF RecordsSurvive
<1>7. KeysAgree'
  BY <1>1, <1>2 DEF KeysAgree, fixed
<1>8. StageOK'
  BY <1>1, <1>2, <1>3, <1>4 DEF StageOK, Seeding, Appending, fixed
<1>9. GcOK'
  <2>1. First(list, safe)' = Legacy /\ RecordsIn(list)' = Legacy
    BY <1>1, <1>3, <1>4 DEF First, RecordsIn, LinesOf
  <2> QED BY <1>1, <1>2, <1>4, <2>1 DEF GcOK, fixed
<1>10. BrokenByDamageOnly'
  BY <1>1, <1>2 DEF BrokenByDamageOnly
<1> QED BY <1>5, <1>6, <1>7, <1>8, <1>9, <1>10 DEF SidecarIInv

\* The list is there before its marker.
LEMMA SeedSyncStep ==
  ASSUME SidecarIInv, SeedSync
  PROVE  SidecarIInv'
<1>1. /\ step = "seedSync" /\ entry' = TRUE /\ marker' = "written" /\ step' = "seedMark"
      /\ UNCHANGED <<fixed, list, safe, prior, alive, health, loaded, trusted, rec, recorded,
                     stuck>>
  BY DEF SeedSync
<1>2. /\ kind = "gc" /\ damage = NoList /\ loaded = {} /\ recorded = {}
      /\ health = "none" /\ list # NoList
      /\ ~list.torn
  BY <1>1 DEF SidecarIInv, StageOK, Seeding
<1>3. FileOK'
  BY <1>1, FileUntouched DEF SidecarIInv, FileOK
<1>4. RecordsSurvive'
  BY <1>1, <1>2 DEF RecordsSurvive
<1>5. KeysAgree'
  BY <1>1, <1>2 DEF KeysAgree, fixed
<1>6. StageOK'
  BY <1>1, <1>2 DEF SidecarIInv, StageOK, Seeding, Appending, fixed
<1>7. GcOK'
  BY <1>1, <1>2 DEF SidecarIInv, GcOK, fixed, First, RecordsIn, LinesOf
<1>8. BrokenByDamageOnly'
  BY <1>1, <1>2 DEF BrokenByDamageOnly
<1> QED BY <1>3, <1>4, <1>5, <1>6, <1>7, <1>8 DEF SidecarIInv

\* The list is in force.
LEMMA SeedMarkStep ==
  ASSUME SidecarIInv, SeedMark
  PROVE  SidecarIInv'
<1>1. /\ step = "seedMark" /\ marker' = "synced" /\ loaded' = Legacy /\ health' = "ok"
      /\ step' = "idle"
      /\ UNCHANGED <<fixed, list, safe, entry, prior, alive, trusted, rec, recorded, stuck>>
  BY DEF SeedMark
<1>2. /\ kind = "gc" /\ damage = NoList /\ recorded = {} /\ list # NoList /\ ~list.torn
      /\ entry
  BY <1>1 DEF SidecarIInv, StageOK, Seeding
<1>3. FileOK'
  BY <1>1, FileUntouched DEF SidecarIInv, FileOK
<1>4. RecordsSurvive'
  <2>1. \A r \in Legacy : Survives(r)
    BY <1>2 DEF SidecarIInv, GcOK, Survives
  <2>2. \A r : Survives(r) => Survives(r)'
    BY <1>1, SurvivesKept DEF RecordsIn, First, LinesOf, fixed
  <2> QED BY <1>1, <1>2, <2>1, <2>2 DEF RecordsSurvive
<1>5. KeysAgree'
  BY <1>1, <1>2 DEF KeysAgree, fixed
<1>6. StageOK'
  BY <1>1, <1>2 DEF SidecarIInv, StageOK, Seeding, Appending, fixed
<1>7. GcOK'
  BY <1>1, <1>2 DEF SidecarIInv, GcOK, fixed, First, RecordsIn, LinesOf
<1>8. BrokenByDamageOnly'
  BY <1>1 DEF BrokenByDamageOnly
<1> QED BY <1>3, <1>4, <1>5, <1>6, <1>7, <1>8 DEF SidecarIInv

\* An append begins, or its record is in memory.
LEMMA RecordStep ==
  ASSUME SidecarIInv, NEW r \in Appended, Record(r)
  PROVE  SidecarIInv'
<1>1. /\ step = "idle"
      /\ UNCHANGED <<fixed, list, safe, entry, prior, marker, alive, health, loaded, trusted,
                     stuck>>
  BY DEF Record
<1>2. \/ /\ r \in loaded /\ recorded' = recorded \cup {r} /\ UNCHANGED <<step, rec>>
      \/ /\ kind = "gc" => health = "ok"
         /\ kind = "keyed" => \A q \in loaded : q[1] # r[1]
         /\ rec' = r /\ step' = (IF kind = "gc" THEN "write" ELSE "open")
         /\ UNCHANGED recorded
  BY DEF Record
<1>3. FileOK'
  BY <1>1, FileUntouched DEF SidecarIInv, FileOK
<1>4. RecordsSurvive'
  <2>1. \A x : Survives(x) => Survives(x)'
    BY <1>1, SurvivesKept DEF RecordsIn, First, LinesOf, fixed
  <2>2. \A x : Contested(x) => Contested(x)'
    BY <1>1, ContestedKept
  <2> QED BY <1>1, <1>2, <2>1, <2>2 DEF SidecarIInv, RecordsSurvive
<1>5. KeysAgree'
  <2>1. \A x : /\ Agrees(x, list)' <=> Agrees(x, list)
               /\ Agrees(x, prior)' <=> Agrees(x, prior)
    BY <1>1 DEF Agrees, RecordsIn, LinesOf
  <2>2. RecordsIn(list)' = RecordsIn(list)
    BY <1>1 DEF RecordsIn, LinesOf
  <2> QED BY <1>1, <1>2, <2>1, <2>2 DEF SidecarIInv, KeysAgree, Appending, fixed
<1>6. StageOK'
  <2>1. kind = "gc" /\ health = "ok" => list # NoList /\ ~list.torn
    BY DEF SidecarIInv, GcOK
  <2> QED BY <1>1, <1>2, <2>1 DEF SidecarIInv, StageOK, Seeding, Appending, fixed
<1>7. GcOK'
  BY <1>1 DEF SidecarIInv, GcOK, fixed, First, RecordsIn, LinesOf
<1>8. BrokenByDamageOnly'
  BY <1>1 DEF SidecarIInv, BrokenByDamageOnly, fixed
<1> QED BY <1>3, <1>4, <1>5, <1>6, <1>7, <1>8 DEF SidecarIInv

\* The sidecar is opened, or an empty one created.
LEMMA OpenStep ==
  ASSUME SidecarIInv, OpenSidecar
  PROVE  SidecarIInv'
<1>1. /\ step = "open" /\ step' = (IF trusted THEN "cut" ELSE "entry")
      /\ UNCHANGED <<fixed, marker, alive, health, loaded, trusted, rec, recorded, stuck>>
  BY DEF OpenSidecar
<1>2. kind # "gc" /\ rec \in Appended
  BY <1>1 DEF SidecarIInv, StageOK, Appending
<1>3. list' # NoList /\ (trusted => entry')
  <2> QED BY EmptyFacts DEF OpenSidecar, SidecarIInv, StageOK
<1>4. StageOK'
  BY <1>1, <1>2, <1>3 DEF SidecarIInv, StageOK, Seeding, Appending, fixed
<1>5. GcOK' /\ BrokenByDamageOnly'
  BY <1>1, <1>2 DEF SidecarIInv, GcOK, BrokenByDamageOnly, fixed
<1>6. CASE list = NoList
  <2>1. list' = Content(<< >>, FALSE) /\ safe' = 0 /\ entry' = FALSE /\ prior' = NoList
    BY <1>6 DEF OpenSidecar
  <2>2. RecordsIn(list) = {} /\ RecordsIn(list)' = {} /\ RecordsIn(prior)' = {}
    BY <1>6, <2>1, EmptyFacts DEF RecordsIn, LinesOf
  <2>3. list' \in Contents /\ LinesOf(list)' = << >> /\ Len(<< >>) = 0
    BY <2>1, EmptyFacts DEF LinesOf
  <2>4. FileOK'
    <3>1. safe' = 0
      BY <2>1
    <3>2. safe' \in 0 .. Len(LinesOf(list)')
      BY <2>3, <3>1
    <3> QED BY <1>1, <2>1, <2>2, <2>3, <3>2 DEF SidecarIInv, FileOK, fixed
  <2>5. \A r : Contested(r) => Contested(r)'
    BY <1>1, ContestedKept
  <2>6. RecordsSurvive'
    BY <1>1, <2>2, <2>5 DEF SidecarIInv, RecordsSurvive, Survives
  <2>7. KeysAgree'
    BY <1>1, <2>2 DEF SidecarIInv, KeysAgree, Agrees, Appending, fixed
  <2> QED BY <1>4, <1>5, <2>4, <2>6, <2>7 DEF SidecarIInv
<1>7. CASE list # NoList
  <2>1. UNCHANGED <<list, safe, entry, prior>>
    BY <1>7 DEF OpenSidecar
  <2>2. RecordsIn(list)' = RecordsIn(list)
    BY <2>1 DEF RecordsIn, LinesOf
  <2>3. FileOK'
    BY <1>1, <2>1, FileUntouched DEF SidecarIInv, FileOK
  <2>4. \A r : (Survives(r) => Survives(r)') /\ (Contested(r) => Contested(r)')
    BY <1>1, <2>1, ContestedKept DEF Survives, RecordsIn, First, LinesOf, fixed
  <2>5. RecordsSurvive'
    BY <1>1, <2>4 DEF SidecarIInv, RecordsSurvive
  <2>6. KeysAgree'
    BY <1>1, <2>1, <2>2, KeysKept DEF SidecarIInv, Appending
  <2> QED BY <1>4, <1>5, <2>3, <2>5, <2>6 DEF SidecarIInv
<1> QED BY <1>6, <1>7

\* The directory entry is synced, or a fragment cut off.
LEMMA PrepareStep ==
  ASSUME SidecarIInv, SyncEntry \/ CutTornTail
  PROVE  SidecarIInv'
<1>1. /\ step \in {"entry", "cut"} /\ step' \in {"cut", "write"}
      /\ UNCHANGED <<fixed, safe, prior, marker, alive, health, loaded, rec, recorded, stuck>>
      /\ entry' = (IF step = "entry" THEN TRUE ELSE entry)
      /\ trusted' = (IF step = "entry" THEN TRUE ELSE trusted)
      /\ list' = (IF step = "entry" THEN list ELSE [list EXCEPT !.torn = FALSE])
      /\ step' = (IF step = "entry" THEN "cut" ELSE "write")
  BY DEF SyncEntry, CutTornTail
<1>2. list \in Contents /\ kind # "gc" /\ rec \in Appended
  BY <1>1 DEF SidecarIInv, StageOK, FileOK, Appending
<1>3. /\ list' \in Contents /\ LinesOf(list)' = LinesOf(list)
      /\ step = "cut" => ~list'.torn
  <2>1. LinesOf(list') = LinesOf(list)
    BY <1>1, <1>2, TornFacts
  <2> QED BY <1>1, <1>2, <2>1, TornFacts DEF LinesOf
<1>4. /\ RecordsIn(list)' = RecordsIn(list) /\ RecordsIn(prior)' = RecordsIn(prior)
      /\ First(list, safe)' = First(list, safe) /\ list' # NoList
  BY <1>1, <1>3, FileFacts DEF RecordsIn, First, LinesOf
<1>5. FileOK'
  BY <1>1, <1>3, <1>4, SourceFacts DEF SidecarIInv, FileOK, fixed
<1>6. \A r : (Survives(r) => Survives(r)') /\ (Contested(r) => Contested(r)')
  BY <1>1, <1>4, ContestedKept, SurvivesKept DEF fixed
<1>7. RecordsSurvive'
  BY <1>1, <1>6 DEF SidecarIInv, RecordsSurvive
<1>8. KeysAgree'
  BY <1>1, <1>4, KeysKept DEF SidecarIInv, Appending
<1>9. StageOK'
  BY <1>1, <1>2, <1>3, <1>4 DEF SidecarIInv, StageOK, Seeding, Appending, fixed
<1>10. GcOK' /\ BrokenByDamageOnly'
  BY <1>1, <1>2 DEF SidecarIInv, GcOK, BrokenByDamageOnly, fixed
<1> QED BY <1>5, <1>7, <1>8, <1>9, <1>10 DEF SidecarIInv

\* The line is written: it contradicts nothing, and is joined to nothing.
LEMMA WriteStep ==
  ASSUME SidecarIInv, WriteLine
  PROVE  SidecarIInv'
<1>1. /\ step = "write" /\ step' = "sync"
      /\ list' = Content(Append(list.lines, IF list.torn THEN Glued ELSE rec), FALSE)
      /\ UNCHANGED <<fixed, safe, entry, prior, marker, alive, health, loaded, trusted, rec,
                     recorded, stuck>>
  BY DEF WriteLine
<1>2. /\ list \in Contents /\ ~list.torn /\ rec \in Appended
      /\ safe \in 0 .. Len(LinesOf(list))
      /\ kind # "gc" => entry
      /\ list # NoList
  BY <1>1 DEF SidecarIInv, StageOK, FileOK, Appending
<1>3. rec \in AnyLine /\ rec \in Source
  BY <1>2 DEF AnyLine, Source
<1>4. /\ list' \in Contents /\ ~list'.torn /\ list' # NoList
      /\ RecordsIn(list)' = RecordsIn(list) \cup {rec}
      /\ safe' \in 0 .. Len(LinesOf(list)') /\ First(list, safe)' = First(list, safe)
  <2> DEFINE new == Content(Append(list.lines, rec), FALSE)
  <2>1. list' = new
    BY <1>1, <1>2
  <2>2. /\ new \in Contents /\ ~new.torn /\ RecordsIn(new) = RecordsIn(list) \cup {rec}
        /\ Len(LinesOf(new)) = Len(LinesOf(list)) + 1
        /\ First(new, safe) = First(list, safe)
    BY <1>2, <1>3, AppendFacts
  <2>3. /\ RecordsIn(list)' = RecordsIn(new) /\ LinesOf(list)' = LinesOf(new)
        /\ First(list, safe)' = First(new, safe)
    BY <1>1, <2>1 DEF RecordsIn, First, LinesOf
  <2> HIDE DEF new
  <2>4. Len(LinesOf(list)) \in Nat
    BY <1>2, FileFacts
  <2>5. list' # NoList
    BY <2>1, <2>2, FileFacts
  <2>6. safe' \in 0 .. Len(LinesOf(list)')
    <3>1. safe' = safe
      BY <1>1
    <3> QED BY <1>2, <2>2, <2>3, <2>4, <3>1
  <2> QED BY <2>1, <2>2, <2>3, <2>5, <2>6
<1>5. FileOK'
  BY <1>1, <1>3, <1>4, SourceFacts DEF SidecarIInv, FileOK, fixed, RecordsIn, LinesOf
<1>6. \A r : (Survives(r) => Survives(r)') /\ (Contested(r) => Contested(r)')
  BY <1>1, <1>4, ContestedKept, SurvivesKept DEF fixed
<1>7. RecordsSurvive'
  BY <1>1, <1>6 DEF SidecarIInv, RecordsSurvive
<1>8. KeysAgree'
  <2> SUFFICES ASSUME kind = "keyed", ~stuck PROVE KeysAgree'
    BY <1>1 DEF KeysAgree, fixed
  <2>1. entry'
    BY <1>1, <1>2
  <2>2. ASSUME NEW r \in loaded \cup recorded PROVE Agrees(r, list)'
    <3>1. Agrees(r, list)
      BY DEF SidecarIInv, KeysAgree
    <3>2. rec[1] = r[1] => rec = r
      BY <1>1, <1>2, SidecarAssumption
        DEF SidecarIInv, KeysAgree, RecordsSurvive, Appending
    <3> QED BY <1>4, <3>1, <3>2 DEF Agrees
  <2> QED BY <1>1, <1>2, <1>4, <2>1, <2>2 DEF SidecarIInv, KeysAgree, Appending, fixed
<1>9. StageOK'
  BY <1>1, <1>2, <1>4 DEF SidecarIInv, StageOK, Seeding, Appending, fixed
<1>10. GcOK'
  BY <1>1, <1>2, <1>4 DEF SidecarIInv, GcOK, fixed
<1>11. BrokenByDamageOnly'
  BY <1>1 DEF SidecarIInv, BrokenByDamageOnly, fixed
<1> QED BY <1>5, <1>7, <1>8, <1>9, <1>10, <1>11 DEF SidecarIInv

\* The record joins what was recorded: it is in the file, synced, and the file's
\* entry is.
LEMMA SyncStep ==
  ASSUME SidecarIInv, SyncLine
  PROVE  SidecarIInv'
<1>1. /\ step = "sync" /\ step' = "idle" /\ safe' = Len(list.lines)
      /\ loaded' = loaded \cup {rec} /\ recorded' = recorded \cup {rec}
      /\ UNCHANGED <<fixed, list, entry, prior, marker, alive, health, trusted, rec, stuck>>
  BY DEF SyncLine
<1>2. /\ list \in Contents /\ list # NoList /\ rec \in RecordsIn(list) /\ rec \in Appended
      /\ ~list.torn /\ safe \in 0 .. Len(LinesOf(list))
      /\ kind # "gc" => entry
      /\ kind = "gc" => health = "ok"
  BY <1>1 DEF SidecarIInv, StageOK, FileOK, Appending
<1>3. crash = "power" => entry
  BY <1>1, <1>2 DEF SidecarIInv, StageOK, GcOK
<1>4. /\ LinesOf(list)' = LinesOf(list) /\ RecordsIn(list)' = RecordsIn(list)
      /\ RecordsIn(prior)' = RecordsIn(prior) /\ LinesOf(list) = list.lines
      /\ safe' = Len(LinesOf(list)) /\ safe' \in Nat
  BY <1>1, <1>2, FileFacts DEF RecordsIn, LinesOf
<1>5. First(list, safe)' = RecordsIn(list)
  <2>1. First(list, safe)' = First(list, Len(list.lines))
    BY <1>1, <1>4 DEF First
  <2> QED BY <1>2, <2>1, FileFacts
<1>6. First(list, safe) \subseteq RecordsIn(list)
  <2>1. DOMAIN list.lines = 1 .. Len(list.lines)
    BY <1>2, FileFacts
  <2> QED BY <1>2, <1>4, <2>1 DEF First, RecordsIn, ToSet
<1>7. FileOK'
  BY <1>1, <1>2, <1>4, SourceFacts DEF SidecarIInv, FileOK, fixed
<1>8. \A r : (Survives(r) => Survives(r)') /\ (Contested(r) => Contested(r)')
  BY <1>1, <1>4, <1>5, <1>6, ContestedKept, SurvivesKept DEF fixed
<1>9. Survives(rec)'
  BY <1>1, <1>2, <1>3, <1>4, <1>5 DEF Survives, fixed
<1>10. RecordsSurvive'
  BY <1>1, <1>2, <1>8, <1>9 DEF SidecarIInv, RecordsSurvive
<1>11. KeysAgree'
  <2> SUFFICES ASSUME kind = "keyed", ~stuck PROVE KeysAgree'
    BY <1>1 DEF KeysAgree, fixed
  <2>1. entry'
    BY <1>1, <1>2
  <2>2. \A q \in RecordsIn(list) \ {Bad} : q \in loaded \cup Appended
    BY <1>1 DEF SidecarIInv, KeysAgree, Appending
  <2>3. \A q \in loaded : q[1] # rec[1]
    BY <1>1 DEF SidecarIInv, KeysAgree, Appending
  <2>4. Agrees(rec, list)
    BY <1>2, <2>2, <2>3, SidecarAssumption DEF Agrees
  <2>5. \A r \in loaded' \cup recorded' : Agrees(r, list)
    BY <1>1, <2>4 DEF SidecarIInv, KeysAgree
  <2>6. \A r \in loaded' \cup recorded' : Agrees(r, list)'
    BY <1>4, <2>5 DEF Agrees
  <2> QED BY <1>1, <1>4, <2>1, <2>2, <2>6 DEF KeysAgree, Appending
<1>12. StageOK'
  BY <1>1, <1>2 DEF SidecarIInv, StageOK, Seeding, Appending
<1>13. GcOK'
  BY <1>1, <1>2, <1>4, <1>5 DEF SidecarIInv, GcOK, fixed
<1>14. BrokenByDamageOnly'
  BY <1>1 DEF SidecarIInv, BrokenByDamageOnly, fixed
<1> QED BY <1>7, <1>10, <1>11, <1>12, <1>13, <1>14 DEF SidecarIInv

\* An append ends in an error.
LEMMA FailStep ==
  ASSUME SidecarIInv, AppendFails
  PROVE  SidecarIInv'
<1>1. /\ step \in Appending /\ step' = "idle"
      /\ health' = (IF kind = "gc" THEN "append" ELSE health)
      /\ list' = list \/ (step = "write" /\ list' = [list EXCEPT !.torn = TRUE])
      /\ UNCHANGED <<fixed, safe, entry, prior, marker, alive, loaded, trusted, rec, recorded,
                     stuck>>
  BY DEF AppendFails, Appending
<1>2. list \in Contents \cup {NoList} /\ (step = "write" => list # NoList)
  BY DEF SidecarIInv, StageOK, FileOK
<1>3. /\ LinesOf(list') = LinesOf(list) /\ list' \in Contents \cup {NoList}
      /\ list' = NoList <=> list = NoList
  <2>1. CASE list' = list
    BY <1>2, <2>1
  <2>2. CASE list \in Contents /\ list' = [list EXCEPT !.torn = TRUE]
    BY <2>2, TornFacts, FileFacts
  <2> QED BY <1>1, <1>2, <2>1, <2>2
<1>4. /\ LinesOf(list)' = LinesOf(list) /\ RecordsIn(list)' = RecordsIn(list)
      /\ RecordsIn(prior)' = RecordsIn(prior) /\ First(list, safe)' = First(list, safe)
  BY <1>1, <1>3 DEF RecordsIn, First, LinesOf
<1>5. FileOK'
  BY <1>1, <1>3, <1>4, SourceFacts DEF SidecarIInv, FileOK, fixed
<1>6. \A r : (Survives(r) => Survives(r)') /\ (Contested(r) => Contested(r)')
  BY <1>1, <1>4, ContestedKept, SurvivesKept DEF fixed
<1>7. RecordsSurvive'
  BY <1>1, <1>6 DEF SidecarIInv, RecordsSurvive
<1>8. KeysAgree'
  BY <1>1, <1>4, KeysKept DEF SidecarIInv, Appending
<1>9. StageOK'
  BY <1>1, <1>3 DEF SidecarIInv, StageOK, Seeding, Appending, fixed
<1>10. GcOK'
  BY <1>1, <1>3, <1>4 DEF SidecarIInv, GcOK, fixed
<1>11. BrokenByDamageOnly'
  BY <1>1 DEF SidecarIInv, BrokenByDamageOnly, fixed
<1> QED BY <1>5, <1>7, <1>8, <1>9, <1>10, <1>11 DEF SidecarIInv

\* The node goes down: what survives is what Survives says.
LEMMA DownStep ==
  ASSUME SidecarIInv, GoesDown
  PROVE  SidecarIInv'
<1>1. /\ health' = "none" /\ loaded' = {} /\ trusted' = FALSE /\ step' = "down"
      /\ UNCHANGED <<fixed, rec, recorded, stuck>>
  BY DEF GoesDown
<1>2. BrokenByDamageOnly'
  BY <1>1 DEF BrokenByDamageOnly
<1>3. \A r : Contested(r) => Contested(r)'
  BY <1>1, ContestedKept
<1>4. /\ list \in Contents \cup {NoList} /\ prior \in Contents \cup {NoList}
      /\ safe \in 0 .. Len(LinesOf(list)) /\ crash \in {"kill", "power"}
      /\ entry \in BOOLEAN
      /\ RecordsIn(list) \subseteq Source /\ RecordsIn(prior) \subseteq Source
  BY DEF SidecarIInv, FileOK
<1>5. CASE crash = "kill"
  <2>1. UNCHANGED <<list, safe, entry, prior, marker>>
    BY <1>5 DEF GoesDown
  <2>2. FileOK'
    BY <1>1, <2>1, FileUntouched DEF SidecarIInv, FileOK
  <2>3. /\ RecordsIn(list)' = RecordsIn(list)
        /\ \A r : Survives(r) => Survives(r)'
    BY <1>1, <2>1 DEF Survives, RecordsIn, First, LinesOf, fixed
  <2>4. RecordsSurvive'
    BY <1>1, <1>3, <2>3 DEF SidecarIInv, RecordsSurvive
  <2>5. KeysAgree'
    <3>1. \A r : Agrees(r, list) => Agrees(r, list)'
      BY <2>3 DEF Agrees
    <3> QED BY <1>1, <1>5, <3>1 DEF SidecarIInv, KeysAgree, Appending, fixed
  <2>6. StageOK'
    BY <1>1, <1>5 DEF StageOK, Seeding, Appending, fixed
  <2>7. GcOK'
    BY <1>1, <1>5, <2>1, <2>3 DEF SidecarIInv, GcOK, fixed
  <2> QED BY <1>2, <2>2, <2>4, <2>5, <2>6, <2>7 DEF SidecarIInv
<1>6. CASE crash = "power"
  <2>1. /\ list' \in AfterPowerLoss /\ entry' = TRUE /\ prior' = NoList
        /\ marker' \in (IF marker = "written" THEN {"absent", "synced"} ELSE {marker})
    BY <1>6 DEF GoesDown
  <2>2. safe' = Len(LinesOf(list)')
    BY <1>6 DEF GoesDown
  \* The file keeps its synced lines, or the name leads to the earlier one.
  <2>3. /\ list' \in Contents \cup {NoList}
        /\ \/ /\ list' = NoList <=> list = NoList
              /\ First(list, safe) \subseteq RecordsIn(list') \/ list = NoList
              /\ RecordsIn(list') \subseteq RecordsIn(list)
           \/ ~entry /\ list' = prior
    <3>1. CASE ~entry /\ list' = prior
      BY <1>4, <3>1
    <3>2. CASE list = NoList /\ list' = NoList
      BY <3>2
    <3>3. CASE list # NoList /\ list' \in Remains(list, safe)
      <4>1. list \in Contents
        BY <1>4, <3>3
      <4>2. /\ list' \in Contents /\ First(list, safe) \subseteq RecordsIn(list')
            /\ RecordsIn(list') \subseteq RecordsIn(list)
        BY <1>4, <3>3, <4>1, RemainsFacts
      <4> QED BY <3>3, <4>2, FileFacts
    <3>4. CASE list # NoList /\ safe = Len(list.lines) /\ list' = list
      <4>1. list \in Contents
        BY <1>4, <3>4
      <4>2. First(list, safe) = RecordsIn(list)
        BY <3>4, <4>1, FileFacts
      <4> QED BY <3>4, <4>1, <4>2
    <3> QED BY <1>4, <2>1, <3>1, <3>2, <3>3, <3>4 DEF AfterPowerLoss
  <2>4. /\ RecordsIn(list)' = RecordsIn(list') /\ LinesOf(list)' = LinesOf(list')
        /\ RecordsIn(prior)' = {}
    BY <2>1, EmptyFacts DEF RecordsIn, LinesOf
  <2>5. /\ First(list, safe)' = RecordsIn(list') \/ list' = NoList
        /\ Len(LinesOf(list')) \in Nat
    <3>1. CASE list' \in Contents
      <4>1. LinesOf(list') = list'.lines /\ Len(list'.lines) \in Nat
        BY <3>1, FileFacts
      <4>2. First(list, safe)' = First(list', Len(list'.lines))
        BY <2>2, <2>4, <4>1 DEF First
      <4> QED BY <3>1, <4>1, <4>2, FileFacts
    <3>2. CASE list' = NoList
      BY <3>2, EmptyFacts
    <3> QED BY <2>3, <3>1, <3>2
  <2>6. RecordsIn(list') \subseteq Source
    BY <1>4, <2>3
  <2>7. FileOK'
    <3>1. safe' \in 0 .. Len(LinesOf(list)')
      BY <2>2, <2>4, <2>5
    <3>2. /\ RecordsIn(list)' \subseteq Source' /\ RecordsIn(prior)' \subseteq Source'
      BY <1>1, <2>4, <2>6, SourceFacts
    <3> QED BY <1>1, <2>1, <2>3, <3>1, <3>2 DEF SidecarIInv, FileOK, fixed
  <2>8. \A r : Survives(r) => Survives(r)'
    <3>1. \A r : Survives(r) => r \in RecordsIn(list')
      <4>1. RecordsIn(NoList) = {}
        BY EmptyFacts
      <4> QED BY <1>6, <2>3, <4>1 DEF Survives
    <3>2. \A r \in RecordsIn(list') : r \in First(list, safe)'
      BY <2>5, EmptyFacts
    <3> QED BY <2>1, <2>4, <3>1, <3>2 DEF Survives
  <2>9. RecordsSurvive'
    BY <1>1, <1>3, <2>8 DEF SidecarIInv, RecordsSurvive
  <2>10. KeysAgree'
    <3> SUFFICES ASSUME kind = "keyed", ~stuck PROVE KeysAgree'
      BY <1>1 DEF KeysAgree, fixed
    <3>1. ASSUME NEW r \in recorded PROVE Agrees(r, list)'
      <4>1. Agrees(r, list) /\ (~entry => Agrees(r, prior))
        BY <1>6 DEF SidecarIInv, KeysAgree
      <4> QED BY <2>3, <2>4, <4>1 DEF Agrees
    <3> QED BY <1>1, <2>1, <3>1 DEF KeysAgree, Appending
  <2>11. StageOK'
    BY <1>1, <2>1, <2>2 DEF StageOK, Seeding, Appending
  <2>12. GcOK'
    <3> SUFFICES ASSUME kind = "gc" PROVE GcOK'
      BY <1>1 DEF GcOK, fixed
    <3>1. /\ ~entry => marker = "absent" /\ prior = NoList
          /\ damage # NoList => marker = "synced"
          /\ list = NoList /\ marker # "absent" => damage = Lost
          /\ damage = NoList /\ list # NoList => Legacy \subseteq First(list, safe)
      BY <1>6 DEF SidecarIInv, GcOK
    <3>2. damage = NoList /\ list' # NoList =>
             Legacy \subseteq RecordsIn(list)' /\ Legacy \subseteq First(list, safe)'
      BY <2>3, <2>4, <2>5, <3>1
    <3>3. damage # NoList => marker' = "synced"
      BY <2>1, <3>1
    <3>4. list' = NoList /\ marker' # "absent" => damage = Lost
      BY <2>1, <2>3, <3>1
    <3> QED BY <1>1, <2>1, <3>2, <3>3, <3>4 DEF GcOK, fixed
  <2> QED BY <1>2, <2>7, <2>9, <2>10, <2>11, <2>12 DEF SidecarIInv
<1> QED BY <1>4, <1>5, <1>6

\* Where a load begins: nothing is in memory, and after a power loss all is synced.
LEMMA DownFacts ==
  ASSUME SidecarIInv, step = "down"
  PROVE  /\ loaded = {} /\ health = "none" /\ ~trusted
         /\ crash = "power" => entry /\ safe = Len(LinesOf(list))
         /\ list \in Contents \cup {NoList} /\ safe \in 0 .. Len(LinesOf(list))
         /\ crash = "power" => First(list, safe) = RecordsIn(list) \/ list = NoList
<1>1. /\ loaded = {} /\ health = "none" /\ ~trusted
      /\ crash = "power" => entry /\ safe = Len(LinesOf(list))
      /\ list \in Contents \cup {NoList} /\ safe \in 0 .. Len(LinesOf(list))
  BY DEF SidecarIInv, StageOK, FileOK
<1>2. list # NoList =>
         LinesOf(list) = list.lines /\ First(list, Len(list.lines)) = RecordsIn(list)
  BY <1>1, FileFacts
<1> QED BY <1>1, <1>2

\* A load of the GC list that fails keeps the lines.
LEMMA LoadGcBrokenStep ==
  ASSUME SidecarIInv, step = "down", LoadGcBroken,
         UNCHANGED <<fixed, trusted, rec, recorded, prior, stuck>>
  PROVE  SidecarIInv'
<1>1. /\ kind = "gc" /\ loaded' = {} /\ step' = "idle" /\ UNCHANGED <<safe, entry>>
      /\ health' \in {"lost", "unreadable", "malformed", "io"}
  BY DEF LoadGcBroken, Broken
<1>2. \/ list' = list /\ marker' = marker
      \/ /\ list # NoList /\ list' \in {list, [list EXCEPT !.torn = FALSE]}
         /\ marker' = marker \/ (marker = "absent" /\ marker' = "written")
  BY DEF LoadGcBroken
<1>3. list \in Contents \cup {NoList} /\ ~trusted
  BY DownFacts
<1>4. /\ list' \in Contents \cup {NoList} /\ LinesOf(list') = LinesOf(list)
      /\ list' = NoList <=> list = NoList
  <2>1. CASE list' = list
    BY <1>3, <2>1
  <2>2. CASE list \in Contents /\ list' = [list EXCEPT !.torn = FALSE]
    BY <2>2, TornFacts, FileFacts
  <2> QED BY <1>2, <1>3, <2>1, <2>2
<1>5. /\ LinesOf(list)' = LinesOf(list) /\ RecordsIn(list)' = RecordsIn(list)
      /\ RecordsIn(prior)' = RecordsIn(prior) /\ First(list, safe)' = First(list, safe)
  BY <1>1, <1>4 DEF RecordsIn, First, LinesOf
<1>6. FileOK'
  <2>1. safe' \in 0 .. Len(LinesOf(list)')
    BY <1>1, <1>5 DEF SidecarIInv, FileOK
  <2> QED BY <1>1, <1>4, <1>5, <2>1, SourceFacts DEF SidecarIInv, FileOK, fixed
<1>7. \A r : (Survives(r) => Survives(r)') /\ (Contested(r) => Contested(r)')
  BY <1>1, <1>5, ContestedKept, SurvivesKept DEF fixed
<1>8. RecordsSurvive'
  BY <1>1, <1>7 DEF SidecarIInv, RecordsSurvive
<1>9. KeysAgree'
  BY <1>1 DEF KeysAgree, fixed
<1>10. StageOK'
  BY <1>1, <1>3 DEF StageOK, Seeding, Appending
<1>11. GcOK'
  <2>1. damage # NoList => marker' = "synced"
    BY <1>1, <1>2 DEF SidecarIInv, GcOK
  <2>2. list' = NoList /\ marker' # "absent" => damage = Lost
    BY <1>1, <1>2, <1>4 DEF SidecarIInv, GcOK
  <2>3. crash = "power" => entry
    BY DownFacts
  <2> QED BY <1>1, <1>4, <1>5, <2>1, <2>2, <2>3 DEF SidecarIInv, GcOK, fixed
<1>12. BrokenByDamageOnly'
  <2>1. health' = "lost" => list = NoList /\ marker # "absent"
    BY DEF LoadGcBroken, Broken
  <2>2. health' = "malformed" => list # NoList /\ ToSet(list.lines) \cap {Bad, Glued} # {}
    BY DEF LoadGcBroken, Broken, AllParse
  <2>3. list # NoList => ToSet(list.lines) = RecordsIn(list)
    BY DEF RecordsIn, LinesOf
  <2>4. health' = "malformed" => Bad \in Source
    BY <2>2, <2>3, SourceParses DEF SidecarIInv, FileOK
  <2> QED BY <1>1, <2>1, <2>4, SourceParses DEF SidecarIInv, GcOK, BrokenByDamageOnly, fixed
<1> QED BY <1>6, <1>8, <1>9, <1>10, <1>11, <1>12 DEF SidecarIInv

\* The GC list is read in full.
LEMMA LoadGcStep ==
  ASSUME SidecarIInv, step = "down", LoadGc,
         UNCHANGED <<fixed, trusted, rec, recorded, prior, stuck>>
  PROVE  SidecarIInv'
<1>1. /\ kind = "gc" /\ list # NoList /\ list' = [list EXCEPT !.torn = FALSE]
      /\ safe' = (IF list.torn THEN Len(list.lines) ELSE safe)
      /\ marker' = (IF marker = "absent" THEN "synced" ELSE marker)
      /\ entry' = (entry \/ marker = "absent")
      /\ loaded' = ToSet(list.lines) /\ health' = "ok" /\ step' = "idle"
  BY DEF LoadGc
<1>2. list \in Contents /\ ~trusted /\ safe \in 0 .. Len(LinesOf(list))
  BY <1>1, DownFacts
<1>3. /\ list' \in Contents /\ ~list'.torn /\ list' # NoList /\ LinesOf(list') = LinesOf(list)
      /\ LinesOf(list) = list.lines /\ Len(list.lines) \in Nat
  BY <1>1, <1>2, TornFacts, FileFacts
<1>4. /\ LinesOf(list)' = LinesOf(list) /\ RecordsIn(list)' = RecordsIn(list)
      /\ RecordsIn(prior)' = RecordsIn(prior) /\ loaded' = RecordsIn(list)
  BY <1>1, <1>3 DEF RecordsIn, LinesOf
<1>5. /\ safe' \in 0 .. Len(LinesOf(list)')
      /\ First(list, safe) \subseteq First(list, safe)'
      /\ crash = "power" => First(list, safe)' = RecordsIn(list)
  <2>1. safe' = Len(list.lines) \/ safe' = safe
    BY <1>1
  <2>2. safe' \in 0 .. Len(list.lines) /\ safe <= safe' /\ safe \in Nat
    BY <1>2, <1>3, <2>1
  <2>3. First(list, safe)' = First(list, safe')
    BY <1>4 DEF First
  <2>4. First(list, safe) \subseteq First(list, safe')
    BY <2>2 DEF First
  <2>5. crash = "power" => safe' = Len(list.lines)
    BY <1>3, <2>1, DownFacts
  <2>6. First(list, Len(list.lines)) = RecordsIn(list)
    BY <1>2, FileFacts
  <2> QED BY <1>3, <1>4, <2>2, <2>3, <2>4, <2>5, <2>6
<1>6. entry \in BOOLEAN /\ (entry => entry') /\ (crash = "power" => entry)
  BY <1>1, DownFacts DEF SidecarIInv, FileOK
<1>7. FileOK'
  BY <1>1, <1>3, <1>4, <1>5, SourceFacts DEF SidecarIInv, FileOK, fixed
<1>8. \A r : (Survives(r) => Survives(r)') /\ (Contested(r) => Contested(r)')
  BY <1>4, <1>5, <1>6, ContestedKept DEF Survives, fixed
<1>9. RecordsSurvive'
  <2>1. \A r \in loaded' : Survives(r)'
    BY <1>4, <1>5, <1>6 DEF Survives, fixed
  <2>2. \A r \in recorded : r \in loaded'
    BY <1>1, <1>4 DEF SidecarIInv, RecordsSurvive, Survives, Contested
  <2> QED BY <1>8, <2>1, <2>2 DEF SidecarIInv, RecordsSurvive
<1>10. KeysAgree'
  BY <1>1 DEF KeysAgree, fixed
<1>11. StageOK'
  BY <1>1, <1>2 DEF StageOK, Seeding, Appending
<1>12. GcOK'
  BY <1>1, <1>3, <1>4, <1>5, <1>6 DEF SidecarIInv, GcOK, fixed
<1>13. BrokenByDamageOnly'
  BY <1>1 DEF BrokenByDamageOnly
<1> QED BY <1>7, <1>9, <1>10, <1>11, <1>12, <1>13 DEF SidecarIInv

\* The first start: the list is to be seeded, and nothing was recorded.
LEMMA LoadGcFirstStep ==
  ASSUME SidecarIInv, step = "down", LoadGcFirst,
         UNCHANGED <<fixed, trusted, rec, recorded, prior, stuck>>
  PROVE  SidecarIInv'
<1>1. /\ kind = "gc" /\ list = NoList /\ marker = "absent" /\ step' = "seed"
      /\ UNCHANGED <<list, safe, entry, marker, health, loaded>>
  BY DEF LoadGcFirst
<1>2. loaded = {} /\ health = "none" /\ ~trusted
  BY DownFacts
<1>3. recorded = {}
  BY <1>1, EmptyFacts DEF SidecarIInv, RecordsSurvive, Survives, Contested
<1>4. damage = NoList
  BY <1>1 DEF SidecarIInv, GcOK
<1>5. FileOK'
  BY <1>1, FileUntouched DEF SidecarIInv, FileOK
<1>6. RecordsSurvive' /\ KeysAgree' /\ BrokenByDamageOnly'
  BY <1>1, <1>2, <1>3 DEF RecordsSurvive, KeysAgree, BrokenByDamageOnly, fixed
<1>7. StageOK'
  BY <1>1, <1>2, <1>3, <1>4 DEF StageOK, Seeding, Appending, fixed
<1>8. GcOK'
  BY <1>1, <1>2 DEF SidecarIInv, GcOK, fixed
<1> QED BY <1>5, <1>6, <1>7, <1>8 DEF SidecarIInv

\* A file that is not there, or was not read.
LEMMA LoadNothingStep ==
  ASSUME SidecarIInv, step = "down", LoadNothing, UNCHANGED <<fixed, trusted, rec, recorded>>
  PROVE  SidecarIInv'
<1>1. /\ kind # "gc" /\ health' = (IF list = NoList THEN "ok" ELSE "unreadable")
      /\ loaded' = {} /\ step' = "idle"
      /\ UNCHANGED <<list, safe, entry, prior, marker>>
  BY DEF LoadNothing
<1>2. stuck' \in BOOLEAN /\ (stuck => stuck') /\ (~stuck' => list = NoList)
  BY DEF LoadNothing, SidecarIInv, FileOK
<1>3. ~trusted
  BY DownFacts
<1>4. FileOK'
  BY <1>1, <1>2, FileUntouched DEF SidecarIInv, FileOK
<1>5. /\ RecordsIn(list)' = RecordsIn(list)
      /\ \A r : (Survives(r) => Survives(r)') /\ (Contested(r) => Contested(r)')
  BY <1>1, <1>2, ContestedKept DEF Survives, RecordsIn, First, LinesOf, fixed
<1>6. list = NoList => \A r : ~Survives(r)
  BY EmptyFacts DEF Survives
<1>7. RecordsSurvive'
  BY <1>1, <1>5, <1>6 DEF SidecarIInv, RecordsSurvive
<1>8. KeysAgree'
  <2> SUFFICES ASSUME kind = "keyed", ~stuck' PROVE KeysAgree'
    BY DEF KeysAgree, fixed
  <2>1. recorded = {} /\ RecordsIn(list)' = {}
    BY <1>2, <1>5, <1>6, EmptyFacts DEF SidecarIInv, RecordsSurvive, Contested
  <2> QED BY <1>1, <2>1 DEF KeysAgree, Appending
<1>9. StageOK'
  BY <1>1, <1>3 DEF StageOK, Seeding, Appending
<1>10. GcOK' /\ BrokenByDamageOnly'
  BY <1>1 DEF GcOK, BrokenByDamageOnly, fixed
<1> QED BY <1>4, <1>7, <1>8, <1>9, <1>10 DEF SidecarIInv

\* What a load of a keyed or private file finds usable: it has every record that
\* was kept, but for contested ones, and no two records of an index.
LEMMA UsableFacts ==
  ASSUME SidecarIInv, list # NoList
  PROVE  /\ Usable \subseteq RecordsIn(list) \ {Bad} /\ IsFiniteSet(Usable)
         /\ Usable \subseteq AnyLine
         /\ kind = "keyed" => \A r \in Usable : Agrees(r, list)
         /\ \A r \in recorded : r \in RecordsIn(list) => r \in Usable \/ Contested(r)
<1> DEFINE parsed == ToSet(LinesOf(list)) \ {Bad, Glued}
<1>1. parsed = RecordsIn(list) \ {Bad}
  <2>1. Glued \notin RecordsIn(list)
    BY SourceParses DEF SidecarIInv, FileOK
  <2> QED BY <2>1 DEF RecordsIn
<1>2. Usable = IF kind = "keyed" THEN parsed \ Conflicting(parsed) ELSE parsed
  BY DEF Usable
<1> HIDE DEF parsed
<1>3. Usable \subseteq RecordsIn(list) \ {Bad}
  BY <1>1, <1>2
<1>4. IsFiniteSet(Usable)
  <2>1. IsFiniteSet(RecordsIn(list))
    BY RecordsFinite DEF SidecarIInv, FileOK
  <2> QED BY <1>3, <2>1, FS_Subset
<1>5. Usable \subseteq AnyLine
  BY <1>3, SourceParses DEF SidecarIInv, FileOK
<1>6. kind = "keyed" => \A r \in Usable : Agrees(r, list)
  BY <1>1, <1>2 DEF Agrees, Conflicting
<1>7. ASSUME NEW r \in recorded, r \in RecordsIn(list), r \notin Usable
      PROVE  Contested(r)
  <2>1. r \in Appended
    BY DEF SidecarIInv, RecordsSurvive
  <2>2. r \in parsed
    BY <1>1, <1>7, <2>1, SidecarAssumption
  <2>3. kind = "keyed" /\ r \in Conflicting(parsed)
    BY <1>2, <1>7, <2>2
  <2>4. PICK q \in parsed : q[1] = r[1] /\ q # r
    BY <2>3 DEF Conflicting
  <2>5. stuck
    BY <1>1, <2>3, <2>4 DEF SidecarIInv, KeysAgree, Agrees
  <2>6. q \in Source /\ q \notin Appended
    BY <1>1, <2>1, <2>4, SidecarAssumption DEF SidecarIInv, FileOK
  <2>7. damage \in Damaged /\ q \in ToSet(damage.lines)
    BY <2>3, <2>6 DEF Source
  <2>8. damage # NoList
    BY <2>7, SidecarAssumption
  <2>9. r \in Conflicting(ToSet(damage.lines) \cup {r})
    BY <2>4, <2>7 DEF Conflicting
  <2> QED BY <2>3, <2>5, <2>8, <2>9 DEF Contested
<1> QED BY <1>3, <1>4, <1>5, <1>6, <1>7

\* The usable records are loaded, and what is unusable is taken out of the file if
\* that can be done.
LEMMA LoadRecordsStep ==
  ASSUME SidecarIInv, step = "down", LoadRecords, UNCHANGED <<fixed, trusted, rec, recorded>>
  PROVE  SidecarIInv'
<1> DEFINE new == Content(SetToSeq(Usable), FALSE)
<1>1. /\ kind # "gc" /\ list # NoList /\ loaded' = Usable /\ health' = "ok" /\ step' = "idle"
      /\ UNCHANGED marker
  BY DEF LoadRecords
<1>2. list \in Contents /\ ~trusted /\ safe \in 0 .. Len(LinesOf(list))
  BY <1>1, DownFacts
<1>3. crash = "power" => entry /\ First(list, safe) = RecordsIn(list)
  BY <1>1, DownFacts
<1>4. /\ Usable \subseteq RecordsIn(list) \ {Bad} /\ IsFiniteSet(Usable)
      /\ Usable \subseteq AnyLine
      /\ kind = "keyed" => \A r \in Usable : Agrees(r, list)
      /\ \A r \in recorded : r \in RecordsIn(list) => r \in Usable \/ Contested(r)
  BY <1>1, UsableFacts
<1>5. new \in Contents /\ RecordsIn(new) = Usable
  BY <1>4, SetToSeqFacts, FileFacts
<1>6. \/ list' = new /\ safe' = Len(new.lines) /\ entry' = TRUE /\ UNCHANGED <<prior, stuck>>
      \/ list' = new /\ safe' = Len(new.lines) /\ entry' = FALSE /\ prior' = list
         /\ UNCHANGED stuck
      \/ stuck' = TRUE /\ UNCHANGED <<list, safe, entry, prior>>
      \/ RecordsIn(list) = Usable /\ UNCHANGED <<list, safe, entry, prior, stuck>>
  BY <1>1 DEF LoadRecords, Rewrite, RecordsIn, LinesOf
<1> HIDE DEF new
<1>7. StageOK'
  BY <1>1, <1>2 DEF StageOK, Seeding, Appending
<1>8. GcOK' /\ BrokenByDamageOnly'
  BY <1>1 DEF GcOK, BrokenByDamageOnly, fixed
<1>9. stuck' \in BOOLEAN /\ entry' \in BOOLEAN /\ (stuck => stuck')
  BY <1>6 DEF SidecarIInv, FileOK
<1>10. \A r : Contested(r) => Contested(r)'
  BY <1>9, ContestedKept
\* The usable records alone take the name; the earlier file may come back.
<1>11. CASE /\ list' = new /\ safe' = Len(new.lines) /\ stuck' = stuck
            /\ \/ entry' = TRUE /\ prior' = prior
               \/ entry' = FALSE /\ prior' = list
  <2>1. /\ LinesOf(list)' = LinesOf(new) /\ RecordsIn(list)' = Usable
        /\ RecordsIn(prior)' \in {RecordsIn(prior), RecordsIn(list)}
        /\ ~entry' => RecordsIn(prior)' = RecordsIn(list)
    <3>1. RecordsIn(list)' = RecordsIn(new) /\ LinesOf(list)' = LinesOf(new)
      BY <1>11 DEF RecordsIn, LinesOf
    <3>2. /\ RecordsIn(prior)' \in {RecordsIn(prior), RecordsIn(list)}
          /\ ~entry' => RecordsIn(prior)' = RecordsIn(list)
      BY <1>11 DEF RecordsIn, LinesOf
    <3> QED BY <1>5, <3>1, <3>2
  <2>2. safe' \in 0 .. Len(LinesOf(list)') /\ First(list, safe)' = Usable
    <3>1. safe' = Len(new.lines)
      BY <1>11
    <3>2. /\ LinesOf(new) = new.lines /\ Len(new.lines) \in Nat
          /\ First(new, Len(new.lines)) = RecordsIn(new)
      BY <1>5, FileFacts
    <3>3. First(list, safe)' = First(new, Len(new.lines))
      BY <2>1, <3>1 DEF First
    <3>4. safe' \in 0 .. Len(LinesOf(list)')
      BY <2>1, <3>1, <3>2
    <3> QED BY <1>5, <3>2, <3>3, <3>4
  <2>3. FileOK'
    <3>1. list' \in Contents \cup {NoList} /\ prior' \in Contents \cup {NoList}
      BY <1>2, <1>5, <1>11 DEF SidecarIInv, FileOK
    <3>2. RecordsIn(list)' \subseteq Source' /\ RecordsIn(prior)' \subseteq Source'
      BY <1>4, <2>1, SourceFacts DEF SidecarIInv, FileOK
    <3> QED BY <1>9, <2>2, <3>1, <3>2 DEF SidecarIInv, FileOK, fixed
  <2>4. \A r \in Usable : Survives(r)'
    BY <1>4, <2>1, <2>2 DEF Survives
  <2>5. RecordsSurvive'
    BY <1>1, <1>4, <1>10, <2>4 DEF SidecarIInv, RecordsSurvive, Survives
  <2>6. KeysAgree'
    <3> SUFFICES ASSUME kind = "keyed", ~stuck PROVE KeysAgree'
      BY <1>11 DEF KeysAgree, fixed
    <3>1. \A r \in loaded' \cup recorded' : Agrees(r, list)
      BY <1>1, <1>4 DEF SidecarIInv, KeysAgree
    <3>2. \A r \in loaded' \cup recorded' : Agrees(r, list)' /\ (~entry' => Agrees(r, prior)')
      BY <1>4, <2>1, <3>1 DEF Agrees
    <3> QED BY <1>1, <2>1, <3>2 DEF KeysAgree, Appending
  <2> QED BY <1>7, <1>8, <2>3, <2>5, <2>6 DEF SidecarIInv
\* The file stays as it is: it could not be replaced, or all of it is usable.
<1>12. CASE /\ UNCHANGED <<list, safe, entry, prior>>
            /\ stuck' = TRUE \/ (RecordsIn(list) = Usable /\ stuck' = stuck)
  <2>1. FileOK'
    BY <1>2, <1>9, <1>12, FileUntouched DEF SidecarIInv, FileOK
  <2>2. /\ RecordsIn(list)' = RecordsIn(list)
        /\ \A r : Survives(r) => Survives(r)'
    BY <1>12 DEF Survives, RecordsIn, First, LinesOf, fixed
  <2>3. \A r \in Usable : Survives(r)
    BY <1>3, <1>4 DEF Survives
  <2>4. RecordsSurvive'
    BY <1>1, <1>4, <1>10, <2>2, <2>3 DEF SidecarIInv, RecordsSurvive, Survives
  <2>5. KeysAgree'
    <3> SUFFICES ASSUME kind = "keyed", ~stuck' PROVE KeysAgree'
      BY DEF KeysAgree, fixed
    <3>1. \A r \in loaded' \cup recorded' : Agrees(r, list)
      BY <1>1, <1>4, <1>9 DEF SidecarIInv, KeysAgree
    <3>2. \A r \in loaded' \cup recorded' : Agrees(r, list)'
      BY <2>2, <3>1 DEF Agrees
    <3>3. RecordsIn(list)' = loaded'
      BY <1>1, <1>12, <2>2
    <3>4. crash' = "power" => entry'
      BY <1>3, <1>12 DEF fixed
    <3> QED BY <1>1, <3>2, <3>3, <3>4 DEF KeysAgree, Appending
  <2> QED BY <1>7, <1>8, <2>1, <2>4, <2>5 DEF SidecarIInv
<1> QED BY <1>6, <1>11, <1>12

-----------------------------------------------------------------------------
(* The theorem. *)

\* At the start.
LEMMA SidecarInitIInv == SidecarInit => SidecarIInv
<1> SUFFICES ASSUME SidecarInit PROVE SidecarIInv
  OBVIOUS
<1>1. /\ crash \in {"kill", "power"} /\ entry = TRUE /\ prior = NoList /\ loaded = {}
      /\ health = "none" /\ trusted = FALSE /\ step = "down" /\ recorded = {} /\ stuck = FALSE
      /\ safe = Len(LinesOf(list))
  BY SidecarAssumption DEF SidecarInit
<1>2. /\ list = NoList \/ (list \in Damaged /\ list = damage)
      /\ list = NoList => damage \in {NoList, Lost}
      /\ list # NoList => damage # NoList
      /\ kind = "gc" => marker = IF damage # NoList THEN "synced" ELSE "absent"
  <2>1. NoList \notin Damaged /\ Lost \notin Damaged /\ NoList # Lost
    BY SidecarAssumption
  <2> QED BY <2>1 DEF SidecarInit
<1>3. list \in Contents \cup {NoList}
  BY <1>2, SidecarAssumption
<1>4. Len(LinesOf(list)) \in Nat
  BY <1>3, FileFacts, EmptyFacts
<1>5. RecordsIn(list) \subseteq Source /\ RecordsIn(prior) \subseteq Source
  <2>1. CASE list = NoList
    BY <1>1, <2>1, EmptyFacts
  <2>2. CASE list \in Damaged /\ list = damage
    <3>1. RecordsIn(list) = ToSet(list.lines)
      BY <2>2, SidecarAssumption, FileFacts DEF RecordsIn
    <3> QED BY <1>1, <2>2, <3>1, EmptyFacts DEF Source
  <2> QED BY <1>2, <2>1, <2>2
<1>6. FileOK
  <2>1. safe = Len(LinesOf(list))
    BY <1>1
  <2>2. safe \in 0 .. Len(LinesOf(list))
    BY <1>4, <2>1
  <2> QED BY <1>1, <1>3, <1>5, <2>2 DEF FileOK
<1>7. RecordsSurvive /\ KeysAgree /\ BrokenByDamageOnly
  BY <1>1 DEF RecordsSurvive, KeysAgree, BrokenByDamageOnly, Appending
<1>8. StageOK
  BY <1>1 DEF StageOK, Seeding, Appending
<1>9. GcOK
  BY <1>1, <1>2 DEF GcOK
<1> QED BY <1>6, <1>7, <1>8, <1>9 DEF SidecarIInv

\* SidecarIInv is inductive.
LEMMA SidecarNextIInv == SidecarIInv /\ [SidecarNext]_svars => SidecarIInv'
<1> SUFFICES ASSUME SidecarIInv, [SidecarNext]_svars PROVE SidecarIInv'
  OBVIOUS
<1>1. CASE UNCHANGED svars
  BY <1>1 DEF svars, SidecarIInv, FileOK, RecordsSurvive, Survives, Contested, KeysAgree,
              Agrees, StageOK, GcOK, BrokenByDamageOnly, Source, RecordsIn, First, LinesOf
<1>2. CASE Load
  <2>1. step = "down" /\ UNCHANGED <<fixed, trusted, rec, recorded>>
    BY <1>2 DEF Load
  <2> QED BY <1>2, <2>1, LoadGcBrokenStep, LoadGcStep, LoadGcFirstStep, LoadRecordsStep,
             LoadNothingStep DEF Load
<1>3. CASE SeedName \/ SeedSync \/ SeedMark
  BY <1>3, SeedNameStep, SeedSyncStep, SeedMarkStep
<1>4. CASE \E r \in Appended : Record(r)
  BY <1>4, RecordStep
<1>5. CASE OpenSidecar \/ SyncEntry \/ CutTornTail
  BY <1>5, OpenStep, PrepareStep
<1>6. CASE WriteLine \/ SyncLine \/ AppendFails
  BY <1>6, WriteStep, SyncStep, FailStep
<1>7. CASE GoesDown
  BY <1>7, DownStep
<1> QED BY <1>1, <1>2, <1>3, <1>4, <1>5, <1>6, <1>7 DEF SidecarNext

\* The parts of RecordsAreKept follow.
LEMMA SidecarIInvIsEnough == SidecarIInv => RecordsAreKept
<1> SUFFICES ASSUME SidecarIInv PROVE RecordsAreKept
  OBVIOUS
<1>1. NoGluedLine
  BY SourceParses DEF SidecarIInv, FileOK, RecordsIn, NoGluedLine
<1>2. RecordedSurvives
  BY DEF SidecarIInv, RecordsSurvive, GcOK, RecordedSurvives
<1> QED BY <1>1, <1>2 DEF SidecarIInv, RecordsAreKept

\* However often the node is killed or loses power, and whichever file operations
\* fail: an appended record is found again by every load that succeeds, no line is
\* joined to a fragment, and only what the file began with makes the GC list
\* useless (append_sidecar_line, cut_torn_tail, load_with of manifest_index.rs).
THEOREM RecordsKept == SidecarSpec => []RecordsAreKept
<1>1. SidecarInit /\ [][SidecarNext]_svars => []SidecarIInv
  BY SidecarInitIInv, SidecarNextIInv, PTL
<1> QED BY <1>1, SidecarIInvIsEnough, PTL DEF SidecarSpec
=============================================================================
