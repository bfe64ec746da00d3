---------------------------- MODULE IngestV2Proofs ----------------------------
(***************************************************************************)
(* Proofs about IngestV2, for any number of chunks, archives, epochs and   *)
(* commands.  IInv is shown inductive in five layers, each a lemma with one *)
(* step per action and each resting on the layers before it only:          *)
(*   1. types, and what is under way belongs to a registered file;         *)
(*   2. answers are true, ends are final, a repush keeps its epoch;        *)
(*   3. each command sends each transaction once, and a refusal is final;  *)
(*   4. the grace period is over for whoever abandons;                     *)
(*   5. what leaves S2 and S3 is replicated.                               *)
(* The theorems and the refinement of FileLifecycle follow from IInv.      *)
(***************************************************************************)
EXTENDS IngestV2, FiniteSetTheorems, TLAPS

USE DEF Return, ReturnTold, ReturnFrom, Goto, Clear, Send, SendFails, Sent, Rejected,
        chain, archives, work, Answered, Targets, Items, Ops, Kinds, Stages, Outcomes

\* A transaction gets its status, and no other does.
LEMMA StatusSet ==
    ASSUME TypeOK, NEW kind \in Kinds, NEW k \in Ops, NEW o \in {"ok", "failed", "dropped"},
           status' = [status EXCEPT ![<<kind, k>>] = o]
    PROVE  /\ status' \in [Kinds \X Ops -> {"none", "ok", "failed", "dropped"}]
           /\ \A tx \in Kinds \X Ops : tx # <<kind, k>> => status'[tx] = status[tx]
           /\ status'[<<kind, k>>] = o
<1>1. status \in [Kinds \X Ops -> {"none", "ok", "failed", "dropped"}]
  BY DEF TypeOK
<1>2. <<kind, k>> \in Kinds \X Ops
  OBVIOUS
<1>3. status' \in [Kinds \X Ops -> {"none", "ok", "failed", "dropped"}]
  BY <1>1, <1>2
<1>4. \A tx \in Kinds \X Ops : tx # <<kind, k>> => status'[tx] = status[tx]
  BY <1>1
<1>5. status'[<<kind, k>>] = o
  BY <1>1, <1>2
<1> QED
  BY <1>3, <1>4, <1>5

\* Layer 1: no step of a command, an archive or the chain leaves the types, or has
\* a command work on a file that is not registered.
LEMMA TypingPreserved == TypeOK /\ UnderWay /\ [Next]_vars => (TypeOK /\ UnderWay)'
<1> SUFFICES ASSUME TypeOK /\ UnderWay, [Next]_vars PROVE (TypeOK /\ UnderWay)'
  OBVIOUS
<1> USE IngestAssumption
<1>1. ASSUME NEW command \in Cmds, Start(command) PROVE (TypeOK /\ UnderWay)'
  <2>1. FirstStage[command] \in {"s1a", "info", "repush", "abandon"}
    BY DEF FirstStage
  <2>2. n' \in Ops /\ n' \in 0..MaxOps
    BY <1>1 DEF Start, TypeOK
  <2>3. UnderWay'
    BY <1>1, <2>1, <2>2 DEF Start, UnderWay
  <2>4. TypeOK'
    BY <1>1, <2>1, <2>2 DEF Start, TypeOK
  <2> QED
    BY <2>3, <2>4
<1>2. ASSUME Die PROVE (TypeOK /\ UnderWay)'
  <2>1. msgs' \subseteq {"push", "ack", "nack"} \X (0..MaxOps) \X Items \X Archives
    BY <1>2 DEF Die, TypeOK
  <2>2. TypeOK'
    BY <1>2, <2>1 DEF Die, TypeOK
  <2>3. UnderWay'
    BY <1>2 DEF Die, UnderWay
  <2> QED
    BY <2>2, <2>3
<1>3. ASSUME Fails PROVE (TypeOK /\ UnderWay)'
  BY <1>3 DEF Fails, TypeOK, UnderWay
<1>4. ASSUME S1aOk PROVE (TypeOK /\ UnderWay)'
  BY <1>4 DEF S1aOk, TypeOK, UnderWay
<1>5. ASSUME PreflightFails PROVE (TypeOK /\ UnderWay)'
  BY <1>5 DEF PreflightFails, TypeOK, UnderWay
<1>6. ASSUME NotSent PROVE (TypeOK /\ UnderWay)'
  BY <1>6 DEF NotSent, TypeOK, UnderWay
<1>7. ASSUME Send("register", "register", "registered?") PROVE (TypeOK /\ UnderWay)'
  BY <1>7 DEF TypeOK, UnderWay
<1>8. ASSUME RegisterUnsure PROVE (TypeOK /\ UnderWay)'
  BY <1>8 DEF RegisterUnsure, TypeOK, UnderWay
<1>9. ASSUME RegisterEnds PROVE (TypeOK /\ UnderWay)'
  BY <1>9 DEF RegisterEnds, TypeOK, UnderWay
<1>10. ASSUME RegisterUnconfirmed PROVE (TypeOK /\ UnderWay)'
  BY <1>10 DEF RegisterUnconfirmed, TypeOK, UnderWay
<1>11. ASSUME Lookup PROVE (TypeOK /\ UnderWay)'
  BY <1>11 DEF Lookup, TypeOK, UnderWay
<1>12. ASSUME Inputs PROVE (TypeOK /\ UnderWay)'
  BY <1>12 DEF Inputs, PushWave, Wave, TypeOK, UnderWay
<1>13. ASSUME PushDone PROVE (TypeOK /\ UnderWay)'
  BY <1>13 DEF PushDone, TypeOK, UnderWay
<1>14. ASSUME ManifestWave PROVE (TypeOK /\ UnderWay)'
  BY <1>14 DEF ManifestWave, Wave, TypeOK, UnderWay
<1>15. ASSUME ManifestWaveFails PROVE (TypeOK /\ UnderWay)'
  BY <1>15 DEF ManifestWaveFails, TypeOK, UnderWay
<1>16. ASSUME ManifestDone PROVE (TypeOK /\ UnderWay)'
  BY <1>16 DEF ManifestDone, TypeOK, UnderWay
<1>17. ASSUME NEW k \in Ops, NEW t \in Targets, TakeAck(k, t) PROVE (TypeOK /\ UnderWay)'
  BY <1>17 DEF TakeAck, TypeOK, UnderWay
<1>18. ASSUME NEW k \in Ops, NEW t \in Targets, PushRetry(k, t) PROVE (TypeOK /\ UnderWay)'
  BY <1>18 DEF PushRetry, TypeOK, UnderWay
<1>19. ASSUME NEW k \in Ops, NEW t \in Targets, RepushRetry(k, t) PROVE (TypeOK /\ UnderWay)'
  <2>1. attempts' \in [Targets -> 0..(PushRetries + 1)]
    BY <1>19 DEF RepushRetry, TypeOK
  <2>2. msgs' \subseteq {"push", "ack", "nack"} \X (0..MaxOps) \X Items \X Archives
    BY <1>19 DEF RepushRetry, TypeOK, UnderWay
  <2> QED
    BY <1>19, <2>1, <2>2 DEF RepushRetry, TypeOK, UnderWay
<1>20. ASSUME NEW k \in Ops, NEW t \in Targets, RepushGivesUp(k, t) PROVE (TypeOK /\ UnderWay)'
  BY <1>20 DEF RepushGivesUp, TypeOK, UnderWay
<1>21. ASSUME StaysPending PROVE (TypeOK /\ UnderWay)'
  BY <1>21 DEF StaysPending, TypeOK, UnderWay
<1>22. ASSUME CoverageSeen PROVE (TypeOK /\ UnderWay)'
  BY <1>22 DEF CoverageSeen, CanActivate, TypeOK, UnderWay
<1>23. ASSUME Send("activate", "activate", "activated?") PROVE (TypeOK /\ UnderWay)'
  BY <1>23 DEF TypeOK, UnderWay
<1>24. ASSUME ActivateUnsure PROVE (TypeOK /\ UnderWay)'
  BY <1>24 DEF ActivateUnsure, TypeOK, UnderWay
<1>25. ASSUME ActivateEnds PROVE (TypeOK /\ UnderWay)'
  BY <1>25 DEF ActivateEnds, TypeOK, UnderWay
<1>26. ASSUME ResumeInfo PROVE (TypeOK /\ UnderWay)'
  BY <1>26 DEF ResumeInfo, TypeOK, UnderWay
<1>27. ASSUME ResumeCoverage PROVE (TypeOK /\ UnderWay)'
  BY <1>27 DEF ResumeCoverage, TypeOK, UnderWay
<1>28. ASSUME ResumeMissing PROVE (TypeOK /\ UnderWay)'
  BY <1>28 DEF ResumeMissing, PushWave, Wave, TypeOK, UnderWay
<1>29. ASSUME RepushStart PROVE (TypeOK /\ UnderWay)'
  <2>1. Len(epochs) \in 1..MaxEpochs /\ epochs[Len(epochs)] \subseteq Archives
    BY <1>29 DEF RepushStart, TypeOK, UnderWay
  <2>2. targets' \subseteq Targets /\ n \in Ops
    BY <1>29 DEF RepushStart, PairsOf, TypeOK, UnderWay
  <2>3. msgs' \subseteq {"push", "ack", "nack"} \X (0..MaxOps) \X Items \X Archives
    BY <1>29, <2>2 DEF RepushStart, Wave, TypeOK
  <2>4. attempts' \in [Targets -> 0..(PushRetries + 1)]
    BY <1>29, <2>2 DEF RepushStart, Wave, TypeOK
  <2> QED
    BY <1>29, <2>1, <2>2, <2>3, <2>4 DEF RepushStart, TypeOK, UnderWay
<1>30. ASSUME RepushRefused PROVE (TypeOK /\ UnderWay)'
  BY <1>30 DEF RepushRefused, TypeOK, UnderWay
<1>31. ASSUME RepushManifests PROVE (TypeOK /\ UnderWay)'
  BY <1>31 DEF RepushManifests, Wave, TypeOK, UnderWay
<1>32. ASSUME RepushReports PROVE (TypeOK /\ UnderWay)'
  BY <1>32 DEF RepushReports, TypeOK, UnderWay
<1>33. ASSUME AbandonCheck PROVE (TypeOK /\ UnderWay)'
  BY <1>33 DEF AbandonCheck, TypeOK, UnderWay
<1>34. ASSUME Send("abandon", "abandon!", "abandoned?") PROVE (TypeOK /\ UnderWay)'
  BY <1>34 DEF TypeOK, UnderWay
<1>35. ASSUME AbandonUnsure PROVE (TypeOK /\ UnderWay)'
  BY <1>35 DEF AbandonUnsure, TypeOK, UnderWay
<1>36. ASSUME AbandonEnds PROVE (TypeOK /\ UnderWay)'
  BY <1>36 DEF AbandonEnds, TypeOK, UnderWay
<1>37. ASSUME NEW kind \in Kinds, NEW k \in Ops, Execute(kind, k) PROVE (TypeOK /\ UnderWay)'
  <2>1. /\ stage' \in {"none", "pending", "active", "abandoned"}
        /\ stage # "none" => stage' # "none"
    BY <1>37 DEF Execute, TypeOK
  <2>2. \/ UNCHANGED <<epochs, created>> /\ (stage' # "none" => stage # "none")
        \/ epochs' = <<live>> /\ created' = height
    BY <1>37 DEF Execute, CanActivate
  <2>3. /\ epochs' \in Seq(SUBSET Archives) /\ Len(epochs') <= MaxEpochs
        /\ created' \in 0..MaxHeight
        /\ stage' # "none" => Len(epochs') >= 1
    <3>1. CASE UNCHANGED <<epochs, created>> /\ (stage' # "none" => stage # "none")
      BY <3>1 DEF TypeOK, UnderWay
    <3>2. CASE epochs' = <<live>> /\ created' = height
      <4>1. live \in SUBSET Archives
        BY DEF TypeOK
      <4>2. <<live>> \in Seq(SUBSET Archives) /\ Len(<<live>>) = 1
        BY <4>1
      <4> QED
        BY <3>2, <4>2 DEF TypeOK
    <3> QED
      BY <2>2, <3>1, <3>2
  <2>4. PICK o \in {"ok", "failed"} :
            /\ status' = [status EXCEPT ![<<kind, k>>] = o]
            /\ o = "ok" => stage' # "none"
    BY <1>37 DEF Execute
  <2>5. /\ status' \in [Kinds \X Ops -> {"none", "ok", "failed", "dropped"}]
        /\ \A tx \in Kinds \X Ops : status'[tx] = "ok" => stage' # "none"
    <3>1. /\ status' \in [Kinds \X Ops -> {"none", "ok", "failed", "dropped"}]
          /\ \A tx \in Kinds \X Ops : tx # <<kind, k>> => status'[tx] = status[tx]
          /\ status'[<<kind, k>>] = o
      BY <2>4, StatusSet
    <3>2. ASSUME NEW tx \in Kinds \X Ops, status'[tx] = "ok" PROVE stage' # "none"
      BY <2>1, <2>4, <3>1, <3>2 DEF UnderWay
    <3> QED
      BY <3>1, <3>2
  <2>6. nonce' \in Nat /\ pool' \subseteq Kinds \X Ops \X Nat
    BY <1>37 DEF Execute, TypeOK
  <2>7. UNCHANGED <<height, taken, live, attested, archives, n, cmd, pc, work, outcome>>
    BY <1>37 DEF Execute
  <2> QED
    BY <2>1, <2>3, <2>5, <2>6, <2>7 DEF TypeOK, UnderWay
<1>38. ASSUME NEW kind \in Kinds, NEW k \in Ops, NEW m \in 0..nonce, Drop(kind, k, m)
      PROVE (TypeOK /\ UnderWay)'
  BY <1>38 DEF Drop, TypeOK, UnderWay
<1>39. ASSUME NEW k \in 0..MaxOps, NEW x \in Items, NEW a \in Archives, Accept(k, x, a)
      PROVE (TypeOK /\ UnderWay)'
  BY <1>39 DEF Accept, Answer, TypeOK, UnderWay
<1>40. ASSUME NEW k \in 0..MaxOps, NEW x \in Items, NEW a \in Archives, Refuse(k, x, a)
      PROVE (TypeOK /\ UnderWay)'
  BY <1>40 DEF Refuse, Answer, TypeOK, UnderWay
<1>41. ASSUME NEW c \in Chunks, NEW a \in Archives, Attest(c, a) PROVE (TypeOK /\ UnderWay)'
  BY <1>41 DEF Attest, TypeOK, UnderWay
<1>42. ASSUME NEW a \in Archives, Leave(a) PROVE (TypeOK /\ UnderWay)'
  BY <1>42 DEF Leave, TypeOK, UnderWay
<1>43. ASSUME Block PROVE (TypeOK /\ UnderWay)'
  BY <1>43 DEF Block, TypeOK, UnderWay
<1>44. ASSUME Reassign PROVE (TypeOK /\ UnderWay)'
  BY <1>44 DEF Reassign, TypeOK, UnderWay
<1>45. ASSUME UNCHANGED vars PROVE (TypeOK /\ UnderWay)'
  BY <1>45 DEF vars, TypeOK, UnderWay
<1> QED
  BY <1>1, <1>2, <1>3, <1>4, <1>5, <1>6, <1>7, <1>8, <1>9, <1>10, <1>11,
     <1>12, <1>13, <1>14, <1>15, <1>16, <1>17, <1>18, <1>19, <1>20, <1>21, <1>22,
     <1>23, <1>24, <1>25, <1>26, <1>27, <1>28, <1>29, <1>30, <1>31, <1>32, <1>33,
     <1>34, <1>35, <1>36, <1>37, <1>38, <1>39, <1>40, <1>41, <1>42, <1>43, <1>44,
     <1>45
  DEF Next, Command, Environment
\* Layer 2: archives answer yes only after the durable write, so every answer on its
\* way or taken is about something stored; activation and abandonment stay; a repush
\* keeps the epoch and the snapshot it read together.
LEMMA StoredPreserved ==
    TypeOK /\ UnderWay /\ AnswersAreTrue /\ EndsAreFinal /\ RepushEpoch /\ [Next]_vars
      => (AnswersAreTrue /\ EndsAreFinal /\ RepushEpoch)'
<1> SUFFICES ASSUME TypeOK /\ UnderWay /\ AnswersAreTrue /\ EndsAreFinal /\ RepushEpoch, [Next]_vars
      PROVE (AnswersAreTrue /\ EndsAreFinal /\ RepushEpoch)'
  OBVIOUS
<1> USE IngestAssumption
<1>1. ASSUME NEW command \in Cmds, Start(command)
      PROVE (AnswersAreTrue /\ EndsAreFinal /\ RepushEpoch)'
  BY <1>1 DEF Start, FirstStage, TypeOK, UnderWay, AnswersAreTrue, EndsAreFinal, RepushEpoch
<1>2. ASSUME Die PROVE (AnswersAreTrue /\ EndsAreFinal /\ RepushEpoch)'
  BY <1>2 DEF Die, TypeOK, UnderWay, AnswersAreTrue, EndsAreFinal, RepushEpoch
<1>3. ASSUME Fails PROVE (AnswersAreTrue /\ EndsAreFinal /\ RepushEpoch)'
  BY <1>3 DEF Fails, TypeOK, UnderWay, AnswersAreTrue, EndsAreFinal, RepushEpoch
<1>4. ASSUME S1aOk PROVE (AnswersAreTrue /\ EndsAreFinal /\ RepushEpoch)'
  BY <1>4 DEF S1aOk, TypeOK, UnderWay, AnswersAreTrue, EndsAreFinal, RepushEpoch
<1>5. ASSUME PreflightFails PROVE (AnswersAreTrue /\ EndsAreFinal /\ RepushEpoch)'
  BY <1>5 DEF PreflightFails, TypeOK, UnderWay, AnswersAreTrue, EndsAreFinal, RepushEpoch
<1>6. ASSUME NotSent PROVE (AnswersAreTrue /\ EndsAreFinal /\ RepushEpoch)'
  BY <1>6 DEF NotSent, TypeOK, UnderWay, AnswersAreTrue, EndsAreFinal, RepushEpoch
<1>7. ASSUME Send("register", "register", "registered?")
      PROVE (AnswersAreTrue /\ EndsAreFinal /\ RepushEpoch)'
  BY <1>7 DEF TypeOK, UnderWay, AnswersAreTrue, EndsAreFinal, RepushEpoch
<1>8. ASSUME RegisterUnsure PROVE (AnswersAreTrue /\ EndsAreFinal /\ RepushEpoch)'
  BY <1>8 DEF RegisterUnsure, TypeOK, UnderWay, AnswersAreTrue, EndsAreFinal, RepushEpoch
<1>9. ASSUME RegisterEnds PROVE (AnswersAreTrue /\ EndsAreFinal /\ RepushEpoch)'
  BY <1>9 DEF RegisterEnds, TypeOK, UnderWay, AnswersAreTrue, EndsAreFinal, RepushEpoch
<1>10. ASSUME RegisterUnconfirmed PROVE (AnswersAreTrue /\ EndsAreFinal /\ RepushEpoch)'
  BY <1>10 DEF RegisterUnconfirmed, TypeOK, UnderWay, AnswersAreTrue, EndsAreFinal, RepushEpoch
<1>11. ASSUME Lookup PROVE (AnswersAreTrue /\ EndsAreFinal /\ RepushEpoch)'
  BY <1>11 DEF Lookup, TypeOK, UnderWay, AnswersAreTrue, EndsAreFinal, RepushEpoch
<1>12. ASSUME Inputs PROVE (AnswersAreTrue /\ EndsAreFinal /\ RepushEpoch)'
  BY <1>12 DEF Inputs, PushWave, Wave, TypeOK, UnderWay, AnswersAreTrue, EndsAreFinal, RepushEpoch
<1>13. ASSUME PushDone PROVE (AnswersAreTrue /\ EndsAreFinal /\ RepushEpoch)'
  BY <1>13 DEF PushDone, TypeOK, UnderWay, AnswersAreTrue, EndsAreFinal, RepushEpoch
<1>14. ASSUME ManifestWave PROVE (AnswersAreTrue /\ EndsAreFinal /\ RepushEpoch)'
  BY <1>14 DEF ManifestWave, Wave, TypeOK, UnderWay, AnswersAreTrue, EndsAreFinal, RepushEpoch
<1>15. ASSUME ManifestWaveFails PROVE (AnswersAreTrue /\ EndsAreFinal /\ RepushEpoch)'
  BY <1>15 DEF ManifestWaveFails, TypeOK, UnderWay, AnswersAreTrue, EndsAreFinal, RepushEpoch
<1>16. ASSUME ManifestDone PROVE (AnswersAreTrue /\ EndsAreFinal /\ RepushEpoch)'
  BY <1>16 DEF ManifestDone, TypeOK, UnderWay, AnswersAreTrue, EndsAreFinal, RepushEpoch
<1>17. ASSUME NEW k \in Ops, NEW t \in Targets, TakeAck(k, t)
      PROVE (AnswersAreTrue /\ EndsAreFinal /\ RepushEpoch)'
  BY <1>17 DEF TakeAck, TypeOK, UnderWay, AnswersAreTrue, EndsAreFinal, RepushEpoch
<1>18. ASSUME NEW k \in Ops, NEW t \in Targets, PushRetry(k, t)
      PROVE (AnswersAreTrue /\ EndsAreFinal /\ RepushEpoch)'
  BY <1>18 DEF PushRetry, TypeOK, UnderWay, AnswersAreTrue, EndsAreFinal, RepushEpoch
<1>19. ASSUME NEW k \in Ops, NEW t \in Targets, RepushRetry(k, t)
      PROVE (AnswersAreTrue /\ EndsAreFinal /\ RepushEpoch)'
  BY <1>19 DEF RepushRetry, TypeOK, UnderWay, AnswersAreTrue, EndsAreFinal, RepushEpoch
<1>20. ASSUME NEW k \in Ops, NEW t \in Targets, RepushGivesUp(k, t)
      PROVE (AnswersAreTrue /\ EndsAreFinal /\ RepushEpoch)'
  BY <1>20 DEF RepushGivesUp, TypeOK, UnderWay, AnswersAreTrue, EndsAreFinal, RepushEpoch
<1>21. ASSUME StaysPending PROVE (AnswersAreTrue /\ EndsAreFinal /\ RepushEpoch)'
  BY <1>21 DEF StaysPending, TypeOK, UnderWay, AnswersAreTrue, EndsAreFinal, RepushEpoch
<1>22. ASSUME CoverageSeen PROVE (AnswersAreTrue /\ EndsAreFinal /\ RepushEpoch)'
  BY <1>22
     DEF CoverageSeen, CanActivate, TypeOK, UnderWay, AnswersAreTrue, EndsAreFinal, RepushEpoch
<1>23. ASSUME Send("activate", "activate", "activated?")
      PROVE (AnswersAreTrue /\ EndsAreFinal /\ RepushEpoch)'
  BY <1>23 DEF TypeOK, UnderWay, AnswersAreTrue, EndsAreFinal, RepushEpoch
<1>24. ASSUME ActivateUnsure PROVE (AnswersAreTrue /\ EndsAreFinal /\ RepushEpoch)'
  BY <1>24 DEF ActivateUnsure, TypeOK, UnderWay, AnswersAreTrue, EndsAreFinal, RepushEpoch
<1>25. ASSUME ActivateEnds PROVE (AnswersAreTrue /\ EndsAreFinal /\ RepushEpoch)'
  BY <1>25 DEF ActivateEnds, TypeOK, UnderWay, AnswersAreTrue, EndsAreFinal, RepushEpoch
<1>26. ASSUME ResumeInfo PROVE (AnswersAreTrue /\ EndsAreFinal /\ RepushEpoch)'
  BY <1>26 DEF ResumeInfo, TypeOK, UnderWay, AnswersAreTrue, EndsAreFinal, RepushEpoch
<1>27. ASSUME ResumeCoverage PROVE (AnswersAreTrue /\ EndsAreFinal /\ RepushEpoch)'
  BY <1>27 DEF ResumeCoverage, TypeOK, UnderWay, AnswersAreTrue, EndsAreFinal, RepushEpoch
<1>28. ASSUME ResumeMissing PROVE (AnswersAreTrue /\ EndsAreFinal /\ RepushEpoch)'
  BY <1>28
     DEF ResumeMissing, PushWave, Wave, TypeOK, UnderWay, AnswersAreTrue, EndsAreFinal, RepushEpoch
<1>29. ASSUME RepushStart PROVE (AnswersAreTrue /\ EndsAreFinal /\ RepushEpoch)'
  BY <1>29 DEF RepushStart, Wave, TypeOK, UnderWay, AnswersAreTrue, EndsAreFinal, RepushEpoch
<1>30. ASSUME RepushRefused PROVE (AnswersAreTrue /\ EndsAreFinal /\ RepushEpoch)'
  BY <1>30 DEF RepushRefused, TypeOK, UnderWay, AnswersAreTrue, EndsAreFinal, RepushEpoch
<1>31. ASSUME RepushManifests PROVE (AnswersAreTrue /\ EndsAreFinal /\ RepushEpoch)'
  BY <1>31 DEF RepushManifests, Wave, TypeOK, UnderWay, AnswersAreTrue, EndsAreFinal, RepushEpoch
<1>32. ASSUME RepushReports PROVE (AnswersAreTrue /\ EndsAreFinal /\ RepushEpoch)'
  BY <1>32 DEF RepushReports, TypeOK, UnderWay, AnswersAreTrue, EndsAreFinal, RepushEpoch
<1>33. ASSUME AbandonCheck PROVE (AnswersAreTrue /\ EndsAreFinal /\ RepushEpoch)'
  BY <1>33 DEF AbandonCheck, TypeOK, UnderWay, AnswersAreTrue, EndsAreFinal, RepushEpoch
<1>34. ASSUME Send("abandon", "abandon!", "abandoned?")
      PROVE (AnswersAreTrue /\ EndsAreFinal /\ RepushEpoch)'
  BY <1>34 DEF TypeOK, UnderWay, AnswersAreTrue, EndsAreFinal, RepushEpoch
<1>35. ASSUME AbandonUnsure PROVE (AnswersAreTrue /\ EndsAreFinal /\ RepushEpoch)'
  BY <1>35 DEF AbandonUnsure, TypeOK, UnderWay, AnswersAreTrue, EndsAreFinal, RepushEpoch
<1>36. ASSUME AbandonEnds PROVE (AnswersAreTrue /\ EndsAreFinal /\ RepushEpoch)'
  BY <1>36 DEF AbandonEnds, TypeOK, UnderWay, AnswersAreTrue, EndsAreFinal, RepushEpoch
<1>37. ASSUME NEW kind \in Kinds, NEW k \in Ops, Execute(kind, k)
      PROVE (AnswersAreTrue /\ EndsAreFinal /\ RepushEpoch)'
  BY <1>37 DEF Execute, CanActivate, TypeOK, UnderWay, AnswersAreTrue, EndsAreFinal, RepushEpoch
<1>38. ASSUME NEW kind \in Kinds, NEW k \in Ops, NEW m \in 0..nonce, Drop(kind, k, m)
      PROVE (AnswersAreTrue /\ EndsAreFinal /\ RepushEpoch)'
  BY <1>38 DEF Drop, TypeOK, UnderWay, AnswersAreTrue, EndsAreFinal, RepushEpoch
<1>39. ASSUME NEW k \in 0..MaxOps, NEW x \in Items, NEW a \in Archives, Accept(k, x, a)
      PROVE (AnswersAreTrue /\ EndsAreFinal /\ RepushEpoch)'
  BY <1>39 DEF Accept, Answer, TypeOK, UnderWay, AnswersAreTrue, EndsAreFinal, RepushEpoch
<1>40. ASSUME NEW k \in 0..MaxOps, NEW x \in Items, NEW a \in Archives, Refuse(k, x, a)
      PROVE (AnswersAreTrue /\ EndsAreFinal /\ RepushEpoch)'
  BY <1>40 DEF Refuse, Answer, TypeOK, UnderWay, AnswersAreTrue, EndsAreFinal, RepushEpoch
<1>41. ASSUME NEW c \in Chunks, NEW a \in Archives, Attest(c, a)
      PROVE (AnswersAreTrue /\ EndsAreFinal /\ RepushEpoch)'
  BY <1>41 DEF Attest, TypeOK, UnderWay, AnswersAreTrue, EndsAreFinal, RepushEpoch
<1>42. ASSUME NEW a \in Archives, Leave(a)
      PROVE (AnswersAreTrue /\ EndsAreFinal /\ RepushEpoch)'
  BY <1>42 DEF Leave, TypeOK, UnderWay, AnswersAreTrue, EndsAreFinal, RepushEpoch
<1>43. ASSUME Block PROVE (AnswersAreTrue /\ EndsAreFinal /\ RepushEpoch)'
  BY <1>43 DEF Block, TypeOK, UnderWay, AnswersAreTrue, EndsAreFinal, RepushEpoch
<1>44. ASSUME Reassign PROVE (AnswersAreTrue /\ EndsAreFinal /\ RepushEpoch)'
  BY <1>44 DEF Reassign, TypeOK, UnderWay, AnswersAreTrue, EndsAreFinal, RepushEpoch
<1>45. ASSUME UNCHANGED vars PROVE (AnswersAreTrue /\ EndsAreFinal /\ RepushEpoch)'
  BY <1>45 DEF vars, TypeOK, UnderWay, AnswersAreTrue, EndsAreFinal, RepushEpoch
<1> QED
  BY <1>1, <1>2, <1>3, <1>4, <1>5, <1>6, <1>7, <1>8, <1>9, <1>10, <1>11,
     <1>12, <1>13, <1>14, <1>15, <1>16, <1>17, <1>18, <1>19, <1>20, <1>21, <1>22,
     <1>23, <1>24, <1>25, <1>26, <1>27, <1>28, <1>29, <1>30, <1>31, <1>32, <1>33,
     <1>34, <1>35, <1>36, <1>37, <1>38, <1>39, <1>40, <1>41, <1>42, <1>43, <1>44,
     <1>45
  DEF Next, Command, Environment
\* Sending the transaction of a stage, or failing to, keeps the pool orderly.
LEMMA SentOnce ==
    ASSUME TypeOK, UnderWay, OneTransactionEach, NEW kind \in Kinds, pc # "idle", Unsent(kind),
           Sent(kind) \/ UNCHANGED pool, UNCHANGED <<n, nonce, status>>
    PROVE  /\ OneTransactionEach'
           /\ \A other \in Kinds : other # kind /\ Unsent(other) => Unsent(other)'
<1>1. pool \subseteq Kinds \X Ops \X Nat /\ n \in Ops /\ nonce \in Nat
  BY DEF TypeOK, UnderWay
<1>2. pool' \subseteq pool \cup {<<kind, n, nonce>>}
  OBVIOUS
<1>3. \A tx \in pool' : tx \in pool \/ (tx[1] = kind /\ tx[2] = n /\ tx[3] = nonce)
  BY <1>2
<1>4. ASSUME NEW tx \in pool' PROVE tx[2] <= n /\ status[<<tx[1], tx[2]>>] = "none"
  <2>1. CASE tx \in pool
    BY <2>1 DEF OneTransactionEach
  <2>2. CASE tx[1] = kind /\ tx[2] = n
    BY <1>1, <2>2 DEF Unsent
  <2> QED
    BY <1>3, <2>1, <2>2
<1>5. \A t1, t2 \in pool' : t1[1] = t2[1] /\ t1[2] = t2[2] => t1 = t2
  BY <1>1, <1>2, <1>3 DEF OneTransactionEach, Unsent
<1>6. \A other \in Kinds : other # kind /\ Unsent(other) => Unsent(other)'
  BY <1>3 DEF Unsent
<1> QED
  BY <1>4, <1>5, <1>6 DEF OneTransactionEach

\* The rest of the pool is what it was when one transaction leaves it.
LEMMA LeavesPool ==
    ASSUME TypeOK, UnderWay, OneTransactionEach, LaterUnsent, RefusedIsFinal,
           NEW kind \in Kinds, NEW k \in Ops, NEW m \in Nat, NEW o \in {"ok", "failed", "dropped"},
           <<kind, k, m>> \in pool, pool' = pool \ {<<kind, k, m>>},
           status' = [status EXCEPT ![<<kind, k>>] = o],
           UNCHANGED <<n, cmd, pc, outcome>>
    PROVE  (OneTransactionEach /\ LaterUnsent /\ RefusedIsFinal)'
<1>1. /\ pool \subseteq Kinds \X Ops \X Nat
      /\ status \in [Kinds \X Ops -> {"none", "ok", "failed", "dropped"}]
      /\ n \in 0..MaxOps
  BY DEF TypeOK
<1>2. k <= n
  BY DEF OneTransactionEach
<1>3. \A tx \in pool' : tx \in pool /\ <<tx[1], tx[2]>> # <<kind, k>>
  BY <1>1 DEF OneTransactionEach
<1>4. \A tx \in Kinds \X Ops : tx # <<kind, k>> => status'[tx] = status[tx]
  BY <1>1
<1>5. OneTransactionEach'
  BY <1>1, <1>2, <1>3, <1>4 DEF OneTransactionEach
<1>6. \A other \in Kinds : n \in Ops /\ Unsent(other) => Unsent(other)'
  BY <1>1, <1>3, <1>4 DEF Unsent
<1>7. pc # "idle" => n \in Ops
  BY DEF UnderWay
<1>8. n \in Ops /\ (\A tx \in pool : tx[2] # n) => status'[<<"register", n>>] = status[<<"register", n>>]
  BY <1>1, <1>4
<1>9. LaterUnsent'
  BY <1>3, <1>6, <1>7, <1>8 DEF LaterUnsent
<1>10. RefusedIsFinal'
  BY <1>1, <1>3, <1>4 DEF RefusedIsFinal
<1> QED
  BY <1>5, <1>9, <1>10

\* Layer 3: a command sends each transaction once, the chain settles it once, and
\* a refusal is reported only when no registration of this run is left to execute.
LEMMA TransactionsPreserved ==
    TypeOK /\ UnderWay /\ OneTransactionEach /\ LaterUnsent /\ RefusedIsFinal /\ [Next]_vars
      => (OneTransactionEach /\ LaterUnsent /\ RefusedIsFinal)'
<1> SUFFICES ASSUME TypeOK /\ UnderWay /\ OneTransactionEach /\ LaterUnsent /\ RefusedIsFinal, [Next]_vars
      PROVE (OneTransactionEach /\ LaterUnsent /\ RefusedIsFinal)'
  OBVIOUS
<1> USE IngestAssumption
<1>1. ASSUME NEW command \in Cmds, Start(command)
      PROVE (OneTransactionEach /\ LaterUnsent /\ RefusedIsFinal)'
  BY <1>1
     DEF Start, FirstStage, TypeOK, UnderWay, OneTransactionEach, LaterUnsent, RefusedIsFinal, Unsent
<1>2. ASSUME Die PROVE (OneTransactionEach /\ LaterUnsent /\ RefusedIsFinal)'
  BY <1>2 DEF Die, TypeOK, UnderWay, OneTransactionEach, LaterUnsent, RefusedIsFinal, Unsent
<1>3. ASSUME Fails PROVE (OneTransactionEach /\ LaterUnsent /\ RefusedIsFinal)'
  BY <1>3 DEF Fails, TypeOK, UnderWay, OneTransactionEach, LaterUnsent, RefusedIsFinal, Unsent
<1>4. ASSUME S1aOk PROVE (OneTransactionEach /\ LaterUnsent /\ RefusedIsFinal)'
  BY <1>4 DEF S1aOk, TypeOK, UnderWay, OneTransactionEach, LaterUnsent, RefusedIsFinal, Unsent
<1>5. ASSUME PreflightFails PROVE (OneTransactionEach /\ LaterUnsent /\ RefusedIsFinal)'
  BY <1>5
     DEF PreflightFails, TypeOK, UnderWay, OneTransactionEach, LaterUnsent, RefusedIsFinal, Unsent
<1>6. ASSUME NotSent PROVE (OneTransactionEach /\ LaterUnsent /\ RefusedIsFinal)'
  BY <1>6 DEF NotSent, TypeOK, UnderWay, OneTransactionEach, LaterUnsent, RefusedIsFinal, Unsent
<1>7. ASSUME Send("register", "register", "registered?")
      PROVE (OneTransactionEach /\ LaterUnsent /\ RefusedIsFinal)'
  <2>1. OneTransactionEach' /\ (\A other \in Kinds : other # "register" /\ Unsent(other) => Unsent(other)')
    BY <1>7, SentOnce DEF LaterUnsent
  <2>2. LaterUnsent'
    BY <1>7, <2>1 DEF LaterUnsent
  <2>3. RefusedIsFinal'
    BY <1>7 DEF RefusedIsFinal, UnderWay
  <2> QED
    BY <2>1, <2>2, <2>3
<1>8. ASSUME RegisterUnsure PROVE (OneTransactionEach /\ LaterUnsent /\ RefusedIsFinal)'
  <2>1. OneTransactionEach' /\ (\A other \in Kinds : other # "register" /\ Unsent(other) => Unsent(other)')
    BY <1>8, SentOnce DEF RegisterUnsure, LaterUnsent
  <2>2. LaterUnsent'
    BY <1>8, <2>1 DEF RegisterUnsure, LaterUnsent
  <2>3. RefusedIsFinal'
    BY <1>8 DEF RegisterUnsure, RefusedIsFinal, UnderWay
  <2> QED
    BY <2>1, <2>2, <2>3
<1>9. ASSUME RegisterEnds PROVE (OneTransactionEach /\ LaterUnsent /\ RefusedIsFinal)'
  <2>0. pc' = "lookup" => /\ status[<<"register", n>>] # "ok"
                          /\ \A tx \in pool : tx[2] # n
    BY <1>9 DEF RegisterEnds, OneTransactionEach, LaterUnsent, Unsent, TypeOK
  <2>1. OneTransactionEach'
    BY <1>9 DEF RegisterEnds, OneTransactionEach
  <2>2. LaterUnsent'
    BY <1>9, <2>0 DEF RegisterEnds, LaterUnsent, Unsent
  <2>3. RefusedIsFinal'
    BY <1>9 DEF RegisterEnds, RefusedIsFinal, UnderWay, LaterUnsent
  <2> QED
    BY <2>1, <2>2, <2>3
<1>10. ASSUME RegisterUnconfirmed PROVE (OneTransactionEach /\ LaterUnsent /\ RefusedIsFinal)'
  BY <1>10
     DEF RegisterUnconfirmed, TypeOK, UnderWay, OneTransactionEach, LaterUnsent, RefusedIsFinal, Unsent
<1>11. ASSUME Lookup PROVE (OneTransactionEach /\ LaterUnsent /\ RefusedIsFinal)'
  <2>1. OneTransactionEach'
    BY <1>11 DEF Lookup, OneTransactionEach
  <2>2. LaterUnsent'
    BY <1>11 DEF Lookup, LaterUnsent, Unsent
  <2>3. RefusedIsFinal'
    BY <1>11 DEF Lookup, RefusedIsFinal, UnderWay, LaterUnsent
  <2> QED
    BY <2>1, <2>2, <2>3
<1>12. ASSUME Inputs PROVE (OneTransactionEach /\ LaterUnsent /\ RefusedIsFinal)'
  BY <1>12
     DEF Inputs, PushWave, Wave, TypeOK, UnderWay, OneTransactionEach, LaterUnsent, RefusedIsFinal, Unsent
<1>13. ASSUME PushDone PROVE (OneTransactionEach /\ LaterUnsent /\ RefusedIsFinal)'
  BY <1>13 DEF PushDone, TypeOK, UnderWay, OneTransactionEach, LaterUnsent, RefusedIsFinal, Unsent
<1>14. ASSUME ManifestWave PROVE (OneTransactionEach /\ LaterUnsent /\ RefusedIsFinal)'
  BY <1>14
     DEF ManifestWave, Wave, TypeOK, UnderWay, OneTransactionEach, LaterUnsent, RefusedIsFinal, Unsent
<1>15. ASSUME ManifestWaveFails PROVE (OneTransactionEach /\ LaterUnsent /\ RefusedIsFinal)'
  BY <1>15
     DEF ManifestWaveFails, TypeOK, UnderWay, OneTransactionEach, LaterUnsent, RefusedIsFinal, Unsent
<1>16. ASSUME ManifestDone PROVE (OneTransactionEach /\ LaterUnsent /\ RefusedIsFinal)'
  BY <1>16
     DEF ManifestDone, TypeOK, UnderWay, OneTransactionEach, LaterUnsent, RefusedIsFinal, Unsent
<1>17. ASSUME NEW k \in Ops, NEW t \in Targets, TakeAck(k, t)
      PROVE (OneTransactionEach /\ LaterUnsent /\ RefusedIsFinal)'
  BY <1>17 DEF TakeAck, TypeOK, UnderWay, OneTransactionEach, LaterUnsent, RefusedIsFinal, Unsent
<1>18. ASSUME NEW k \in Ops, NEW t \in Targets, PushRetry(k, t)
      PROVE (OneTransactionEach /\ LaterUnsent /\ RefusedIsFinal)'
  BY <1>18 DEF PushRetry, TypeOK, UnderWay, OneTransactionEach, LaterUnsent, RefusedIsFinal, Unsent
<1>19. ASSUME NEW k \in Ops, NEW t \in Targets, RepushRetry(k, t)
      PROVE (OneTransactionEach /\ LaterUnsent /\ RefusedIsFinal)'
  BY <1>19
     DEF RepushRetry, TypeOK, UnderWay, OneTransactionEach, LaterUnsent, RefusedIsFinal, Unsent
<1>20. ASSUME NEW k \in Ops, NEW t \in Targets, RepushGivesUp(k, t)
      PROVE (OneTransactionEach /\ LaterUnsent /\ RefusedIsFinal)'
  BY <1>20
     DEF RepushGivesUp, TypeOK, UnderWay, OneTransactionEach, LaterUnsent, RefusedIsFinal, Unsent
<1>21. ASSUME StaysPending PROVE (OneTransactionEach /\ LaterUnsent /\ RefusedIsFinal)'
  BY <1>21
     DEF StaysPending, TypeOK, UnderWay, OneTransactionEach, LaterUnsent, RefusedIsFinal, Unsent
<1>22. ASSUME CoverageSeen PROVE (OneTransactionEach /\ LaterUnsent /\ RefusedIsFinal)'
  BY <1>22
     DEF CoverageSeen, CanActivate, TypeOK, UnderWay, OneTransactionEach, LaterUnsent, RefusedIsFinal, Unsent
<1>23. ASSUME Send("activate", "activate", "activated?")
      PROVE (OneTransactionEach /\ LaterUnsent /\ RefusedIsFinal)'
  <2>1. OneTransactionEach' /\ (\A other \in Kinds : other # "activate" /\ Unsent(other) => Unsent(other)')
    BY <1>23, SentOnce DEF LaterUnsent
  <2>2. LaterUnsent'
    BY <1>23, <2>1 DEF LaterUnsent
  <2>3. RefusedIsFinal'
    BY <1>23 DEF RefusedIsFinal, UnderWay
  <2> QED
    BY <2>1, <2>2, <2>3
<1>24. ASSUME ActivateUnsure PROVE (OneTransactionEach /\ LaterUnsent /\ RefusedIsFinal)'
  <2>1. OneTransactionEach' /\ (\A other \in Kinds : other # "activate" /\ Unsent(other) => Unsent(other)')
    BY <1>24, SentOnce DEF ActivateUnsure, LaterUnsent
  <2>2. LaterUnsent'
    BY <1>24, <2>1 DEF ActivateUnsure, LaterUnsent
  <2>3. RefusedIsFinal'
    BY <1>24 DEF ActivateUnsure, RefusedIsFinal, UnderWay
  <2> QED
    BY <2>1, <2>2, <2>3
<1>25. ASSUME ActivateEnds PROVE (OneTransactionEach /\ LaterUnsent /\ RefusedIsFinal)'
  BY <1>25
     DEF ActivateEnds, TypeOK, UnderWay, OneTransactionEach, LaterUnsent, RefusedIsFinal, Unsent
<1>26. ASSUME ResumeInfo PROVE (OneTransactionEach /\ LaterUnsent /\ RefusedIsFinal)'
  <2>1. OneTransactionEach'
    BY <1>26 DEF ResumeInfo, OneTransactionEach
  <2>2. LaterUnsent'
    BY <1>26 DEF ResumeInfo, LaterUnsent, Unsent
  <2>3. RefusedIsFinal'
    BY <1>26 DEF ResumeInfo, RefusedIsFinal, UnderWay, LaterUnsent
  <2> QED
    BY <2>1, <2>2, <2>3
<1>27. ASSUME ResumeCoverage PROVE (OneTransactionEach /\ LaterUnsent /\ RefusedIsFinal)'
  BY <1>27
     DEF ResumeCoverage, TypeOK, UnderWay, OneTransactionEach, LaterUnsent, RefusedIsFinal, Unsent
<1>28. ASSUME ResumeMissing PROVE (OneTransactionEach /\ LaterUnsent /\ RefusedIsFinal)'
  BY <1>28
     DEF ResumeMissing, PushWave, Wave, TypeOK, UnderWay, OneTransactionEach, LaterUnsent, RefusedIsFinal, Unsent
<1>29. ASSUME RepushStart PROVE (OneTransactionEach /\ LaterUnsent /\ RefusedIsFinal)'
  BY <1>29
     DEF RepushStart, Wave, TypeOK, UnderWay, OneTransactionEach, LaterUnsent, RefusedIsFinal, Unsent
<1>30. ASSUME RepushRefused PROVE (OneTransactionEach /\ LaterUnsent /\ RefusedIsFinal)'
  BY <1>30
     DEF RepushRefused, TypeOK, UnderWay, OneTransactionEach, LaterUnsent, RefusedIsFinal, Unsent
<1>31. ASSUME RepushManifests PROVE (OneTransactionEach /\ LaterUnsent /\ RefusedIsFinal)'
  BY <1>31
     DEF RepushManifests, Wave, TypeOK, UnderWay, OneTransactionEach, LaterUnsent, RefusedIsFinal, Unsent
<1>32. ASSUME RepushReports PROVE (OneTransactionEach /\ LaterUnsent /\ RefusedIsFinal)'
  BY <1>32
     DEF RepushReports, TypeOK, UnderWay, OneTransactionEach, LaterUnsent, RefusedIsFinal, Unsent
<1>33. ASSUME AbandonCheck PROVE (OneTransactionEach /\ LaterUnsent /\ RefusedIsFinal)'
  <2>1. OneTransactionEach'
    BY <1>33 DEF AbandonCheck, OneTransactionEach
  <2>2. LaterUnsent'
    BY <1>33 DEF AbandonCheck, LaterUnsent, Unsent
  <2>3. RefusedIsFinal'
    BY <1>33 DEF AbandonCheck, RefusedIsFinal, UnderWay, LaterUnsent
  <2> QED
    BY <2>1, <2>2, <2>3
<1>34. ASSUME Send("abandon", "abandon!", "abandoned?")
      PROVE (OneTransactionEach /\ LaterUnsent /\ RefusedIsFinal)'
  <2>1. OneTransactionEach' /\ (\A other \in Kinds : other # "abandon" /\ Unsent(other) => Unsent(other)')
    BY <1>34, SentOnce DEF LaterUnsent
  <2>2. LaterUnsent'
    BY <1>34, <2>1 DEF LaterUnsent
  <2>3. RefusedIsFinal'
    BY <1>34 DEF RefusedIsFinal, UnderWay
  <2> QED
    BY <2>1, <2>2, <2>3
<1>35. ASSUME AbandonUnsure PROVE (OneTransactionEach /\ LaterUnsent /\ RefusedIsFinal)'
  <2>1. OneTransactionEach' /\ (\A other \in Kinds : other # "abandon" /\ Unsent(other) => Unsent(other)')
    BY <1>35, SentOnce DEF AbandonUnsure, LaterUnsent
  <2>2. LaterUnsent'
    BY <1>35, <2>1 DEF AbandonUnsure, LaterUnsent
  <2>3. RefusedIsFinal'
    BY <1>35 DEF AbandonUnsure, RefusedIsFinal, UnderWay
  <2> QED
    BY <2>1, <2>2, <2>3
<1>36. ASSUME AbandonEnds PROVE (OneTransactionEach /\ LaterUnsent /\ RefusedIsFinal)'
  BY <1>36
     DEF AbandonEnds, TypeOK, UnderWay, OneTransactionEach, LaterUnsent, RefusedIsFinal, Unsent
<1>37. ASSUME NEW kind \in Kinds, NEW k \in Ops, Execute(kind, k)
      PROVE (OneTransactionEach /\ LaterUnsent /\ RefusedIsFinal)'
  <2>1. PICK o \in {"ok", "failed"} : status' = [status EXCEPT ![<<kind, k>>] = o]
    BY <1>37 DEF Execute
  <2> QED
    BY <1>37, <2>1, LeavesPool DEF Execute, TypeOK
<1>38. ASSUME NEW kind \in Kinds, NEW k \in Ops, NEW m \in 0..nonce, Drop(kind, k, m)
      PROVE (OneTransactionEach /\ LaterUnsent /\ RefusedIsFinal)'
  <2>1. m \in Nat
    BY DEF TypeOK
  <2> QED
    BY <1>38, <2>1, LeavesPool DEF Drop
<1>39. ASSUME NEW k \in 0..MaxOps, NEW x \in Items, NEW a \in Archives, Accept(k, x, a)
      PROVE (OneTransactionEach /\ LaterUnsent /\ RefusedIsFinal)'
  BY <1>39
     DEF Accept, Answer, TypeOK, UnderWay, OneTransactionEach, LaterUnsent, RefusedIsFinal, Unsent
<1>40. ASSUME NEW k \in 0..MaxOps, NEW x \in Items, NEW a \in Archives, Refuse(k, x, a)
      PROVE (OneTransactionEach /\ LaterUnsent /\ RefusedIsFinal)'
  BY <1>40
     DEF Refuse, Answer, TypeOK, UnderWay, OneTransactionEach, LaterUnsent, RefusedIsFinal, Unsent
<1>41. ASSUME NEW c \in Chunks, NEW a \in Archives, Attest(c, a)
      PROVE (OneTransactionEach /\ LaterUnsent /\ RefusedIsFinal)'
  BY <1>41 DEF Attest, TypeOK, UnderWay, OneTransactionEach, LaterUnsent, RefusedIsFinal, Unsent
<1>42. ASSUME NEW a \in Archives, Leave(a)
      PROVE (OneTransactionEach /\ LaterUnsent /\ RefusedIsFinal)'
  BY <1>42 DEF Leave, TypeOK, UnderWay, OneTransactionEach, LaterUnsent, RefusedIsFinal, Unsent
<1>43. ASSUME Block PROVE (OneTransactionEach /\ LaterUnsent /\ RefusedIsFinal)'
  BY <1>43 DEF Block, TypeOK, UnderWay, OneTransactionEach, LaterUnsent, RefusedIsFinal, Unsent
<1>44. ASSUME Reassign PROVE (OneTransactionEach /\ LaterUnsent /\ RefusedIsFinal)'
  BY <1>44 DEF Reassign, TypeOK, UnderWay, OneTransactionEach, LaterUnsent, RefusedIsFinal, Unsent
<1>45. ASSUME UNCHANGED vars PROVE (OneTransactionEach /\ LaterUnsent /\ RefusedIsFinal)'
  BY <1>45 DEF vars, TypeOK, UnderWay, OneTransactionEach, LaterUnsent, RefusedIsFinal, Unsent
<1> QED
  BY <1>1, <1>2, <1>3, <1>4, <1>5, <1>6, <1>7, <1>8, <1>9, <1>10, <1>11,
     <1>12, <1>13, <1>14, <1>15, <1>16, <1>17, <1>18, <1>19, <1>20, <1>21, <1>22,
     <1>23, <1>24, <1>25, <1>26, <1>27, <1>28, <1>29, <1>30, <1>31, <1>32, <1>33,
     <1>34, <1>35, <1>36, <1>37, <1>38, <1>39, <1>40, <1>41, <1>42, <1>43, <1>44,
     <1>45
  DEF Next, Command, Environment
\* Layer 4: the height only grows and the creation height is set once, so the check
\* of the grace period still holds when the abandon is sent and when it executes.
LEMMA GracePreserved ==
    TypeOK /\ UnderWay /\ GraceIsOver /\ AbandonNotPremature /\ [Next]_vars
      => (GraceIsOver /\ AbandonNotPremature)'
<1> SUFFICES ASSUME TypeOK /\ UnderWay /\ GraceIsOver /\ AbandonNotPremature, [Next]_vars
      PROVE (GraceIsOver /\ AbandonNotPremature)'
  OBVIOUS
<1> USE IngestAssumption
<1>1. ASSUME NEW command \in Cmds, Start(command) PROVE (GraceIsOver /\ AbandonNotPremature)'
  BY <1>1 DEF Start, FirstStage, TypeOK, UnderWay, GraceIsOver, AbandonNotPremature
<1>2. ASSUME Die PROVE (GraceIsOver /\ AbandonNotPremature)'
  BY <1>2 DEF Die, TypeOK, UnderWay, GraceIsOver, AbandonNotPremature
<1>3. ASSUME Fails PROVE (GraceIsOver /\ AbandonNotPremature)'
  BY <1>3 DEF Fails, TypeOK, UnderWay, GraceIsOver, AbandonNotPremature
<1>4. ASSUME S1aOk PROVE (GraceIsOver /\ AbandonNotPremature)'
  BY <1>4 DEF S1aOk, TypeOK, UnderWay, GraceIsOver, AbandonNotPremature
<1>5. ASSUME PreflightFails PROVE (GraceIsOver /\ AbandonNotPremature)'
  BY <1>5 DEF PreflightFails, TypeOK, UnderWay, GraceIsOver, AbandonNotPremature
<1>6. ASSUME NotSent PROVE (GraceIsOver /\ AbandonNotPremature)'
  BY <1>6 DEF NotSent, TypeOK, UnderWay, GraceIsOver, AbandonNotPremature
<1>7. ASSUME Send("register", "register", "registered?")
      PROVE (GraceIsOver /\ AbandonNotPremature)'
  BY <1>7 DEF TypeOK, UnderWay, GraceIsOver, AbandonNotPremature
<1>8. ASSUME RegisterUnsure PROVE (GraceIsOver /\ AbandonNotPremature)'
  BY <1>8 DEF RegisterUnsure, TypeOK, UnderWay, GraceIsOver, AbandonNotPremature
<1>9. ASSUME RegisterEnds PROVE (GraceIsOver /\ AbandonNotPremature)'
  BY <1>9 DEF RegisterEnds, TypeOK, UnderWay, GraceIsOver, AbandonNotPremature
<1>10. ASSUME RegisterUnconfirmed PROVE (GraceIsOver /\ AbandonNotPremature)'
  BY <1>10 DEF RegisterUnconfirmed, TypeOK, UnderWay, GraceIsOver, AbandonNotPremature
<1>11. ASSUME Lookup PROVE (GraceIsOver /\ AbandonNotPremature)'
  BY <1>11 DEF Lookup, TypeOK, UnderWay, GraceIsOver, AbandonNotPremature
<1>12. ASSUME Inputs PROVE (GraceIsOver /\ AbandonNotPremature)'
  BY <1>12 DEF Inputs, PushWave, Wave, TypeOK, UnderWay, GraceIsOver, AbandonNotPremature
<1>13. ASSUME PushDone PROVE (GraceIsOver /\ AbandonNotPremature)'
  BY <1>13 DEF PushDone, TypeOK, UnderWay, GraceIsOver, AbandonNotPremature
<1>14. ASSUME ManifestWave PROVE (GraceIsOver /\ AbandonNotPremature)'
  BY <1>14 DEF ManifestWave, Wave, TypeOK, UnderWay, GraceIsOver, AbandonNotPremature
<1>15. ASSUME ManifestWaveFails PROVE (GraceIsOver /\ AbandonNotPremature)'
  BY <1>15 DEF ManifestWaveFails, TypeOK, UnderWay, GraceIsOver, AbandonNotPremature
<1>16. ASSUME ManifestDone PROVE (GraceIsOver /\ AbandonNotPremature)'
  BY <1>16 DEF ManifestDone, TypeOK, UnderWay, GraceIsOver, AbandonNotPremature
<1>17. ASSUME NEW k \in Ops, NEW t \in Targets, TakeAck(k, t)
      PROVE (GraceIsOver /\ AbandonNotPremature)'
  BY <1>17 DEF TakeAck, TypeOK, UnderWay, GraceIsOver, AbandonNotPremature
<1>18. ASSUME NEW k \in Ops, NEW t \in Targets, PushRetry(k, t)
      PROVE (GraceIsOver /\ AbandonNotPremature)'
  BY <1>18 DEF PushRetry, TypeOK, UnderWay, GraceIsOver, AbandonNotPremature
<1>19. ASSUME NEW k \in Ops, NEW t \in Targets, RepushRetry(k, t)
      PROVE (GraceIsOver /\ AbandonNotPremature)'
  BY <1>19 DEF RepushRetry, TypeOK, UnderWay, GraceIsOver, AbandonNotPremature
<1>20. ASSUME NEW k \in Ops, NEW t \in Targets, RepushGivesUp(k, t)
      PROVE (GraceIsOver /\ AbandonNotPremature)'
  BY <1>20 DEF RepushGivesUp, TypeOK, UnderWay, GraceIsOver, AbandonNotPremature
<1>21. ASSUME StaysPending PROVE (GraceIsOver /\ AbandonNotPremature)'
  BY <1>21 DEF StaysPending, TypeOK, UnderWay, GraceIsOver, AbandonNotPremature
<1>22. ASSUME CoverageSeen PROVE (GraceIsOver /\ AbandonNotPremature)'
  BY <1>22 DEF CoverageSeen, CanActivate, TypeOK, UnderWay, GraceIsOver, AbandonNotPremature
<1>23. ASSUME Send("activate", "activate", "activated?")
      PROVE (GraceIsOver /\ AbandonNotPremature)'
  BY <1>23 DEF TypeOK, UnderWay, GraceIsOver, AbandonNotPremature
<1>24. ASSUME ActivateUnsure PROVE (GraceIsOver /\ AbandonNotPremature)'
  BY <1>24 DEF ActivateUnsure, TypeOK, UnderWay, GraceIsOver, AbandonNotPremature
<1>25. ASSUME ActivateEnds PROVE (GraceIsOver /\ AbandonNotPremature)'
  BY <1>25 DEF ActivateEnds, TypeOK, UnderWay, GraceIsOver, AbandonNotPremature
<1>26. ASSUME ResumeInfo PROVE (GraceIsOver /\ AbandonNotPremature)'
  BY <1>26 DEF ResumeInfo, TypeOK, UnderWay, GraceIsOver, AbandonNotPremature
<1>27. ASSUME ResumeCoverage PROVE (GraceIsOver /\ AbandonNotPremature)'
  BY <1>27 DEF ResumeCoverage, TypeOK, UnderWay, GraceIsOver, AbandonNotPremature
<1>28. ASSUME ResumeMissing PROVE (GraceIsOver /\ AbandonNotPremature)'
  BY <1>28 DEF ResumeMissing, PushWave, Wave, TypeOK, UnderWay, GraceIsOver, AbandonNotPremature
<1>29. ASSUME RepushStart PROVE (GraceIsOver /\ AbandonNotPremature)'
  BY <1>29 DEF RepushStart, Wave, TypeOK, UnderWay, GraceIsOver, AbandonNotPremature
<1>30. ASSUME RepushRefused PROVE (GraceIsOver /\ AbandonNotPremature)'
  BY <1>30 DEF RepushRefused, TypeOK, UnderWay, GraceIsOver, AbandonNotPremature
<1>31. ASSUME RepushManifests PROVE (GraceIsOver /\ AbandonNotPremature)'
  BY <1>31 DEF RepushManifests, Wave, TypeOK, UnderWay, GraceIsOver, AbandonNotPremature
<1>32. ASSUME RepushReports PROVE (GraceIsOver /\ AbandonNotPremature)'
  BY <1>32 DEF RepushReports, TypeOK, UnderWay, GraceIsOver, AbandonNotPremature
<1>33. ASSUME AbandonCheck PROVE (GraceIsOver /\ AbandonNotPremature)'
  BY <1>33 DEF AbandonCheck, TypeOK, UnderWay, GraceIsOver, AbandonNotPremature
<1>34. ASSUME Send("abandon", "abandon!", "abandoned?")
      PROVE (GraceIsOver /\ AbandonNotPremature)'
  BY <1>34 DEF TypeOK, UnderWay, GraceIsOver, AbandonNotPremature
<1>35. ASSUME AbandonUnsure PROVE (GraceIsOver /\ AbandonNotPremature)'
  BY <1>35 DEF AbandonUnsure, TypeOK, UnderWay, GraceIsOver, AbandonNotPremature
<1>36. ASSUME AbandonEnds PROVE (GraceIsOver /\ AbandonNotPremature)'
  BY <1>36 DEF AbandonEnds, TypeOK, UnderWay, GraceIsOver, AbandonNotPremature
<1>37. ASSUME NEW kind \in Kinds, NEW k \in Ops, Execute(kind, k)
      PROVE (GraceIsOver /\ AbandonNotPremature)'
  BY <1>37 DEF Execute, CanActivate, TypeOK, UnderWay, GraceIsOver, AbandonNotPremature
<1>38. ASSUME NEW kind \in Kinds, NEW k \in Ops, NEW m \in 0..nonce, Drop(kind, k, m)
      PROVE (GraceIsOver /\ AbandonNotPremature)'
  BY <1>38 DEF Drop, TypeOK, UnderWay, GraceIsOver, AbandonNotPremature
<1>39. ASSUME NEW k \in 0..MaxOps, NEW x \in Items, NEW a \in Archives, Accept(k, x, a)
      PROVE (GraceIsOver /\ AbandonNotPremature)'
  BY <1>39 DEF Accept, Answer, TypeOK, UnderWay, GraceIsOver, AbandonNotPremature
<1>40. ASSUME NEW k \in 0..MaxOps, NEW x \in Items, NEW a \in Archives, Refuse(k, x, a)
      PROVE (GraceIsOver /\ AbandonNotPremature)'
  BY <1>40 DEF Refuse, Answer, TypeOK, UnderWay, GraceIsOver, AbandonNotPremature
<1>41. ASSUME NEW c \in Chunks, NEW a \in Archives, Attest(c, a)
      PROVE (GraceIsOver /\ AbandonNotPremature)'
  BY <1>41 DEF Attest, TypeOK, UnderWay, GraceIsOver, AbandonNotPremature
<1>42. ASSUME NEW a \in Archives, Leave(a) PROVE (GraceIsOver /\ AbandonNotPremature)'
  BY <1>42 DEF Leave, TypeOK, UnderWay, GraceIsOver, AbandonNotPremature
<1>43. ASSUME Block PROVE (GraceIsOver /\ AbandonNotPremature)'
  BY <1>43 DEF Block, TypeOK, UnderWay, GraceIsOver, AbandonNotPremature
<1>44. ASSUME Reassign PROVE (GraceIsOver /\ AbandonNotPremature)'
  BY <1>44 DEF Reassign, TypeOK, UnderWay, GraceIsOver, AbandonNotPremature
<1>45. ASSUME UNCHANGED vars PROVE (GraceIsOver /\ AbandonNotPremature)'
  BY <1>45 DEF vars, TypeOK, UnderWay, GraceIsOver, AbandonNotPremature
<1> QED
  BY <1>1, <1>2, <1>3, <1>4, <1>5, <1>6, <1>7, <1>8, <1>9, <1>10, <1>11,
     <1>12, <1>13, <1>14, <1>15, <1>16, <1>17, <1>18, <1>19, <1>20, <1>21, <1>22,
     <1>23, <1>24, <1>25, <1>26, <1>27, <1>28, <1>29, <1>30, <1>31, <1>32, <1>33,
     <1>34, <1>35, <1>36, <1>37, <1>38, <1>39, <1>40, <1>41, <1>42, <1>43, <1>44,
     <1>45
  DEF Next, Command, Environment
\* The archives that the pairs of S name for chunk c.
HoldersOf(S, c) == {a \in Archives : <<c, a>> \in S}

\* Distinct acknowledged pairs of a chunk are distinct archives.
LEMMA DistinctArchives ==
    ASSUME NEW S \in SUBSET Targets, NEW c
    PROVE  Cardinality({t \in S : t[1] = c}) <= Cardinality(HoldersOf(S, c))
<1> DEFINE From == {t \in S : t[1] = c}
           To   == HoldersOf(S, c)
           f    == [t \in From |-> t[2]]
<1>1. IsFiniteSet(To)
  BY IngestAssumption, FS_Subset DEF HoldersOf
<1>2. f \in [From -> To]
  BY DEF HoldersOf
<1>3. \A s, t \in From : f[s] = f[t] => s = t
  OBVIOUS
<1>4. f \in Injection(From, To)
  BY <1>2, <1>3 DEF Injection, IsInjective
<1> QED
  BY <1>1, <1>4, FS_Injection

\* Storing more leaves no chunk with fewer holders.
LEMMA MoreHolders ==
    ASSUME NEW S, NEW T, S \subseteq T, NEW c
    PROVE  /\ Cardinality(HoldersOf(S, c)) \in Nat
           /\ Cardinality(HoldersOf(T, c)) \in Nat
           /\ Cardinality(HoldersOf(S, c))
                 <= Cardinality(HoldersOf(T, c))
<1> DEFINE HS == HoldersOf(S, c)
           HT == HoldersOf(T, c)
<1>1. IsFiniteSet(HT) /\ IsFiniteSet(HS)
  BY IngestAssumption, FS_Subset DEF HoldersOf
<1>2. HS \in SUBSET HT
  BY DEF HoldersOf
<1> HIDE DEF HS, HT
<1>3. Cardinality(HS) \in Nat /\ Cardinality(HT) \in Nat /\ Cardinality(HS) <= Cardinality(HT)
  BY <1>1, <1>2, FS_Subset, FS_CardinalityType
<1> QED
  BY <1>3 DEF HS, HT

\* Layer 5: the acknowledgements counted at the end of a wave are of distinct
\* archives that hold the chunk, and nothing is deleted under a running command.
LEMMA ReplicationPreserved ==
    TypeOK /\ UnderWay /\ AnswersAreTrue /\ ManifestTargets /\ PushedIsReplicated /\ [Next]_vars
      => (ManifestTargets /\ PushedIsReplicated)'
<1> SUFFICES ASSUME TypeOK /\ UnderWay /\ AnswersAreTrue /\ ManifestTargets /\ PushedIsReplicated, [Next]_vars
      PROVE (ManifestTargets /\ PushedIsReplicated)'
  OBVIOUS
<1> USE IngestAssumption
<1>1. ASSUME NEW command \in Cmds, Start(command) PROVE (ManifestTargets /\ PushedIsReplicated)'
  BY <1>1
     DEF Start, FirstStage, TypeOK, UnderWay, AnswersAreTrue, ManifestTargets, PushedIsReplicated
<1>2. ASSUME Die PROVE (ManifestTargets /\ PushedIsReplicated)'
  BY <1>2 DEF Die, TypeOK, UnderWay, AnswersAreTrue, ManifestTargets, PushedIsReplicated
<1>3. ASSUME Fails PROVE (ManifestTargets /\ PushedIsReplicated)'
  BY <1>3 DEF Fails, TypeOK, UnderWay, AnswersAreTrue, ManifestTargets, PushedIsReplicated
<1>4. ASSUME S1aOk PROVE (ManifestTargets /\ PushedIsReplicated)'
  BY <1>4 DEF S1aOk, TypeOK, UnderWay, AnswersAreTrue, ManifestTargets, PushedIsReplicated
<1>5. ASSUME PreflightFails PROVE (ManifestTargets /\ PushedIsReplicated)'
  BY <1>5 DEF PreflightFails, TypeOK, UnderWay, AnswersAreTrue, ManifestTargets, PushedIsReplicated
<1>6. ASSUME NotSent PROVE (ManifestTargets /\ PushedIsReplicated)'
  BY <1>6 DEF NotSent, TypeOK, UnderWay, AnswersAreTrue, ManifestTargets, PushedIsReplicated
<1>7. ASSUME Send("register", "register", "registered?")
      PROVE (ManifestTargets /\ PushedIsReplicated)'
  BY <1>7 DEF TypeOK, UnderWay, AnswersAreTrue, ManifestTargets, PushedIsReplicated
<1>8. ASSUME RegisterUnsure PROVE (ManifestTargets /\ PushedIsReplicated)'
  BY <1>8 DEF RegisterUnsure, TypeOK, UnderWay, AnswersAreTrue, ManifestTargets, PushedIsReplicated
<1>9. ASSUME RegisterEnds PROVE (ManifestTargets /\ PushedIsReplicated)'
  BY <1>9 DEF RegisterEnds, TypeOK, UnderWay, AnswersAreTrue, ManifestTargets, PushedIsReplicated
<1>10. ASSUME RegisterUnconfirmed PROVE (ManifestTargets /\ PushedIsReplicated)'
  BY <1>10
     DEF RegisterUnconfirmed, TypeOK, UnderWay, AnswersAreTrue, ManifestTargets, PushedIsReplicated
<1>11. ASSUME Lookup PROVE (ManifestTargets /\ PushedIsReplicated)'
  BY <1>11 DEF Lookup, TypeOK, UnderWay, AnswersAreTrue, ManifestTargets, PushedIsReplicated
<1>12. ASSUME Inputs PROVE (ManifestTargets /\ PushedIsReplicated)'
  BY <1>12
     DEF Inputs, PushWave, Wave, TypeOK, UnderWay, AnswersAreTrue, ManifestTargets, PushedIsReplicated
<1>13. ASSUME PushDone PROVE (ManifestTargets /\ PushedIsReplicated)'
  <2>1. ASSUME NEW c \in todo PROVE Cardinality(HoldersOf(holders, c)) >= R
    <3>1. acked \in SUBSET Targets
      BY DEF TypeOK
    <3>2. Cardinality({t \in acked : t[1] = c}) >= R
      BY <1>13 DEF PushDone, Replicated
    <3>3. Cardinality({t \in acked : t[1] = c}) <= Cardinality(HoldersOf(acked, c))
      BY <3>1, DistinctArchives
    <3>4. Cardinality({t \in acked : t[1] = c}) \in Nat
      <4>1. IsFiniteSet(Targets)
        BY FS_Product, FS_AddElement
      <4>2. {t \in acked : t[1] = c} \in SUBSET Targets
        BY <3>1
      <4> QED
        BY <4>1, <4>2, FS_Subset, FS_CardinalityType
    <3>5. /\ Cardinality(HoldersOf(acked, c)) \in Nat
          /\ Cardinality(HoldersOf(holders, c)) \in Nat
          /\ Cardinality(HoldersOf(acked, c))
                <= Cardinality(HoldersOf(holders, c))
      BY MoreHolders DEF AnswersAreTrue
    <3> QED
      BY <3>2, <3>3, <3>4, <3>5
  <2> QED
    BY <1>13, <2>1 DEF HoldersOf, PushDone, UnderWay, ManifestTargets, PushedIsReplicated
<1>14. ASSUME ManifestWave PROVE (ManifestTargets /\ PushedIsReplicated)'
  BY <1>14
     DEF ManifestWave, Wave, TypeOK, UnderWay, AnswersAreTrue, ManifestTargets, PushedIsReplicated
<1>15. ASSUME ManifestWaveFails PROVE (ManifestTargets /\ PushedIsReplicated)'
  BY <1>15
     DEF ManifestWaveFails, TypeOK, UnderWay, AnswersAreTrue, ManifestTargets, PushedIsReplicated
<1>16. ASSUME ManifestDone PROVE (ManifestTargets /\ PushedIsReplicated)'
  BY <1>16 DEF ManifestDone, TypeOK, UnderWay, AnswersAreTrue, ManifestTargets, PushedIsReplicated
<1>17. ASSUME NEW k \in Ops, NEW t \in Targets, TakeAck(k, t)
      PROVE (ManifestTargets /\ PushedIsReplicated)'
  BY <1>17 DEF TakeAck, TypeOK, UnderWay, AnswersAreTrue, ManifestTargets, PushedIsReplicated
<1>18. ASSUME NEW k \in Ops, NEW t \in Targets, PushRetry(k, t)
      PROVE (ManifestTargets /\ PushedIsReplicated)'
  BY <1>18 DEF PushRetry, TypeOK, UnderWay, AnswersAreTrue, ManifestTargets, PushedIsReplicated
<1>19. ASSUME NEW k \in Ops, NEW t \in Targets, RepushRetry(k, t)
      PROVE (ManifestTargets /\ PushedIsReplicated)'
  BY <1>19 DEF RepushRetry, TypeOK, UnderWay, AnswersAreTrue, ManifestTargets, PushedIsReplicated
<1>20. ASSUME NEW k \in Ops, NEW t \in Targets, RepushGivesUp(k, t)
      PROVE (ManifestTargets /\ PushedIsReplicated)'
  BY <1>20 DEF RepushGivesUp, TypeOK, UnderWay, AnswersAreTrue, ManifestTargets, PushedIsReplicated
<1>21. ASSUME StaysPending PROVE (ManifestTargets /\ PushedIsReplicated)'
  BY <1>21 DEF StaysPending, TypeOK, UnderWay, AnswersAreTrue, ManifestTargets, PushedIsReplicated
<1>22. ASSUME CoverageSeen PROVE (ManifestTargets /\ PushedIsReplicated)'
  BY <1>22
     DEF CoverageSeen, CanActivate, TypeOK, UnderWay, AnswersAreTrue, ManifestTargets, PushedIsReplicated
<1>23. ASSUME Send("activate", "activate", "activated?")
      PROVE (ManifestTargets /\ PushedIsReplicated)'
  BY <1>23 DEF TypeOK, UnderWay, AnswersAreTrue, ManifestTargets, PushedIsReplicated
<1>24. ASSUME ActivateUnsure PROVE (ManifestTargets /\ PushedIsReplicated)'
  BY <1>24 DEF ActivateUnsure, TypeOK, UnderWay, AnswersAreTrue, ManifestTargets, PushedIsReplicated
<1>25. ASSUME ActivateEnds PROVE (ManifestTargets /\ PushedIsReplicated)'
  BY <1>25 DEF ActivateEnds, TypeOK, UnderWay, AnswersAreTrue, ManifestTargets, PushedIsReplicated
<1>26. ASSUME ResumeInfo PROVE (ManifestTargets /\ PushedIsReplicated)'
  BY <1>26 DEF ResumeInfo, TypeOK, UnderWay, AnswersAreTrue, ManifestTargets, PushedIsReplicated
<1>27. ASSUME ResumeCoverage PROVE (ManifestTargets /\ PushedIsReplicated)'
  BY <1>27 DEF ResumeCoverage, TypeOK, UnderWay, AnswersAreTrue, ManifestTargets, PushedIsReplicated
<1>28. ASSUME ResumeMissing PROVE (ManifestTargets /\ PushedIsReplicated)'
  BY <1>28
     DEF ResumeMissing, PushWave, Wave, TypeOK, UnderWay, AnswersAreTrue, ManifestTargets, PushedIsReplicated
<1>29. ASSUME RepushStart PROVE (ManifestTargets /\ PushedIsReplicated)'
  BY <1>29
     DEF RepushStart, Wave, TypeOK, UnderWay, AnswersAreTrue, ManifestTargets, PushedIsReplicated
<1>30. ASSUME RepushRefused PROVE (ManifestTargets /\ PushedIsReplicated)'
  BY <1>30 DEF RepushRefused, TypeOK, UnderWay, AnswersAreTrue, ManifestTargets, PushedIsReplicated
<1>31. ASSUME RepushManifests PROVE (ManifestTargets /\ PushedIsReplicated)'
  BY <1>31
     DEF RepushManifests, Wave, TypeOK, UnderWay, AnswersAreTrue, ManifestTargets, PushedIsReplicated
<1>32. ASSUME RepushReports PROVE (ManifestTargets /\ PushedIsReplicated)'
  BY <1>32 DEF RepushReports, TypeOK, UnderWay, AnswersAreTrue, ManifestTargets, PushedIsReplicated
<1>33. ASSUME AbandonCheck PROVE (ManifestTargets /\ PushedIsReplicated)'
  BY <1>33 DEF AbandonCheck, TypeOK, UnderWay, AnswersAreTrue, ManifestTargets, PushedIsReplicated
<1>34. ASSUME Send("abandon", "abandon!", "abandoned?")
      PROVE (ManifestTargets /\ PushedIsReplicated)'
  BY <1>34 DEF TypeOK, UnderWay, AnswersAreTrue, ManifestTargets, PushedIsReplicated
<1>35. ASSUME AbandonUnsure PROVE (ManifestTargets /\ PushedIsReplicated)'
  BY <1>35 DEF AbandonUnsure, TypeOK, UnderWay, AnswersAreTrue, ManifestTargets, PushedIsReplicated
<1>36. ASSUME AbandonEnds PROVE (ManifestTargets /\ PushedIsReplicated)'
  BY <1>36 DEF AbandonEnds, TypeOK, UnderWay, AnswersAreTrue, ManifestTargets, PushedIsReplicated
<1>37. ASSUME NEW kind \in Kinds, NEW k \in Ops, Execute(kind, k)
      PROVE (ManifestTargets /\ PushedIsReplicated)'
  BY <1>37
     DEF Execute, CanActivate, TypeOK, UnderWay, AnswersAreTrue, ManifestTargets, PushedIsReplicated
<1>38. ASSUME NEW kind \in Kinds, NEW k \in Ops, NEW m \in 0..nonce, Drop(kind, k, m)
      PROVE (ManifestTargets /\ PushedIsReplicated)'
  BY <1>38 DEF Drop, TypeOK, UnderWay, AnswersAreTrue, ManifestTargets, PushedIsReplicated
<1>39. ASSUME NEW k \in 0..MaxOps, NEW x \in Items, NEW a \in Archives, Accept(k, x, a)
      PROVE (ManifestTargets /\ PushedIsReplicated)'
  <2>1. holders \subseteq holders' /\ UNCHANGED <<chain, n, cmd, pc, work>>
    BY <1>39 DEF Accept
  <2>2. \A c \in todo : /\ Cardinality(HoldersOf(holders, c)) \in Nat
                        /\ Cardinality(HoldersOf(holders', c)) \in Nat
                        /\ Cardinality(HoldersOf(holders, c))
                              <= Cardinality(HoldersOf(holders', c))
    BY <2>1, MoreHolders
  <2>3. pc \in {"s3", "manifest", "s4"} =>
          \A c \in todo : Cardinality(HoldersOf(holders', c)) >= R
    <3>1. pc \in {"s3", "manifest", "s4"} => \A c \in todo : Cardinality(HoldersOf(holders, c)) >= R
      BY DEF PushedIsReplicated, HoldersOf
    <3> QED
      BY <2>2, <3>1
  <2>4. pc = "s4" =>
          \A b \in AssignedTo(Chunks, snap) \cap reach : <<Manifest, b>> \in holders'
    BY <2>1 DEF PushedIsReplicated
  <2>5. AssignedTo(Chunks, snap)' = AssignedTo(Chunks, snap)
    BY <2>1 DEF AssignedTo
  <2> QED
    BY <2>1, <2>3, <2>4, <2>5 DEF HoldersOf, ManifestTargets, PushedIsReplicated
<1>40. ASSUME NEW k \in 0..MaxOps, NEW x \in Items, NEW a \in Archives, Refuse(k, x, a)
      PROVE (ManifestTargets /\ PushedIsReplicated)'
  BY <1>40 DEF Refuse, Answer, TypeOK, UnderWay, AnswersAreTrue, ManifestTargets, PushedIsReplicated
<1>41. ASSUME NEW c \in Chunks, NEW a \in Archives, Attest(c, a)
      PROVE (ManifestTargets /\ PushedIsReplicated)'
  BY <1>41 DEF Attest, TypeOK, UnderWay, AnswersAreTrue, ManifestTargets, PushedIsReplicated
<1>42. ASSUME NEW a \in Archives, Leave(a) PROVE (ManifestTargets /\ PushedIsReplicated)'
  BY <1>42 DEF Leave, TypeOK, UnderWay, AnswersAreTrue, ManifestTargets, PushedIsReplicated
<1>43. ASSUME Block PROVE (ManifestTargets /\ PushedIsReplicated)'
  BY <1>43 DEF Block, TypeOK, UnderWay, AnswersAreTrue, ManifestTargets, PushedIsReplicated
<1>44. ASSUME Reassign PROVE (ManifestTargets /\ PushedIsReplicated)'
  BY <1>44 DEF Reassign, TypeOK, UnderWay, AnswersAreTrue, ManifestTargets, PushedIsReplicated
<1>45. ASSUME UNCHANGED vars PROVE (ManifestTargets /\ PushedIsReplicated)'
  BY <1>45 DEF vars, TypeOK, UnderWay, AnswersAreTrue, ManifestTargets, PushedIsReplicated
<1> QED
  BY <1>1, <1>2, <1>3, <1>4, <1>5, <1>6, <1>7, <1>8, <1>9, <1>10, <1>11,
     <1>12, <1>13, <1>14, <1>15, <1>16, <1>17, <1>18, <1>19, <1>20, <1>21, <1>22,
     <1>23, <1>24, <1>25, <1>26, <1>27, <1>28, <1>29, <1>30, <1>31, <1>32, <1>33,
     <1>34, <1>35, <1>36, <1>37, <1>38, <1>39, <1>40, <1>41, <1>42, <1>43, <1>44,
     <1>45
  DEF Next, Command, Environment

-------------------------------------------------------------------------------
\* The invariant holds at the start ...
LEMMA InitEstablishes == Init => IInv
<1> SUFFICES ASSUME Init PROVE IInv
  OBVIOUS
<1> USE IngestAssumption
<1>1. TypeOK /\ UnderWay
  BY DEF Init, TypeOK, UnderWay
<1>2. AnswersAreTrue /\ EndsAreFinal /\ RepushEpoch
  BY DEF Init, AnswersAreTrue, EndsAreFinal, RepushEpoch
<1>3. OneTransactionEach /\ LaterUnsent /\ RefusedIsFinal
  BY DEF Init, OneTransactionEach, LaterUnsent, RefusedIsFinal
<1>4. GraceIsOver /\ AbandonNotPremature /\ ManifestTargets /\ PushedIsReplicated
  BY DEF Init, GraceIsOver, AbandonNotPremature, ManifestTargets, PushedIsReplicated
<1> QED
  BY <1>1, <1>2, <1>3, <1>4 DEF IInv

\* ... and in every state.
LEMMA InvariantHolds == Spec => []IInv
<1>1. IInv /\ [Next]_vars => IInv'
  BY TypingPreserved, StoredPreserved, TransactionsPreserved, GracePreserved,
     ReplicationPreserved DEF IInv
<1> QED
  BY <1>1, InitEstablishes, PTL DEF Spec

\* Every state of the owner's commands, the archives and the chain has its type,
\* for any number of chunks, archives and commands.
THEOREM TypeCorrect == Spec => []TypeOK
  BY InvariantHolds, PTL DEF IInv

\* run and resume leave S2 only with every chunk they pushed on R distinct
\* archives, and S3 only with the manifest on every archive they had a peer for.
THEOREM PushIsReplicated == Spec => []PushedIsReplicated
  BY InvariantHolds, PTL DEF IInv

\* An exit status of REFUSED or ALREADY_REGISTERED means that nothing this run
\* sent has registered the file or ever will.
THEOREM RefusalIsFinal == Spec => []RefusedIsFinal
  BY InvariantHolds, PTL DEF IInv

\* abandon sends nothing before the grace period is over.
THEOREM AbandonInTime == Spec => []AbandonNotPremature
  BY InvariantHolds, PTL DEF IInv

\* Every step of a command, an archive or the chain is a step of the abstract
\* lifecycle or leaves it alone.
LEMMA StepRefines == IInv /\ [Next]_vars => [Lifecycle!Next]_(Lifecycle!lvars)
<1> SUFFICES ASSUME IInv, [Next]_vars PROVE [Lifecycle!Next]_(Lifecycle!lvars)
  OBVIOUS
<1> USE IngestAssumption
<1> USE DEF Lifecycle!lvars
<1>0. TypeOK /\ UnderWay /\ AnswersAreTrue /\ EndsAreFinal /\ RepushEpoch
  BY DEF IInv
<1>1. ASSUME NEW command \in Cmds, Start(command) PROVE [Lifecycle!Next]_(Lifecycle!lvars)
  BY <1>1 DEF Start, FirstStage
<1>2. ASSUME Die PROVE [Lifecycle!Next]_(Lifecycle!lvars)
  BY <1>2 DEF Die
<1>3. ASSUME Fails PROVE [Lifecycle!Next]_(Lifecycle!lvars)
  BY <1>3 DEF Fails
<1>4. ASSUME S1aOk PROVE [Lifecycle!Next]_(Lifecycle!lvars)
  BY <1>4 DEF S1aOk
<1>5. ASSUME PreflightFails PROVE [Lifecycle!Next]_(Lifecycle!lvars)
  BY <1>5 DEF PreflightFails
<1>6. ASSUME NotSent PROVE [Lifecycle!Next]_(Lifecycle!lvars)
  BY <1>6 DEF NotSent
<1>7. ASSUME Send("register", "register", "registered?")
      PROVE [Lifecycle!Next]_(Lifecycle!lvars)
  BY <1>7
<1>8. ASSUME RegisterUnsure PROVE [Lifecycle!Next]_(Lifecycle!lvars)
  BY <1>8 DEF RegisterUnsure
<1>9. ASSUME RegisterEnds PROVE [Lifecycle!Next]_(Lifecycle!lvars)
  BY <1>9 DEF RegisterEnds
<1>10. ASSUME RegisterUnconfirmed PROVE [Lifecycle!Next]_(Lifecycle!lvars)
  BY <1>10 DEF RegisterUnconfirmed
<1>11. ASSUME Lookup PROVE [Lifecycle!Next]_(Lifecycle!lvars)
  BY <1>11 DEF Lookup
<1>12. ASSUME Inputs PROVE [Lifecycle!Next]_(Lifecycle!lvars)
  BY <1>12 DEF Inputs, PushWave, Wave
<1>13. ASSUME PushDone PROVE [Lifecycle!Next]_(Lifecycle!lvars)
  BY <1>13 DEF PushDone
<1>14. ASSUME ManifestWave PROVE [Lifecycle!Next]_(Lifecycle!lvars)
  BY <1>14 DEF ManifestWave, Wave
<1>15. ASSUME ManifestWaveFails PROVE [Lifecycle!Next]_(Lifecycle!lvars)
  BY <1>15 DEF ManifestWaveFails
<1>16. ASSUME ManifestDone PROVE [Lifecycle!Next]_(Lifecycle!lvars)
  BY <1>16 DEF ManifestDone
<1>17. ASSUME NEW k \in Ops, NEW t \in Targets, TakeAck(k, t)
      PROVE [Lifecycle!Next]_(Lifecycle!lvars)
  BY <1>17 DEF TakeAck
<1>18. ASSUME NEW k \in Ops, NEW t \in Targets, PushRetry(k, t)
      PROVE [Lifecycle!Next]_(Lifecycle!lvars)
  BY <1>18 DEF PushRetry
<1>19. ASSUME NEW k \in Ops, NEW t \in Targets, RepushRetry(k, t)
      PROVE [Lifecycle!Next]_(Lifecycle!lvars)
  BY <1>19 DEF RepushRetry
<1>20. ASSUME NEW k \in Ops, NEW t \in Targets, RepushGivesUp(k, t)
      PROVE [Lifecycle!Next]_(Lifecycle!lvars)
  BY <1>20 DEF RepushGivesUp
<1>21. ASSUME StaysPending PROVE [Lifecycle!Next]_(Lifecycle!lvars)
  BY <1>21 DEF StaysPending
<1>22. ASSUME CoverageSeen PROVE [Lifecycle!Next]_(Lifecycle!lvars)
  BY <1>22 DEF CoverageSeen, CanActivate
<1>23. ASSUME Send("activate", "activate", "activated?")
      PROVE [Lifecycle!Next]_(Lifecycle!lvars)
  BY <1>23
<1>24. ASSUME ActivateUnsure PROVE [Lifecycle!Next]_(Lifecycle!lvars)
  BY <1>24 DEF ActivateUnsure
<1>25. ASSUME ActivateEnds PROVE [Lifecycle!Next]_(Lifecycle!lvars)
  <2>1. stage = "active"
    BY <1>0, <1>25 DEF ActivateEnds, EndsAreFinal, UnderWay
  <2> QED
    BY <1>25, <2>1 DEF ActivateEnds, Lifecycle!Next, Lifecycle!TellStage
<1>26. ASSUME ResumeInfo PROVE [Lifecycle!Next]_(Lifecycle!lvars)
  BY <1>26 DEF ResumeInfo, Lifecycle!Next, Lifecycle!TellStage
<1>27. ASSUME ResumeCoverage PROVE [Lifecycle!Next]_(Lifecycle!lvars)
  BY <1>27 DEF ResumeCoverage
<1>28. ASSUME ResumeMissing PROVE [Lifecycle!Next]_(Lifecycle!lvars)
  BY <1>28 DEF ResumeMissing, PushWave, Wave
<1>29. ASSUME RepushStart PROVE [Lifecycle!Next]_(Lifecycle!lvars)
  BY <1>29 DEF RepushStart, Wave
<1>30. ASSUME RepushRefused PROVE [Lifecycle!Next]_(Lifecycle!lvars)
  BY <1>30 DEF RepushRefused, Lifecycle!Next, Lifecycle!TellStage
<1>31. ASSUME RepushManifests PROVE [Lifecycle!Next]_(Lifecycle!lvars)
  BY <1>31 DEF RepushManifests, Wave
<1>32. ASSUME RepushReports PROVE [Lifecycle!Next]_(Lifecycle!lvars)
  <2>1. CASE /\ AllAcked /\ Len(epochs) = epoch
             /\ ReturnTold("complete", PairsOf(epochs[Len(epochs)]))
    <3>1. snap = epochs[Len(epochs)]
      BY <1>0, <1>32, <2>1 DEF RepushReports, RepushEpoch
    <3>2. \A p \in PairsOf(snap) : p \in holders /\ <<Manifest, p[2]>> \in holders
      BY <1>0, <2>1 DEF AllAcked, AssignedTo, PairsOf, AnswersAreTrue
    <3>3. Lifecycle!TellStored(PairsOf(snap))
      BY <1>32, <2>1, <3>1, <3>2 DEF RepushReports, Lifecycle!TellStored
    <3>4. PairsOf(snap) \in SUBSET (Chunks \X Archives)
      BY DEF PairsOf
    <3> QED
      BY <3>3, <3>4 DEF Lifecycle!Next
  <2>2. CASE Return("incomplete") /\ UNCHANGED told
    BY <1>32, <2>2 DEF RepushReports
  <2> QED
    BY <1>32, <2>1, <2>2 DEF RepushReports
<1>33. ASSUME AbandonCheck PROVE [Lifecycle!Next]_(Lifecycle!lvars)
  BY <1>33 DEF AbandonCheck
<1>34. ASSUME Send("abandon", "abandon!", "abandoned?") PROVE [Lifecycle!Next]_(Lifecycle!lvars)
  BY <1>34
<1>35. ASSUME AbandonUnsure PROVE [Lifecycle!Next]_(Lifecycle!lvars)
  BY <1>35 DEF AbandonUnsure
<1>36. ASSUME AbandonEnds PROVE [Lifecycle!Next]_(Lifecycle!lvars)
  <2>1. stage = "abandoned"
    BY <1>0, <1>36 DEF AbandonEnds, EndsAreFinal, UnderWay
  <2> QED
    BY <1>36, <2>1 DEF AbandonEnds, Lifecycle!Next, Lifecycle!TellStage
<1>37. ASSUME NEW kind \in Kinds, NEW k \in Ops, Execute(kind, k)
      PROVE [Lifecycle!Next]_(Lifecycle!lvars)
  <2>1. CASE stage' = stage
    BY <1>37, <2>1 DEF Execute
  <2>2. CASE stage' # stage
    <3>1. CASE kind = "register"
      BY <1>37, <2>2, <3>1 DEF Execute, Lifecycle!Next, Lifecycle!Register
    <3>2. CASE kind = "activate"
      <4>1. stage = "pending" /\ stage' = "active" /\ \A c \in Chunks : Covered(c)
        BY <1>37, <2>2, <3>2 DEF Execute, CanActivate
      <4>2. \A c \in Chunks : \E b \in Archives : <<c, b>> \in holders
        BY <1>0, <4>1 DEF Covered, TypeOK
      <4> QED
        BY <1>37, <4>1, <4>2 DEF Execute, Lifecycle!Next, Lifecycle!Activate
    <3>3. CASE kind = "abandon"
      BY <1>37, <2>2, <3>3 DEF Execute, Lifecycle!Next, Lifecycle!Abandon
    <3> QED
      BY <3>1, <3>2, <3>3
  <2> QED
    BY <2>1, <2>2
<1>38. ASSUME NEW kind \in Kinds, NEW k \in Ops, NEW m \in 0..nonce, Drop(kind, k, m)
      PROVE [Lifecycle!Next]_(Lifecycle!lvars)
  BY <1>38 DEF Drop
<1>39. ASSUME NEW k \in 0..MaxOps, NEW x \in Items, NEW a \in Archives, Accept(k, x, a)
      PROVE [Lifecycle!Next]_(Lifecycle!lvars)
  <2>1. Lifecycle!Store(x, a)
    BY <1>39 DEF Accept, Lifecycle!Store
  <2> QED
    BY <2>1 DEF Lifecycle!Next, Lifecycle!Items
<1>40. ASSUME NEW k \in 0..MaxOps, NEW x \in Items, NEW a \in Archives, Refuse(k, x, a)
      PROVE [Lifecycle!Next]_(Lifecycle!lvars)
  BY <1>40 DEF Refuse, Answer
<1>41. ASSUME NEW c \in Chunks, NEW a \in Archives, Attest(c, a)
      PROVE [Lifecycle!Next]_(Lifecycle!lvars)
  BY <1>41 DEF Attest
<1>42. ASSUME NEW a \in Archives, Leave(a) PROVE [Lifecycle!Next]_(Lifecycle!lvars)
  BY <1>42 DEF Leave
<1>43. ASSUME Block PROVE [Lifecycle!Next]_(Lifecycle!lvars)
  BY <1>43 DEF Block
<1>44. ASSUME Reassign PROVE [Lifecycle!Next]_(Lifecycle!lvars)
  BY <1>44 DEF Reassign
<1>45. ASSUME UNCHANGED vars PROVE [Lifecycle!Next]_(Lifecycle!lvars)
  BY <1>45 DEF vars
<1> QED
  BY <1>1, <1>2, <1>3, <1>4, <1>5, <1>6, <1>7, <1>8, <1>9, <1>10, <1>11,
     <1>12, <1>13, <1>14, <1>15, <1>16, <1>17, <1>18, <1>19, <1>20, <1>21, <1>22,
     <1>23, <1>24, <1>25, <1>26, <1>27, <1>28, <1>29, <1>30, <1>31, <1>32, <1>33,
     <1>34, <1>35, <1>36, <1>37, <1>38, <1>39, <1>40, <1>41, <1>42, <1>43, <1>44,
     <1>45
  DEF Next, Command, Environment

\* run, resume, repush and abandon implement the abstract lifecycle of a file,
\* for any number of chunks, archives, epochs and commands.
THEOREM IngestRefinesLifecycle == Spec => RefinesLifecycle
<1>1. Init => Lifecycle!Init
  BY DEF Init, Lifecycle!Init
<1> QED
  BY <1>1, StepRefines, InvariantHolds, PTL DEF Spec, RefinesLifecycle, Lifecycle!Spec
===============================================================================
