-------------------------------- MODULE Upload --------------------------------
(* The V1 upload orchestrator (upload.rs): chunks are pushed slice by slice, *)
(* at most max_in_flight at a time, to the nodes of the V1 assignment, and a *)
(* slice is over when every push of it was answered or the deadline passed.  *)
(* A node is named by its address; its PeerId is known or not.               *)
EXTENDS Assignment

CONSTANTS
  UploadCases,  \* cids (one per chunk), nodes, start, r, known, slice
  NoUpload      \* no upload in this behaviour

\* The V1 assignment gives each chunk some of the nodes, where there are nodes
\* and replicas to give: a fact about the function, evaluated for every case.
ASSUME UploadAssumption ==
  \A c \in UploadCases :
    /\ c.cids \in Seq(Nat) /\ c.nodes \in Seq(Nat) /\ c.slice \in Nat \ {0} /\ c.r \in Nat
    /\ c.r # 0 /\ c.nodes # << >> =>
         \A i \in 0..(Len(c.cids) - 1) :
           nodes_for_chunk(compute_chunk_assignment(c.start, Len(c.cids), c.nodes, c.r), i)
             \in Seq(ToSet(c.nodes)) \ {<< >>}

VARIABLES
  ucase,      \* the input, never changed
  upc,        \* where the run stands
  upos,       \* chunks before the present slice
  pending,    \* slice_pending: << cid, node >>
  confirmed,  \* per_chunk_confirmations
  failures,   \* number of failed pushes
  timeout,    \* the deadline passed
  inflight,   \* pushes on their way: << chunk, node >>
  answers,    \* answers on their way: << chunk, node, ok >>
  stored,     \* << cid, node >> a node has stored
  result      \* what check_success says, or "aborted"

uvars == << ucase, upc, upos, pending, confirmed, failures, timeout, inflight,
            answers, stored, result >>

Count == Len(ucase.cids)
UChunks == 0..(Count - 1)
CidOf(i) == ucase.cids[i + 1]

Plan == compute_chunk_assignment(ucase.start, Count, ucase.nodes, ucase.r)

\* cid_to_index: of equal chunks the last one is remembered.
cid_to_index(cid) ==
  CHOOSE i \in UChunks :
    CidOf(i) = cid /\ \A j \in UChunks : CidOf(j) = cid => j <= i

NoTargets == ucase.r = 0 \/ ucase.nodes = << >>

\* Mutant: one confirmation per chunk is enough, whatever failed.
SuccessAtFirst ==
  IF NoTargets THEN "NoEligibleTargets"
  ELSE IF timeout THEN "Timeout"
  ELSE IF \E i \in UChunks : confirmed[i] = 0 THEN "IncompleteConfirmations"
  ELSE "ok"

\* Without targets an upload is no success; neither is one with a failure, or
\* with a chunk confirmed less often than it was assigned.
check_success ==
  IF NoTargets THEN "NoEligibleTargets"
  ELSE IF timeout THEN "Timeout"
  ELSE IF failures > 0 THEN "FailedPushes"
  ELSE IF \E i \in UChunks : confirmed[i] < Len(nodes_for_chunk(Plan, i))
       THEN "IncompleteConfirmations"
  ELSE "ok"

-----------------------------------------------------------------------------
\* No targets: nothing is pushed, and that is no success.
UploadStart ==
  /\ upc = "start"
  /\ upc' = IF NoTargets \/ Count = 0 THEN "result" ELSE "slice"
  /\ UNCHANGED << ucase, upos, pending, confirmed, failures, timeout, inflight,
                  answers, stored, result >>

\* Mutant: everything is one slice.
SliceOfAll == {i \in UChunks : upos <= i}

SliceNow == {i \in UChunks : upos <= i /\ i < upos + ucase.slice}

\* A push to every assigned node of every chunk of the slice; a node without
\* a PeerId, and a push that cannot be sent, are failures.
PushSlice ==
  /\ upc = "slice" /\ upos < Count
  /\ LET all == UNION {{i} \X ToSet(nodes_for_chunk(Plan, i)) : i \in SliceNow}
         reachable == {t \in all : t[2] \in ucase.known}
     IN \E sent \in SUBSET reachable :
          /\ inflight' = inflight \cup sent
          /\ pending' = {<< CidOf(t[1]), t[2] >> : t \in sent}
          /\ failures' = failures + Cardinality(all \ sent)
  /\ upc' = "wait"
  /\ UNCHANGED << ucase, upos, confirmed, timeout, answers, stored, result >>

\* A chunk is not in the local store: the run ends with an error.
MissingChunk ==
  /\ upc = "slice" /\ upos < Count
  /\ upc' = "ended" /\ result' = "aborted"
  /\ UNCHANGED << ucase, upos, pending, confirmed, failures, timeout, inflight,
                  answers, stored >>

\* The node's side: store and acknowledge, or refuse.
NodeAnswers(t, ok) ==
  /\ t \in inflight
  /\ inflight' = inflight \ {t}
  /\ answers' = answers \cup {<< t[1], t[2], ok >>}
  /\ stored' = IF ok THEN stored \cup {<< CidOf(t[1]), t[2] >>} ELSE stored
  /\ UNCHANGED << ucase, upc, upos, pending, confirmed, failures, timeout, result >>

\* Lost on the way, there or back.
AnswerLost(t) ==
  /\ t \in inflight
  /\ inflight' = inflight \ {t}
  /\ stored' \in {stored, stored \cup {<< CidOf(t[1]), t[2] >>}}
  /\ UNCHANGED << ucase, upc, upos, pending, confirmed, failures, timeout, answers,
                  result >>

\* An answer counts once, for a push still awaited.
ShardReceived(m) ==
  /\ upc = "wait" /\ pending # {} /\ m \in answers
  /\ answers' = answers \ {m}
  /\ LET cid == CidOf(m[1])
         awaited == << cid, m[2] >> \in pending
     IN /\ pending' = pending \ {<< cid, m[2] >>}
        /\ confirmed' = IF awaited /\ m[3]
                        THEN [confirmed EXCEPT ![cid_to_index(cid)] = @ + 1]
                        ELSE confirmed
        /\ failures' = IF awaited /\ ~m[3] THEN failures + 1 ELSE failures
  /\ UNCHANGED << ucase, upc, upos, timeout, inflight, stored, result >>

SliceDone ==
  /\ upc = "wait" /\ pending = {}
  /\ upos' = upos + ucase.slice
  /\ upc' = IF upos + ucase.slice < Count THEN "slice" ELSE "result"
  /\ UNCHANGED << ucase, pending, confirmed, failures, timeout, inflight, answers,
                  stored, result >>

UploadClosed ==
  /\ upc = "wait" /\ pending # {}
  /\ upc' = "ended" /\ result' = "aborted"
  /\ UNCHANGED << ucase, upos, pending, confirmed, failures, timeout, inflight,
                  answers, stored >>

\* Mutant: the deadline is looked at between slices only.
TimeoutBetweenSlices ==
  /\ upc = "slice"
  /\ timeout' = TRUE /\ pending' = {} /\ upc' = "result"
  /\ UNCHANGED << ucase, upos, confirmed, failures, inflight, answers, stored, result >>

\* The deadline ends the whole upload; what is pending has failed.
UploadTimeout ==
  /\ upc = "wait" /\ pending # {}
  /\ timeout' = TRUE /\ failures' = failures + Cardinality(pending)
  /\ pending' = {} /\ upc' = "result"
  /\ UNCHANGED << ucase, upos, confirmed, inflight, answers, stored, result >>

UploadResult ==
  /\ upc = "result"
  /\ result' = check_success /\ upc' = "ended"
  /\ UNCHANGED << ucase, upos, pending, confirmed, failures, timeout, inflight,
                  answers, stored >>

-----------------------------------------------------------------------------
UploadIdle(c, state) ==
  /\ ucase = c /\ upc = state /\ upos = 0 /\ pending = {}
  /\ confirmed = IF state = "off" THEN << >> ELSE [i \in 0..(Len(c.cids) - 1) |-> 0]
  /\ failures = 0 /\ timeout = FALSE /\ inflight = {} /\ answers = {} /\ stored = {}
  /\ result = "none"

UploadSteps ==
  \/ UploadStart \/ PushSlice \/ SliceDone \/ UploadTimeout \/ UploadResult

UploadNext ==
  \/ UploadSteps \/ MissingChunk \/ UploadClosed
  \/ \E t \in inflight : AnswerLost(t) \/ \E ok \in BOOLEAN : NodeAnswers(t, ok)
  \/ \E m \in answers : ShardReceived(m)

-----------------------------------------------------------------------------
(* Properties *)

\* An upload that reports success has every chunk stored on every node of its
\* assignment, also when chunks are equal (whose confirmations are all
\* credited to the last of them) and answers come late.
SuccessIsReplicated ==
  result = "ok" =>
    \A i \in UChunks :
      /\ Len(nodes_for_chunk(Plan, i)) > 0
      /\ \A a \in ToSet(nodes_for_chunk(Plan, i)) : << CidOf(i), a >> \in stored

\* At most max_in_flight chunks are held in memory for pushes still awaited.
BuffersAreBounded ==
  upc = "wait" => Cardinality({t[1] : t \in pending}) <= ucase.slice

\* An upload ends, whatever the nodes do.
UploadEnds == upc \in {"slice", "wait"} ~> upc = "ended"
===============================================================================
