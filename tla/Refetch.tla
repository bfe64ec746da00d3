------------------------------ MODULE Refetch ------------------------------
(***************************************************************************)
(* How chunks come to an archive after a reassignment: pushes through the  *)
(* listen loop, and the re-fetch task (refetch_v2.rs), which plans the     *)
(* chunks the latest epoch newly gives this archive and pulls them from    *)
(* other archives.  Its pulls are answered through the listen loop         *)
(* (refetch_net.rs): one waiter per peer and request, forgotten when the   *)
(* pull times out, while the request itself may still be answered.  What a *)
(* chunk passes on its way into the store is module PushValidator.         *)
(***************************************************************************)
EXTENDS PushValidator

CONSTANTS
  Listen, Task,      \* the two callers of the gate
  SourcesPerChunk,   \* limits.sources_per_chunk
  FilesPerRun,       \* limits.files_per_run
  ChunksPerRun,      \* limits.chunks_per_run
  EpochsConsulted,   \* MAX_EPOCHS_CONSULTED
  Visibilities       \* of the file: "public", "private"

ASSUME RefetchAssumption ==
  /\ Callers = {Listen, Task} /\ Trusted = Task
  /\ \A t \in Timings : t.good \subseteq Archives \ {Me}
  /\ \A t \in Timings : t.ahead \subseteq [files : Nat, chunks : Nat]
  /\ SourcesPerChunk \in Nat /\ FilesPerRun \in Nat /\ ChunksPerRun \in Nat
  /\ EpochsConsulted \in Nat \ {0, 1}

VARIABLES
  visibility,  \* chain: visibility of the file
  held,        \* chunk -> bytes this archive holds: "none", "good", "wrong"
  manifest,    \* the Public manifest is indexed here
  peers,       \* connected and identified archives
  run,         \* the run: [pc, plan, at, src, fetched, done]; plan is the chunks
               \* still to be fetched, at how many epochs the coverage had,
               \* done how many chunks the run has fetched or failed
  pending,     \* the one waiter, or NoPull
  wire         \* the pulls asked and not yet answered

refetch == <<visibility, held, manifest, peers, run, pending, wire>>
vars == <<validator, refetch>>

\* The archives that stay connected and serve what they hold.
Good == timing.good

Pulls == [what : 0 .. ChunkCount, from : Archives \ {Me}]   \* what 0: the manifest
NoPull == [what |-> 0, from |-> Me]
NoRun == [pc |-> "idle", plan |-> {}, at |-> 0, src |-> 1, fetched |-> FALSE, done |-> 0]

Init ==
  /\ ValidatorInit /\ held = [c \in Chunks |-> "none"]
  /\ visibility \in Visibilities /\ manifest \in BOOLEAN /\ peers = Good
  /\ ~timing.refetch => visibility = "public" /\ ~manifest   \* read by re-fetch alone
  /\ run = NoRun /\ pending = NoPull /\ wire = {}

---------------------------------------------------------------------------
(* Pushes, peers and the chain. *)

Step(A) == A /\ UNCHANGED refetch

Push ==
  /\ \E p \in timing.pushes : Begin(Listen, p.chunk, p.good)
  /\ UNCHANGED refetch

Stored(j) ==
  IF j.pc # "accepted" THEN held
  ELSE [held EXCEPT ![j.chunk] = IF j.good THEN "good" ELSE "wrong"]

\* store_v2_pushed_chunk and the held record (module ArchiveStore); the
\* PushAck ends the handling of a push.
PushAcked ==
  LET j == job[Listen] IN
  /\ j.pc \in Verdicts
  /\ held' = Stored(j)
  /\ job' = [job EXCEPT ![Listen] = Idle]
  /\ UNCHANGED <<timing, life, epochs, since, infoCache, epochCache>>
  /\ UNCHANGED <<visibility, manifest, peers, run, pending, wire>>

\* Another archive is identified or disconnects (only re-fetch reads this map).
PeerChange ==
  /\ timing.refetch
  /\ \E a \in Archives \ ({Me} \cup Good) :
       peers' = IF a \in peers THEN peers \ {a} ELSE peers \cup {a}
  /\ UNCHANGED validator /\ UNCHANGED <<visibility, held, manifest, run, pending, wire>>

---------------------------------------------------------------------------
(* Planning. *)

\* The snapshots consulted of the first n epochs; epochs are never changed.
Consulted(n) ==
  SubSeq(epochs, IF n > EpochsConsulted THEN n - EpochsConsulted + 1 ELSE 1, n)

\* Assignees of c, newest epoch first, without Me and without repetition.
Sources(c, n) ==
  FoldLeft(LAMBDA s, e : s \o SelectSeq(e[c], LAMBDA a : a # Me /\ a \notin ToSet(s)),
           <<>>, Reverse(Consulted(n)))

\* Mutant: what the previous epoch already gave is planned, not what is new.
PlanOld ==
  IF Len(epochs) < 2 THEN {}
  ELSE {c \in Mine(Len(epochs) - 1) : held[c] = "none"}

\* plan_refetch: newly assigned by the latest epoch and not held.
Plan ==
  IF Len(epochs) < 2 THEN {}
  ELSE {c \in Mine(Len(epochs)) \ Mine(Len(epochs) - 1) : held[c] = "none"}


\* The interval elapses, unless --refetch-secs is 0.  The listing is read from
\* its start; the run comes to the file after the files listed ahead of it and
\* the chunks they settled, unless a page cannot be read or a limit is reached
\* first.
RunStarts ==
  /\ timing.refetch /\ run.pc = "idle"
  /\ \/ run' = NoRun
     \/ \E used \in timing.ahead :
          run' = IF used.files >= FilesPerRun \/ used.chunks >= ChunksPerRun THEN NoRun
                 ELSE [NoRun EXCEPT !.pc = "shape", !.done = used.chunks]
  /\ UNCHANGED validator /\ UNCHANGED <<visibility, held, manifest, peers, pending, wire>>

\* Mutant: the visibility is not looked at.
ShapeReadBlind ==
  /\ run.pc = "shape"
  /\ run' = IF life = "abandoned" THEN NoRun ELSE [run EXCEPT !.pc = "coverage"]
  /\ UNCHANGED validator /\ UNCHANGED <<visibility, held, manifest, peers, pending, wire>>

\* fetch_file_shape: nothing is done for a Private or an abandoned file.
ShapeRead ==
  /\ run.pc = "shape"
  /\ run' = IF life = "abandoned" \/ visibility = "private" THEN NoRun
            ELSE [run EXCEPT !.pc = "coverage"]
  /\ UNCHANGED validator /\ UNCHANGED <<visibility, held, manifest, peers, pending, wire>>

\* fetch_coverage and the snapshots it names; then the plan is made.
CoverageRead ==
  /\ run.pc = "coverage"
  /\ run' = IF Plan = {} THEN NoRun
            ELSE [run EXCEPT !.pc = IF manifest THEN "chunk" ELSE "manifest",
                             !.plan = Plan, !.at = Len(epochs)]
  /\ UNCHANGED validator /\ UNCHANGED <<visibility, held, manifest, peers, pending, wire>>

\* Any read of the chain can fail; the file is left for the next run.
ReadFails ==
  /\ run.pc \in {"shape", "coverage"} /\ run' = NoRun
  /\ UNCHANGED validator /\ UNCHANGED <<visibility, held, manifest, peers, pending, wire>>

---------------------------------------------------------------------------
(* Pulls. *)

\* The chunks are fetched in the order of their indices.
Now == Min(run.plan)

\* What is wanted now, and the sources still to be tried for it.
Wanted == IF run.pc = "manifest" THEN 0 ELSE Now

AllSources ==
  FoldLeft(LAMBDA s, c : s \o SelectSeq(Sources(c, run.at), LAMBDA a : a \notin ToSet(s)),
           <<>>, SetToSortSeq(run.plan, <))

Line ==
  LET all == IF run.pc = "manifest" THEN AllSources ELSE Sources(Now, run.at)
  IN SubSeq(all, 1, IF Len(all) < SourcesPerChunk THEN Len(all) ELSE SourcesPerChunk)

Pull == [what |-> Wanted, from |-> Line[run.src]]

Pulling == run.pc \in {"manifest", "chunk"} /\ pending = NoPull

\* The chunk is settled, one way or the other.
NextChunk(r) ==
  IF r.plan = {Now} \/ r.done + 1 >= ChunksPerRun THEN NoRun
  ELSE [r EXCEPT !.plan = @ \ {Now}, !.src = 1, !.done = @ + 1, !.pc = "chunk"]

\* No source is left: without a manifest nothing more can be done.
GiveUp ==
  /\ Pulling /\ run.src > Len(Line)
  /\ run' = IF run.pc = "manifest" THEN NoRun ELSE NextChunk(run)
  /\ UNCHANGED validator /\ UNCHANGED <<visibility, held, manifest, peers, pending, wire>>

\* resolve and request: a peer that is not identified costs its turn.
SendPull ==
  /\ Pulling /\ run.src <= Len(Line)
  /\ IF Line[run.src] \in peers
     THEN pending' = Pull /\ wire' = wire \cup {Pull} /\ UNCHANGED run
     ELSE run' = [run EXCEPT !.src = @ + 1] /\ UNCHANGED <<pending, wire>>
  /\ UNCHANGED validator /\ UNCHANGED <<visibility, held, manifest, peers>>

\* The pull fails: the next source is tried.
Unanswered == run' = [run EXCEPT !.src = @ + 1] /\ UNCHANGED <<job, manifest>>

Same == UNCHANGED <<timing, life, epochs, since, infoCache, epochCache>>

\* A manifest that validates is indexed; bytes that hash to the manifest's leaf
\* go to the gate.
Accept(p, ans) ==
  IF ans # "good" THEN Unanswered
  ELSE IF p.what = 0
  THEN /\ manifest' = TRUE /\ run' = [run EXCEPT !.pc = "chunk", !.src = 1]
       /\ UNCHANGED job
  ELSE run' = [run EXCEPT !.pc = "gate"] /\ UNCHANGED <<manifest, job>>

\* What an archive answers: a good one what it holds.
Answers(p) == IF p.from \in Good THEN {"good"} ELSE {"good", "wrong", "error"}

\* on_event: an answer or a failure settles the waiter of that peer and request;
\* with no such waiter it is left to the listen loop.
PullAnswered ==
  /\ \E p \in Pulls : \E ans \in Answers(p) :
       /\ p \in wire /\ wire' = wire \ {p}
       /\ IF pending = p THEN pending' = NoPull /\ Accept(p, ans)
          ELSE UNCHANGED <<pending, run, job, manifest>>
  /\ Same /\ UNCHANGED <<visibility, held, peers>>

\* No answer within the timeout: the waiter is forgotten, the request is not.
PullTimesOut ==
  /\ pending # NoPull /\ pending.from \notin Good
  /\ pending' = NoPull /\ Unanswered
  /\ Same /\ UNCHANGED <<visibility, held, peers, wire>>

---------------------------------------------------------------------------
(* Into the store. *)

ToGate ==
  /\ run.pc = "gate" /\ job[Task].pc = "idle" /\ Begin(Task, Now, TRUE)
  /\ run' = [run EXCEPT !.pc = "gated"]
  /\ UNCHANGED <<visibility, held, manifest, peers, pending, wire>>

\* accept_refetched_chunk: a refusal of the gate is about chain state, so no
\* other source is tried.
FromGate ==
  LET j == job[Task] IN
  /\ run.pc = "gated" /\ j.pc \in Verdicts
  /\ held' = Stored(j)
  /\ run' = NextChunk(IF j.pc = "accepted" THEN [run EXCEPT !.fetched = TRUE] ELSE run)
  /\ job' = [job EXCEPT ![Task] = Idle]
  /\ UNCHANGED <<timing, life, epochs, since, infoCache, epochCache>>
  /\ UNCHANGED <<visibility, manifest, peers, pending, wire>>

Next ==
  \/ Step(Reassign) \/ Step(Abandon) \/ Step(Tick) \/ Step(Evict)
  \/ \E w \in Callers : Step(Validate(w))
  \/ Push \/ PushAcked \/ PeerChange
  \/ RunStarts \/ ShapeRead \/ CoverageRead \/ ReadFails
  \/ GiveUp \/ SendPull \/ PullAnswered \/ PullTimesOut \/ ToGate \/ FromGate

\* The task and the chain go on, a chain that is asked again and again answers.
Arrives == InfoArrives(Task) \/ EpochArrives(Task)

Fairness ==
  /\ WF_vars(RunStarts \/ GiveUp \/ SendPull \/ ToGate \/ FromGate \/ Step(Arrives))
  /\ WF_vars(PullAnswered) /\ SF_vars(ShapeRead) /\ SF_vars(CoverageRead)
  /\ \A pc \in {"info", "epoch"} : SF_vars(job[Task].pc = pc /\ Step(ChainAnswers(Task)))

Spec == Init /\ [][Next]_vars /\ Fairness

---------------------------------------------------------------------------

TypeOK ==
  /\ ValidatorTypeOK
  /\ held \in [Chunks -> {"none", "good", "wrong"}] /\ manifest \in BOOLEAN
  /\ peers \subseteq Archives \ {Me} /\ wire \subseteq Pulls
  /\ pending \in {NoPull} \cup Pulls
  /\ run.pc \in {"idle", "shape", "coverage", "manifest", "chunk", "gate", "gated"}

\* Whichever way a chunk came, pushed or pulled, and however late an answer to
\* a forgotten pull arrived, what is held verifies against the root.
HeldVerifies == \A c \in Chunks : held[c] # "wrong"

\* Re-fetch asks nobody for anything of a Private file: its manifest and its
\* ciphertext are for the access list alone.
NothingPrivateAsked == visibility = "private" => wire = {}

\* The chunks the last epoch newly places here, and whether every run comes as
\* far as c: both limits leave room for it after what is listed ahead of the
\* file and for the new chunks of the file before it.
NewHere == Mine(Len(epochs)) \ Mine(Len(epochs) - 1)

WithinReach(c) ==
  \A used \in timing.ahead :
    /\ used.files < FilesPerRun
    /\ used.chunks + Cardinality({d \in NewHere : d <= c}) <= ChunksPerRun

Owed(c) ==
  /\ timing.refetch /\ visibility = "public" /\ life # "abandoned"
  /\ Len(epochs) > 1 /\ c \in NewHere /\ WithinReach(c)
  /\ LET s == Sources(c, Len(epochs)) IN
       \E i \in DOMAIN s : i <= SourcesPerChunk /\ s[i] \in Good


\* What the archive takes and refuses follows a recent assignment, verifies,
\* and asks nothing of a Private file.
PlacementIsSound ==
  /\ TypeOK
  /\ AcceptedRecently /\ RefusedRecently
  /\ HeldVerifies /\ NothingPrivateAsked
=============================================================================
