------------------------------ MODULE Commands ------------------------------
(* The commands of the sum-node binary and the calls of the client library,  *)
(* as processes that run side by side on one host and one chain: what each   *)
(* reads before it acts, what it opens and releases, which route it takes,   *)
(* and what it prints and returns (main.rs, client.rs, lease.rs,             *)
(* download_route.rs).  What the ingest pipeline does between its start and  *)
(* its outcome is IngestV2's, what a download does is Download's: here they  *)
(* end in any way the chain allows.                                          *)
EXTENDS Integers, FiniteSets

CONSTANTS
  Procs,       \* processes
  Scenarios,   \* per scenario: what each process is told to do, and the chain
  DefaultR,    \* DEFAULT_REPLICATION_FACTOR, the dev fallback
  MaxFaults,   \* bound on RPC, socket and file errors
  MaxRetries,  \* retries of run_fetch
  Absent       \* no value

CommandLines ==
  [cmd : {"ingest", "resume", "repush", "abandon", "download", "fetch", "listen"},
   library : BOOLEAN, seed : BOOLEAN, profile : {"production", "dev"},
   status : BOOLEAN, root : Nat]

Chains == [row : {"none", "pending", "active", "abandoned"}, vis : STRING, v1 : BOOLEAN, r : Nat]

\* What a pipeline returns, what a command prints, and the routes of a download.
Outcomes ==
  [kind : {"Failed", "PendingNeedsAction", "Activated", "ActivatedOnChain", "AbandonedOnChain",
           "RootMismatch", "IdentityMismatch", "Done", "NotAdmissible", "Abandoned"},
   tx : {Absent, "NotSent", "Rejected", "Unconfirmed", "complete", "incomplete", "unknown"},
   root : BOOLEAN]

Lifecycles == {"Active", "Pending", "Abandoned"}
Routes     == {"V1Legacy", "V2Public", "V2Private"}

\* The client library ingests and downloads; the rest is the binary's alone.
\* Absent is none of the values it stands beside.
ASSUME CommandsAssumption ==
  /\ DefaultR \in Nat /\ MaxFaults \in Nat /\ MaxRetries \in Nat
  /\ Absent \notin STRING /\ Absent \notin Lifecycles \cup Routes \cup {"public", "private"}
  /\ Absent \notin [r : Nat, live : BOOLEAN] /\ Absent \notin Outcomes
  /\ \A s \in Scenarios :
       /\ s.told \in [Procs -> CommandLines] /\ s.chain \in Chains
       /\ \A p \in Procs : s.told[p].library => s.told[p].cmd \in {"ingest", "download"}

VARIABLES
  told,     \* told[p]: the command line of p, never changed
  chain,    \* row of the root, its visibility, a V1 row, R
  proc,     \* proc[p]: the state of process p
  leases,   \* processes whose SumStore holds its root
  mempool,  \* processes whose unconfirmed registration may still execute
  faults    \* errors so far

cvars == << told, chain, proc, leases, mempool, faults >>

Live(p) == proc[p].pc \notin {"off", "done", "killed"}

\* The record of a process after a step; everything else unless said.
Set(p, s) == proc' = [proc EXCEPT ![p] = s]
To(p, pc) == [proc[p] EXCEPT !.pc = pc]

Fault == faults < MaxFaults /\ faults' = faults + 1

\* Mutant: the staged directory is removed by a caller that may not get there.
FinishKeepsStaged(p, s, code) ==
  /\ Set(p, [s EXCEPT !.pc = "done", !.code = code, !.net = @ /\ told[p].library])
  /\ leases' = leases \ {p}

\* The end of a command.  Whatever was staged is dropped with its guard and
\* the lease with its store; a process takes its sockets with it, a library
\* call returns to a caller that keeps running.
Finish(p, s, code) ==
  /\ Set(p, [s EXCEPT !.pc = "done", !.code = code, !.staged = FALSE,
                      !.net = @ /\ told[p].library])
  /\ leases' = leases \ {p}

\* bail! or ?
Bail(p) == Finish(p, proc[p], 1)

-----------------------------------------------------------------------------
(* main: dispatch *)

NeedsKey == {"ingest", "resume", "repush", "abandon"}

FirstStep(c) ==
  CASE c.cmd = "ingest" -> IF c.library THEN "net" ELSE "preflight"
    [] c.cmd = "resume" -> "preflight"
    [] c.cmd \in {"repush", "abandon"} -> "params"
    [] c.cmd = "download" -> IF c.library THEN "output" ELSE "row"
    [] OTHER -> "net"

Dispatch(p) ==
  /\ proc[p].pc = "start"
  /\ IF told[p].cmd \in NeedsKey /\ ~told[p].seed
     THEN Bail(p)
     ELSE Set(p, To(p, FirstStep(told[p]))) /\ UNCHANGED leases
  /\ UNCHANGED << told, chain, mempool, faults >>

\* ingest-v2 and resume read the parameters once before anything else.
Preflight(p) ==
  /\ proc[p].pc = "preflight"
  /\ \/ /\ IF chain.r = 0 THEN Bail(p) ELSE Set(p, To(p, "net")) /\ UNCHANGED leases
        /\ UNCHANGED faults
     \/ /\ Fault
        /\ IF told[p].profile = "production" THEN Bail(p)
           ELSE Set(p, To(p, "net")) /\ UNCHANGED leases
  /\ UNCHANGED << told, chain, mempool >>

AfterNet(c) ==
  CASE c.cmd \in {"ingest", "resume"} -> "params"
    [] c.cmd = "repush" -> "run"
    [] c.cmd = "download" -> "route"
    [] OTHER -> "store"

\* SumNet::new
OpenNet(p) ==
  /\ proc[p].pc = "net"
  /\ \/ /\ Set(p, [To(p, AfterNet(told[p])) EXCEPT !.net = TRUE])
        /\ UNCHANGED << leases, faults >>
     \/ Fault /\ Bail(p)
  /\ UNCHANGED << told, chain, mempool >>

AfterParams(c) ==
  CASE c.cmd = "ingest" -> IF c.library THEN "stage" ELSE "run"
    [] c.cmd = "repush" -> "net"
    [] OTHER -> "run"

\* IngestParams: the chain's values, or the defaults of the dev profile.
FromChain == [r |-> chain.r, live |-> TRUE]
Defaults  == [r |-> DefaultR, live |-> FALSE]

TakeParams(p, params) ==
  Set(p, [To(p, AfterParams(told[p])) EXCEPT !.params = params]) /\ UNCHANGED leases

\* Mutant: a failed read falls back in every profile.
ParamsFallBack(p) ==
  /\ proc[p].pc = "params"
  /\ \/ TakeParams(p, FromChain) /\ UNCHANGED faults
     \/ Fault /\ TakeParams(p, Defaults)
  /\ UNCHANGED << told, chain, mempool >>

\* A second read; production takes nothing but the chain's values.
Params(p) ==
  /\ proc[p].pc = "params"
  /\ \/ TakeParams(p, FromChain) /\ UNCHANGED faults
     \/ /\ Fault
        /\ IF told[p].profile = "production" THEN Bail(p)
           ELSE TakeParams(p, Defaults)
  /\ UNCHANGED << told, chain, mempool >>

-----------------------------------------------------------------------------
(* The pipeline's outcome.  root: a Merkle root was computed.  tx: what       *)
(* became of the registration, for a Failed at Register.                     *)

Outcome(kind, tx, root) == [kind |-> kind, tx |-> tx, root |-> root]
Failed(tx, root) == Outcome("Failed", tx, root)

Returns(p, o) ==
  Set(p, [To(p, "report") EXCEPT !.outcome = o])

\* StagedBytes::write: the bytes go to a private directory; a name that is
\* no plain file name, or a write error, stages nothing.
Stage(p) ==
  /\ proc[p].pc = "stage"
  /\ \/ Set(p, [To(p, "run") EXCEPT !.staged = TRUE]) /\ UNCHANGED faults
     \/ Fault /\ Returns(p, Failed("NotSent", FALSE))
  /\ UNCHANGED << told, chain, leases, mempool >>

\* Mutant: the pipeline trusts the caller's preflight.
RunAnyR(p) == proc[p].pc = "run"

\* R = 0 stops every pipeline but abandon at its first line.
HasTargets(p) ==
  /\ proc[p].pc = "run"
  /\ proc[p].params.r > 0 \/ told[p].cmd = "abandon"

NoTargetsOutcome(p) ==
  /\ proc[p].pc = "run" /\ ~HasTargets(p) /\ told[p].cmd \in NeedsKey
  /\ Returns(p, Failed("NotSent", FALSE))
  /\ UNCHANGED << told, chain, leases, mempool, faults >>

\* A Private ingest reads its recipients' keys before the pipeline starts.
NoRecipients(p) ==
  /\ proc[p].pc = "run" /\ told[p].cmd = "ingest" /\ ~told[p].library
  /\ Fault /\ Bail(p)
  /\ UNCHANGED << told, chain, mempool >>

\* run: stopped before S1 is sent, with or without a root.
IngestNotSent(p, root) ==
  /\ HasTargets(p) /\ told[p].cmd = "ingest"
  /\ Returns(p, Failed("NotSent", root))
  /\ UNCHANGED << told, chain, leases, mempool, faults >>

\* S1 executes, or is rejected because the root is taken.
IngestRegister(p) ==
  /\ HasTargets(p) /\ told[p].cmd = "ingest"
  /\ IF chain.row = "none" /\ ~chain.v1
     THEN /\ chain' = [chain EXCEPT !.row = "pending"]
          /\ Set(p, [To(p, "pending") EXCEPT !.mine = TRUE])
     ELSE /\ Returns(p, Failed("Rejected", TRUE))
          /\ UNCHANGED chain
  /\ UNCHANGED << told, leases, mempool, faults >>

\* S1 was sent, or perhaps sent, and nothing more was heard of it.
IngestUnconfirmed(p) ==
  /\ HasTargets(p) /\ told[p].cmd = "ingest"
  /\ mempool' \in {mempool, mempool \cup {p}}
  /\ Returns(p, Failed("Unconfirmed", TRUE))
  /\ UNCHANGED << told, chain, leases, faults >>

\* ... and executes later (external).
Lands(p) ==
  /\ p \in mempool
  /\ mempool' = mempool \ {p}
  /\ IF chain.row = "none" /\ ~chain.v1
     THEN /\ chain' = [chain EXCEPT !.row = "pending"]
          /\ proc' = [proc EXCEPT ![p].mine = TRUE]
     ELSE UNCHANGED << chain, proc >>
  /\ UNCHANGED << told, leases, faults >>

\* S2 to S5 of a file this run registered, or of one resume found Pending.
EndsPending(p) ==
  /\ proc[p].pc = "pending"
  /\ Returns(p, Outcome("PendingNeedsAction", Absent, TRUE))
  /\ UNCHANGED << told, chain, leases, mempool, faults >>

Activates(p) ==
  /\ proc[p].pc = "pending" /\ chain.row = "pending"
  /\ chain' = [chain EXCEPT !.row = "active"]
  /\ Returns(p, Outcome("Activated", Absent, TRUE))
  /\ UNCHANGED << told, leases, mempool, faults >>

\* resume reads the row, rebuilds the file, and only then looks at the state.
ResumeReads(p) ==
  /\ HasTargets(p) /\ told[p].cmd = "resume"
  /\ \/ chain.row = "none" /\ Returns(p, Failed("NotSent", FALSE))
     \/ chain.row # "none" /\ Returns(p, Outcome("RootMismatch", Absent, TRUE))
     \/ chain.row = "active" /\ Returns(p, Outcome("ActivatedOnChain", Absent, TRUE))
     \/ chain.row = "abandoned" /\ Returns(p, Outcome("AbandonedOnChain", Absent, TRUE))
     \/ chain.row = "pending" /\ Set(p, To(p, "pending"))
  /\ UNCHANGED << told, chain, leases, mempool, faults >>

\* repush pushes for a Pending and for an Active file, and only to its owner's
\* registration.
RepushReads(p) ==
  /\ HasTargets(p) /\ told[p].cmd = "repush"
  /\ \/ chain.row = "none" /\ Returns(p, Failed("NotSent", FALSE))
     \/ chain.row = "abandoned" /\ Returns(p, Outcome("AbandonedOnChain", Absent, TRUE))
     \/ /\ chain.row \in {"pending", "active"}
        /\ \/ Returns(p, Outcome("RootMismatch", Absent, TRUE))
           \/ Returns(p, Outcome("IdentityMismatch", Absent, TRUE))
           \/ \E how \in {"complete", "incomplete", "unknown"} :
                Returns(p, Outcome("Done", how, TRUE))
  /\ UNCHANGED << told, chain, leases, mempool, faults >>

ReadFails(p) ==
  /\ HasTargets(p) /\ told[p].cmd # "ingest"
  /\ Fault
  /\ Returns(p, Failed("NotSent", FALSE))
  /\ UNCHANGED << told, chain, leases, mempool >>

\* abandon: not admissible, or executed, or lost.
Abandons(p) ==
  /\ HasTargets(p) /\ told[p].cmd = "abandon"
  /\ \/ Returns(p, Outcome("NotAdmissible", Absent, FALSE)) /\ UNCHANGED chain
     \/ /\ chain.row = "pending"
        /\ chain' = [chain EXCEPT !.row = "abandoned"]
        /\ \/ Returns(p, Outcome("Abandoned", Absent, FALSE))
           \/ Returns(p, Failed("NotSent", FALSE))
  /\ UNCHANGED << told, leases, mempool, faults >>

-----------------------------------------------------------------------------
(* Reports *)

\* The lifecycle line of an outcome, as every command prints it.
Lifecycle(o) ==
  CASE o.kind \in {"Activated", "ActivatedOnChain"} -> "Active"
    [] o.kind = "PendingNeedsAction" -> "Pending"
    [] o.kind = "AbandonedOnChain" -> "Abandoned"
    [] OTHER -> Absent

\* root_on_chain: Registered, NotRegistered or LookupFailed.
Found(lookup) ==
  IF ~lookup THEN "LookupFailed"
  ELSE IF chain.row # "none" \/ chain.v1 THEN "Registered" ELSE "NotRegistered"

LookupCode(found) ==
  CASE found = "Registered" -> 7 [] found = "NotRegistered" -> 6 [] OTHER -> 1

\* Mutant: an unconfirmed registration is looked up like a rejected one.
ExitCodeLooksUp(o, found) ==
  CASE o.kind \in {"Activated", "ActivatedOnChain"} -> 0
    [] o.kind = "PendingNeedsAction" -> 3
    [] o.kind = "AbandonedOnChain" -> 4
    [] o.kind = "Failed" -> IF o.root THEN LookupCode(found) ELSE 6
    [] OTHER -> 1

ingest_exit_code(o, found) ==
  CASE o.kind \in {"Activated", "ActivatedOnChain"} -> 0
    [] o.kind = "PendingNeedsAction" -> 3
    [] o.kind = "AbandonedOnChain" -> 4
    [] o.kind = "Failed" ->
         IF o.tx = "Unconfirmed" THEN 8 ELSE IF o.root THEN LookupCode(found) ELSE 6
    [] OTHER -> 1

resume_exit_code(o) ==
  CASE o.kind \in {"Activated", "ActivatedOnChain"} -> 0
    [] o.kind = "PendingNeedsAction" -> 3
    [] o.kind = "AbandonedOnChain" -> 4
    [] o.kind = "RootMismatch" -> 5
    [] OTHER -> 1

repush_exit_code(o) ==
  CASE o.kind = "Done" -> CASE o.tx = "complete" -> 0
                            [] o.tx = "unknown" -> 1
                            [] OTHER -> 3
    [] o.kind = "AbandonedOnChain" -> 4
    [] o.kind = "RootMismatch" -> 5
    [] o.kind = "IdentityMismatch" -> 6
    [] OTHER -> 1

\* Lines first, then the code; without --exit-status an ingest returns 0, and
\* abandon always does.
ReportWith(p, lookup) ==
  LET o == proc[p].outcome
      asks == told[p].status /\ o.kind = "Failed" /\ o.tx \in {"NotSent", "Rejected"} /\ o.root
      code == CASE told[p].cmd = "ingest" /\ told[p].status -> ingest_exit_code(o, Found(lookup))
                [] told[p].cmd = "resume" -> resume_exit_code(o)
                [] told[p].cmd = "repush" -> repush_exit_code(o)
                [] OTHER -> 0
  IN /\ ~lookup => asks
     /\ Set(p, [To(p, "shutdown") EXCEPT
                  !.code = code,
                  !.printed = [root |-> Lifecycle(o) # Absent \/ code = 8,
                               lifecycle |-> IF told[p].cmd \in {"ingest", "resume"}
                                             THEN Lifecycle(o) ELSE Absent]])

Report(p) ==
  /\ proc[p].pc = "report"
  /\ \/ ReportWith(p, TRUE) /\ UNCHANGED faults
     \/ Fault /\ ReportWith(p, FALSE)
  /\ UNCHANGED << told, chain, leases, mempool >>

\* net.shutdown()? turns a swarm that cannot be told into exit 1; a library
\* download ignores the answer, a library ingest has a network that is not its.
Shutdown(p) ==
  LET s == proc[p]
      closes == told[p].cmd # "abandon" /\ ~(told[p].library /\ told[p].cmd = "ingest")
  IN /\ s.pc = "shutdown"
     /\ \/ Finish(p, [s EXCEPT !.net = @ /\ ~closes], s.code) /\ UNCHANGED faults
        \/ /\ closes /\ ~told[p].library /\ Fault
           /\ Finish(p, s, 1)
     /\ UNCHANGED << told, chain, mempool >>

-----------------------------------------------------------------------------
(* SumStore::new *)

\* Mutant: a lock that would block is taken for granted.
AcquireAnyway(p) == TRUE

\* flock, not blocking, on the root's lease file.
Acquire(p) == \A q \in leases : told[q].root # told[p].root

AfterStore(c) ==
  CASE c.cmd = "download" -> "factor" [] c.cmd = "fetch" -> "peer" [] OTHER -> "serve"

OpenStore(p) ==
  /\ proc[p].pc = "store"
  /\ IF Acquire(p)
     THEN /\ leases' = leases \cup {p}
          /\ Set(p, To(p, AfterStore(told[p])))
     ELSE IF told[p].library
     THEN Set(p, [To(p, "shutdown") EXCEPT !.code = 1]) /\ UNCHANGED leases
     ELSE Bail(p)
  /\ UNCHANGED << told, chain, mempool, faults >>

\* listen stops on Ctrl-C.
StopListening(p) ==
  /\ proc[p].pc = "serve"
  /\ Finish(p, proc[p], 0)
  /\ UNCHANGED << told, chain, mempool, faults >>

-----------------------------------------------------------------------------
(* download: the CLI command and the library call *)

\* read_back_staged: the output directory comes first.
OutputDir(p) ==
  /\ proc[p].pc = "output"
  /\ \/ Set(p, [To(p, "row") EXCEPT !.staged = TRUE]) /\ UNCHANGED << leases, faults >>
     \/ Fault /\ Bail(p)
  /\ UNCHANGED << told, chain, mempool >>

\* Mutant: whatever is not public is private.
RouteOrPrivate(row) ==
  CASE row = Absent -> "V1Legacy" [] row = "public" -> "V2Public" [] OTHER -> "V2Private"

\* route_download_target: an unknown visibility is refused.
Route(row) ==
  CASE row = Absent -> "V1Legacy" [] row = "public" -> "V2Public"
    [] row = "private" -> "V2Private" [] OTHER -> Absent

\* The row is read with .ok().flatten(): an error counts as no row.  A Private
\* file without a seed and an unknown visibility end before the network.
ReadTarget(p) ==
  /\ proc[p].pc = "row"
  /\ \E ok \in BOOLEAN :
       LET row == IF ok /\ chain.row # "none" THEN chain.vis ELSE Absent
           refused == (row = "private" /\ ~told[p].seed) \/ Route(row) = Absent
       IN /\ IF ok THEN UNCHANGED faults ELSE Fault
          /\ IF refused THEN Bail(p)
             ELSE /\ Set(p, [To(p, "net") EXCEPT !.route = Route(row), !.blind = ~ok])
                  /\ UNCHANGED leases
  /\ UNCHANGED << told, chain, mempool >>

\* The private route needs no store.
TakeRoute(p) ==
  /\ proc[p].pc = "route"
  /\ Set(p, To(p, IF proc[p].route = "V2Private" THEN "get" ELSE "store"))
  /\ UNCHANGED << told, chain, leases, mempool, faults >>

\* A library call drops its store, then shuts its network down, whatever
\* happened; the process of a CLI command that fails just ends.
GiveUp(p) ==
  IF told[p].library
  THEN Set(p, [To(p, "shutdown") EXCEPT !.code = 1]) /\ leases' = leases \ {p}
  ELSE Bail(p)

\* The replication factor is never guessed, in no profile.
ReadFactor(p) ==
  /\ proc[p].pc = "factor"
  /\ \/ /\ Set(p, [To(p, "get") EXCEPT !.params = FromChain])
        /\ UNCHANGED << leases, faults >>
     \/ Fault /\ GiveUp(p)
  /\ UNCHANGED << told, chain, mempool >>

Downloads(p) ==
  /\ proc[p].pc = "get"
  /\ \/ /\ Set(p, To(p, "shutdown"))
        /\ leases' = IF told[p].library THEN leases \ {p} ELSE leases
     \/ GiveUp(p)
  /\ UNCHANGED << told, chain, mempool, faults >>

-----------------------------------------------------------------------------
(* run_fetch: one chunk over V1 *)

\* The chunk is there already, a peer turns up, or nobody does.
FindPeer(p) ==
  /\ proc[p].pc = "peer"
  /\ \/ Finish(p, proc[p], 0)
     \/ Set(p, [To(p, "fetch") EXCEPT !.asked = 1]) /\ UNCHANGED leases
     \/ Bail(p)
  /\ UNCHANGED << told, chain, mempool, faults >>

\* The last piece, an error response, the deadline or Ctrl-C.
FetchEnds(p) ==
  /\ proc[p].pc = "fetch"
  /\ \/ Set(p, To(p, "shutdown")) /\ UNCHANGED leases
     \/ Bail(p)
  /\ UNCHANGED << told, chain, mempool, faults >>

\* Mutant: calling start_fetch again starts the count again.
RetryForever(p) ==
  /\ proc[p].pc = "fetch"
  /\ Set(p, [proc[p] EXCEPT !.retries = IF @ = MaxRetries THEN 0 ELSE @ + 1])
  /\ UNCHANGED << told, chain, leases, mempool, faults >>

\* Mutant: one retry too many.
RetryOnceMore(p) ==
  /\ proc[p].pc = "fetch"
  /\ IF proc[p].retries > MaxRetries THEN Bail(p)
     ELSE /\ Set(p, [proc[p] EXCEPT !.retries = @ + 1])
          /\ UNCHANGED leases
  /\ UNCHANGED << told, chain, mempool, faults >>

\* The request failed.  start_fetch is called again, but the fetch is still
\* active, so nothing is sent.
FetchRequestFailed(p) ==
  /\ proc[p].pc = "fetch"
  /\ IF proc[p].retries = MaxRetries THEN Bail(p)
     ELSE /\ Set(p, [proc[p] EXCEPT !.retries = @ + 1])
          /\ UNCHANGED leases
  /\ UNCHANGED << told, chain, mempool, faults >>

-----------------------------------------------------------------------------
\* Mutant: a lease kept as a file outlives its process.
KillKeepsLease(p) ==
  /\ Live(p)
  /\ Set(p, [To(p, "killed") EXCEPT !.net = FALSE])
  /\ UNCHANGED << told, chain, leases, mempool, faults >>

\* The kernel closes a killed process's sockets and locks; nobody removes the
\* directory it staged.
Kill(p) ==
  /\ Live(p)
  /\ Set(p, [To(p, "killed") EXCEPT !.net = FALSE])
  /\ leases' = leases \ {p}
  /\ UNCHANGED << told, chain, mempool, faults >>

-----------------------------------------------------------------------------
Fresh(state) ==
  [pc |-> state, params |-> Absent, outcome |-> Absent, code |-> 0,
   printed |-> [root |-> FALSE, lifecycle |-> Absent], staged |-> FALSE,
   net |-> FALSE, route |-> Absent, blind |-> FALSE, mine |-> FALSE,
   retries |-> 0, asked |-> 0]

CommandsIdle(scenario, state) ==
  /\ told = scenario.told /\ chain = scenario.chain
  /\ proc = [p \in Procs |-> Fresh(state)]
  /\ leases = {} /\ mempool = {} /\ faults = 0

Step(p) ==
  \/ Dispatch(p) \/ Preflight(p) \/ OpenNet(p) \/ Params(p) \/ Stage(p)
  \/ NoTargetsOutcome(p) \/ IngestRegister(p) \/ IngestUnconfirmed(p)
  \/ \E root \in BOOLEAN : IngestNotSent(p, root)
  \/ EndsPending(p) \/ Activates(p) \/ ResumeReads(p) \/ RepushReads(p) \/ ReadFails(p)
  \/ Abandons(p) \/ NoRecipients(p)
  \/ Report(p) \/ Shutdown(p) \/ OpenStore(p) \/ OutputDir(p) \/ ReadTarget(p)
  \/ TakeRoute(p) \/ ReadFactor(p) \/ Downloads(p) \/ FindPeer(p) \/ FetchEnds(p)
  \/ FetchRequestFailed(p)

CommandsNext ==
  \E p \in Procs : Step(p) \/ StopListening(p) \/ Lands(p) \/ Kill(p)

-----------------------------------------------------------------------------
(* Properties *)

Registered == chain.row # "none" \/ chain.v1

\* What a command tells its caller is so, whatever the other commands do at
\* the same time: Active and Abandoned are final, Pending and code 7 mean the
\* root is registered, and after code 6 nothing of this run is on the chain
\* or can get there.
ReportsAreTrue ==
  \A p \in Procs :
    LET s == proc[p] IN
    s.pc \in {"shutdown", "done"} =>
      /\ s.printed.lifecycle = "Active" => chain.row = "active"
      /\ s.printed.lifecycle = "Abandoned" => chain.row = "abandoned"
      /\ s.printed.lifecycle = "Pending" => Registered
      /\ (told[p].cmd = "ingest" /\ told[p].status) =>
           /\ s.code = 7 => Registered
           /\ s.code = 6 => ~s.mine /\ p \notin mempool
           /\ (p \in mempool \/ s.mine) => (s.printed.root \/ s.code = 1)
           /\ s.code = 0 => ((s.pc = "done" /\ s.outcome = Absent) \/ chain.row = "active")

\* A file gets registered only by a run that has targets for it, and in the
\* production profile only with the chain's own parameters, although they are
\* read twice and either read may fail.
RegistersWithTargets ==
  \A p \in Procs :
    (proc[p].mine \/ p \in mempool) =>
      /\ proc[p].params.r > 0
      /\ told[p].profile = "production" => proc[p].params.live /\ chain.r > 0

\* A store root has one manager at a time, and it is a running process.
RootHasOneManager ==
  /\ \A p \in leases : Live(p)
  /\ \A p, q \in leases : p # q => told[p].root # told[q].root

\* A command that ended by itself leaves no staged plaintext behind, and a
\* library download no running network.
NothingLeftBehind ==
  \A p \in Procs : proc[p].pc = "done" =>
    /\ ~proc[p].staged
    /\ proc[p].net => told[p].cmd = "ingest"

\* A download over the network follows the row: only a seed opens a Private
\* file, an unknown visibility is never opened, and the V1 route is for files
\* without a V2 row or when the row could not be read.
RouteFollowsRow ==
  \A p \in Procs :
    (proc[p].net /\ told[p].cmd = "download") =>
      CASE proc[p].route = "V2Private" -> chain.vis = "private" /\ told[p].seed
        [] proc[p].route = "V2Public" -> chain.vis = "public"
        [] OTHER -> proc[p].blind \/ chain.row = "none" \/ \E q \in Procs : proc[q].mine

\* Every command but listen ends.
ProcessesEnd ==
  \A p \in Procs :
    (Live(p) /\ told[p].cmd # "listen") ~> proc[p].pc \in {"done", "killed"}
=============================================================================
