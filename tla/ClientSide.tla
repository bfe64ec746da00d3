----------------------------- MODULE ClientSide -----------------------------
(* What runs on a client's host around the ingest pipeline and the download: *)
(* peer discovery, the V1 upload, and the commands and library calls.  They  *)
(* share no state, so a behaviour is one of the three.                       *)
EXTENDS Discovery, Upload, Commands

NoCommands == [told |-> [p \in Procs |-> Absent], chain |-> Absent]

ClientInit ==
  \/ /\ DiscoveryIdle("start")
     /\ UploadIdle(NoUpload, "off") /\ CommandsIdle(NoCommands, "off")
  \/ /\ \E c \in UploadCases : UploadIdle(c, "start")
     /\ DiscoveryIdle("off") /\ CommandsIdle(NoCommands, "off")
  \/ /\ \E s \in Scenarios : CommandsIdle(s, "start")
     /\ DiscoveryIdle("off") /\ UploadIdle(NoUpload, "off")

ClientNext ==
  \/ DiscoveryNext /\ UNCHANGED << uvars, cvars >>
  \/ UploadNext /\ UNCHANGED << dvars, cvars >>
  \/ CommandsNext /\ UNCHANGED << dvars, uvars >>

clientVars == << dvars, uvars, cvars >>

\* The owner's and the orchestrator's tasks go on while a timer of theirs or
\* an event is due, and the operating system schedules every process.  The
\* network, the nodes and the other processes owe nothing.
ClientFairness ==
  /\ WF_clientVars(DiscoverySteps /\ UNCHANGED << uvars, cvars >>)
  /\ WF_clientVars(UploadSteps /\ UNCHANGED << dvars, cvars >>)
  /\ \A p \in Procs : WF_clientVars(Step(p) /\ UNCHANGED << dvars, uvars >>)

ClientSpec == ClientInit /\ [][ClientNext]_clientVars /\ ClientFairness

-----------------------------------------------------------------------------
\* Values have their types; a file's chunk is confirmed at most once per node,
\* and a process that holds nothing open has ended or has not begun.
ClientTypeOK ==
  /\ dpc \in {"off", "start", "check", "select", "ended", "refused", "pushing"}
  /\ required \cup resolver \cup connected \subseteq DPeers
  /\ verdict.how \in {"none", "complete", "timedout", "closed"}
  /\ upc \in {"off", "start", "slice", "wait", "result", "ended"}
  /\ result \in {"none", "ok", "aborted", "NoEligibleTargets", "Timeout",
                 "FailedPushes", "IncompleteConfirmations"}
  /\ leases \subseteq Procs /\ mempool \subseteq Procs
  /\ faults \in 0..MaxFaults
  /\ \A p \in Procs :
       /\ proc[p].code \in {0, 1, 3, 4, 5, 6, 7, 8}
       /\ proc[p].retries \in 0..MaxRetries
       /\ proc[p].pc = "report" => proc[p].outcome # Absent

\* A push reaches whom it is meant for: discovery knows whom a push can reach,
\* and an upload that succeeded is stored.
PushesReachTheirTargets ==
  CompleteResolves /\ MissingIsUnresolved /\ SuccessIsReplicated /\ BuffersAreBounded

\* Commands on one host and one chain do not mislead their callers, nor each
\* other.
CommandsAreHonest ==
  /\ ClientTypeOK
  /\ ReportsAreTrue /\ RegistersWithTargets /\ RouteFollowsRow
  /\ RootHasOneManager /\ NothingLeftBehind

\* Everything that was started ends.
EverythingEnds == DiscoveryEnds /\ UploadEnds /\ ProcessesEnd
=============================================================================
