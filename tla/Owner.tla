------------------------------- MODULE Owner -------------------------------
(***************************************************************************)
(* The operator's chain commands together: processes that may be started   *)
(* at once, by one person twice or by several, against one chain.          *)
(***************************************************************************)
EXTENDS OwnerCommands

Step(p) == SubmitStep(p) \/ AccessStep(p) \/ ReassignStep(p) \/ AuditStep(p)

OwnerNext == ChainStep \/ \E p \in Procs : Start(p) \/ Fails(p) \/ Step(p)

\* Fairness: an RPC call returns, with an answer or an error, and a deadline
\* passes.  Nothing is assumed of the chain.
OwnerSpec == OwnerInit /\ [][OwnerNext]_ownerVars /\ \A p \in Procs : WF_ownerVars(Step(p))

-----------------------------------------------------------------------------

Statuses == {"none", "pending", "included", "finalized", "failed", "dropped"}

OwnerTypeOK ==
  /\ row \in Rows /\ open \in BOOLEAN /\ head \in 0 .. MaxBlocks + 1 /\ height \in Nat
  /\ \A s \in {now, fin} :
       /\ \A i \in DOMAIN s.list : s.list[i].who \in Accounts /\ s.list[i].until \in Nat
       /\ \A i, j \in DOMAIN s.list : s.list[i].who = s.list[j].who => i = j
       /\ s.gone \subseteq Archives
       /\ \A f \in Files : s.snap[f] \subseteq Archives
       /\ \A a \in Accounts : fin.nonce[a] <= now.nonce[a]
  /\ \A p \in Procs :
       /\ tx[p].st \in Statuses
       /\ tx[p].st # "none" => proc[p].pc \in {"wait", "done"}
       /\ proc[p].page \in 0 .. MaxPages - 1 /\ proc[p].tries \in 0 .. ReadAttempts
  /\ have \subseteq Files

\* The owner can always recover the file key: whatever commands ran and
\* whatever the chain undid, its own entry is listed with a bundle it opens,
\* which run_share needs for every later share (OwnerSelfRevoke exists for it).
OwnerKeepsKey ==
  \A s \in {now, fin} : \E i \in DOMAIN s.list :
     s.list[i].who = Owner /\ s.list[i].bundle = Owner

\* Every listed account can open the bundle stored with its entry: an update
\* carries over the bundle it read for that account, even if the entry was
\* revoked and granted again in between.
BundlesOpen ==
  \A i \in DOMAIN now.list : now.list[i].bundle = now.list[i].who

\* A command that reports success has its own transaction on the finalized
\* chain, not one that was only included, replaced at its nonce, or undone.
SuccessIsFinal ==
  \A p \in Procs : proc[p].out = "ok" => tx[p].st = "finalized"

\* "Not listed", the owner's NotInAccessList or a recipient's NoAccess, has a
\* cause: at some moment of the scan the account was not among the entries it
\* can reach (the first MaxPages pages), or it moved up the list, past the
\* offset read next (an entry before it was removed, or a block undone);
\* never a page boundary.
NotListedHasCause ==
  \A p \in Procs : proc[p].out = "not-listed" => proc[p].cause

\* A reassignment is signed only for a file that had, at some moment between
\* the two reads of the head, a departed archive with a chunk of it; a
\* coverage answer put together from two states is not enough.
ReassignIsJustified ==
  \A p \in Procs :
     proc[p].cmd.op = "reassign" /\ proc[p].pc \in {"build", "send", "wait"} => proc[p].cause

\* A complete audit means the archive could answer for every chunk assigned
\* to it, under the epochs in force when the last file had been evaluated,
\* for all files of the inventory at once, unless blocks were undone meanwhile.
CompleteAuditHolds ==
  \A p \in Procs : proc[p].out = "complete" => proc[p].cause

\* Every command that was started ends, in success, refusal, error or timeout,
\* whatever the chain does with its transaction.
CommandsEnd == []<>(\A p \in Procs : proc[p].pc \in {"idle", "done"})

\* The access list stays usable: for the owner, for everyone listed, and for
\* whoever looks an entry up while it changes.
AccessStaysUsable == OwnerKeepsKey /\ BundlesOpen /\ NotListedHasCause

\* What a command reports or decides holds on the chain.
VerdictsHold == OwnerTypeOK /\ SuccessIsFinal /\ ReassignIsJustified /\ CompleteAuditHolds
=============================================================================
