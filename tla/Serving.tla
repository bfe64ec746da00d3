------------------------------ MODULE Serving ------------------------------
(***************************************************************************)
(* A listening archive (run_listen, shard_dispatch.rs, acl.rs, serve.rs,   *)
(* inbound_v2.rs).  One loop takes the network's events in order and       *)
(* handles each to its end before the next: V1 and V2 requests, answers to *)
(* its own pulls, peers that come and go.  A pull is decided by the chain  *)
(* while the store's read guard is held; the market task sweeps the same   *)
(* store under the write guard, and the chain moves meanwhile.             *)
(* One peer per L1 address; a file is one chunk and its manifest.          *)
(***************************************************************************)
EXTENDS Naturals, Sequences, FiniteSets

CONSTANTS
  Files, Peers, None,
  Row,           \* file -> what the chain has: "public", "private", "legacy", "none"
  PageSize,      \* access entries in the row an archive reads (256)
  Nodes,         \* [profile, v2]: "production" or "dev", with a signing key or not
  Events,        \* what can arrive
  MaxEvents,     \* bound: events that arrive
  Lists,         \* bound: access lists the Private file can have
  MaxHeight      \* bound: finalized height

ASSUME ServingAssumption ==
  /\ Row \in [Files -> {"public", "private", "legacy", "none"}]
  /\ PageSize \in Nat \ {0} /\ MaxHeight \in Nat /\ MaxEvents \in Nat
  /\ Nodes \subseteq [profile : {"production", "dev"}, v2 : BOOLEAN] /\ None \notin Files
  /\ Lists \subseteq Seq([peer : Peers, until : Nat])

\* The events of the network a listening node handles.  A V1 push is one op, of a
\* chunk or of a manifest.  The content of a manifest is the file it is the
\* manifest of, whatever root it comes under.
ASSUME EventsAssumption ==
  \A e \in Events :
    \/ e \in [type : {"request"}, proto : {1}, file : Files, peer : Peers,
             op : {"chunk", "manifest", "push"}]
    \/ e \in [type : {"request"}, proto : {2}, file : Files, peer : Peers,
             op : {"chunk", "manifest", "push"}]
    \/ e \in [type : {"request"}, proto : {2}, file : Files, peer : Peers,
             op : {"manifestpush"}, content : Files]
    \/ e \in [type : {"identified", "gone"}, peer : Peers]
    \/ e \in [type : {"data"}, asked : Files]
    \/ e \in [type : {"manifest"}, asked : Files, content : Files]

VARIABLES
  profile, v2,   \* how the node runs
  list,          \* chain: access list of the Private file, in order: [peer, until],
                 \* until 0 for no expiry, h + 1 for expires_at h
  v1list,        \* chain: V1 access list of the legacy file
  height,        \* chain: finalized height
  known,         \* peer_addresses
  disk,          \* files whose chunk is in the chunk store
  index,         \* files whose chunk CID resolves to their root
  manifests,     \* by_root: file -> the file whose manifest is stored for it
  opaque,        \* private_bytes: file -> the file whose sealed manifest is
  queue,         \* events not yet taken, with their ids
  arrived,       \* events so far
  job,           \* the event being handled
  lock,          \* the store's lock: [w, r, q], writer, readers, waiters in order
  market,        \* the market task: "idle", "waiting", "sweeping"
  answers        \* id -> answers sent

vars == <<profile, v2, list, v1list, height, known, disk, index, manifests, opaque,
          queue, arrived, job, lock, market, answers>>
chain == <<list, v1list, height>>
node == <<profile, v2>>
store == <<disk, index, manifests, opaque>>

NoJob == [pc |-> "idle", ev |-> [type |-> "none"], until |-> 0, seen |-> {}, what |-> "none"]

Init ==
  /\ \E n \in Nodes : profile = n.profile /\ v2 = n.v2
  /\ list = <<>> /\ v1list \in {{}, Peers} /\ height = 0
  /\ known = {} /\ disk \in {{}, Files} /\ index = disk
  /\ manifests = [f \in Files |-> IF f \in disk /\ Row[f] # "private" THEN f ELSE None]
  /\ opaque = [f \in Files |-> None]
  /\ queue = <<>> /\ arrived = 0 /\ job = NoJob
  /\ lock = [w |-> FALSE, r |-> 0, q |-> <<>>] /\ market = "idle"
  /\ answers = [i \in 1 .. MaxEvents |-> {}]

---------------------------------------------------------------------------
(* Surroundings: the network, the chain, the market task. *)

Arrive ==
  /\ arrived < MaxEvents /\ arrived' = arrived + 1
  /\ \E e \in Events : queue' = Append(queue, [ev |-> e, id |-> arrived + 1])
  /\ UNCHANGED <<node, chain, known, store, job, lock, market, answers>>

ChainMoves ==
  /\ \/ list' \in Lists \ {list} /\ UNCHANGED height
     \/ height < MaxHeight /\ height' = height + 1 /\ UNCHANGED list
  /\ UNCHANGED <<node, v1list, known, store, queue, arrived, job, lock, market, answers>>

\* tokio's RwLock is fair: who waits is served in order.
Wait(t, mode) == lock' = [lock EXCEPT !.q = Append(@, <<t, mode>>)]
Granted(t, mode) ==
  /\ lock.q # <<>> /\ Head(lock.q) = <<t, mode>> /\ ~lock.w
  /\ mode = "write" => lock.r = 0
  /\ lock' = [lock EXCEPT !.q = Tail(@), !.w = (mode = "write"),
                          !.r = IF mode = "read" THEN @ + 1 ELSE @]
Release(mode) ==
  lock' = IF mode = "write" THEN [lock EXCEPT !.w = FALSE] ELSE [lock EXCEPT !.r = @ - 1]

\* Mutant: the sweep does not wait for the lock.
MarketSweepsAtOnce ==
  /\ v2 /\ market = "idle" /\ market' = "sweeping" /\ UNCHANGED lock
  /\ UNCHANGED <<node, chain, known, store, queue, arrived, job, answers>>

\* A market cycle: candidates are computed and deleted under one write guard.
MarketWaits ==
  /\ v2 /\ market = "idle" /\ market' = "waiting" /\ Wait("market", "write")
  /\ UNCHANGED <<node, chain, known, store, queue, arrived, job, answers>>
MarketLocks ==
  /\ market = "waiting" /\ market' = "sweeping" /\ Granted("market", "write")
  /\ UNCHANGED <<node, chain, known, store, queue, arrived, job, answers>>
MarketSweeps ==
  /\ market = "sweeping" /\ market' = "idle" /\ Release("write")
  /\ disk' \in {disk, disk \ {f \in Files : Row[f] = "legacy"}}
  /\ UNCHANGED <<node, chain, known, index, manifests, opaque, queue, arrived, job, answers>>

---------------------------------------------------------------------------
(* Taking an event. *)

Same == UNCHANGED <<node, chain, arrived, market>>

Answer(what) ==
  /\ answers' = [answers EXCEPT ![job.ev.id] = @ \cup {what}]
  /\ job' = [NoJob EXCEPT !.what = what, !.seen = job.seen, !.ev = job.ev]

\* Mutant: a V2 request is dropped by a node that cannot serve it.
V2DisabledDropped(e) == job' = NoJob /\ UNCHANGED answers

\* on_v2_request without a dispatcher: a refusal of the request's own shape.
V2Disabled(e) ==
  /\ answers' = [answers EXCEPT ![e.id] = @ \cup {"disabled"}]
  /\ job' = [NoJob EXCEPT !.what = "disabled", !.ev = e]

Start(e, pc) == job' = [NoJob EXCEPT !.pc = pc, !.ev = e] /\ UNCHANGED answers

\* Mutant: the refusal does not return.
V1RequestFallsThrough(e) ==
  /\ job' = [NoJob EXCEPT !.pc = "lock", !.ev = e] /\ Wait("listen", "read")
  /\ answers' = IF e.op = "push" THEN [answers EXCEPT ![e.id] = @ \cup {"retired"}] ELSE answers

\* on_v1_request: a push, of a chunk or of a manifest, is refused first.
V1Request(e) ==
  \/ /\ e.op = "push" /\ UNCHANGED lock
     /\ answers' = [answers EXCEPT ![e.id] = @ \cup {"retired"}]
     /\ job' = [NoJob EXCEPT !.what = "retired", !.ev = e]
  \/ e.op # "push" /\ Start(e, "lock") /\ Wait("listen", "read")

\* on_v2_request, V2Dispatcher::handle.
V2Request(e) ==
  \/ ~v2 /\ V2Disabled(e) /\ UNCHANGED lock
  \/ /\ v2 /\ e.op \in {"push", "manifestpush"}
     /\ Start(e, "validate") /\ UNCHANGED lock
  \/ /\ v2 /\ e.op \in {"chunk", "manifest"}
     /\ Start(e, "lock") /\ Wait("listen", "read")

\* Mutant: validated against the root the answer itself names.
ReceivedAsNamed(e) == Start(e, "commit") /\ Wait("listen", "write")

\* An answer to a pull of this node.  A manifest is validated, without the lock,
\* against the root that was asked for; a chunk goes to the fetch manager.
Received(e) ==
  \/ /\ e.type = "manifest" /\ e.content # e.asked
     /\ UNCHANGED <<job, lock, answers>>
  \/ /\ (e.type = "manifest" => e.content = e.asked)
     /\ Start(e, "commit") /\ Wait("listen", "write")

Take ==
  /\ job.pc = "idle" /\ queue # <<>> /\ queue' = Tail(queue)
  /\ LET h == Head(queue)
         e == [x \in DOMAIN h.ev \cup {"id"} |-> IF x = "id" THEN h.id ELSE h.ev[x]]
     IN \/ e.type = "request" /\ e.proto = 1 /\ V1Request(e) /\ UNCHANGED known
        \/ e.type = "request" /\ e.proto = 2 /\ V2Request(e) /\ UNCHANGED known
        \/ e.type \in {"manifest", "data"} /\ Received(e) /\ UNCHANGED known
        \/ /\ e.type = "identified" /\ known' = known \cup {e.peer}
           /\ UNCHANGED <<job, lock, answers>>
        \/ /\ e.type = "gone" /\ known' = known \ {e.peer}
           /\ UNCHANGED <<job, lock, answers>>
  /\ Same /\ UNCHANGED store

---------------------------------------------------------------------------
(* The access decision (AclChecker::check_access), under the read guard. *)

File == job.ev.file
Peer == job.ev.peer
Steps(pcs) == job.pc \in pcs /\ UNCHANGED <<known, queue, store>> /\ Same

Entry(l) == {i \in DOMAIN l : l[i].peer = Peer}
Unexpired(i) == list[i].until = 0 \/ height <= list[i].until - 1

\* What the chain grants now, whatever an archive reads of it.
Entitled ==
  \/ Row[File] = "public"
  \/ Row[File] = "private" /\ \E i \in Entry(list) : Unexpired(i)
  \/ Row[File] = "legacy" /\ (v1list = {} \/ Peer \in v1list)

\* What held at the reads this decision rests on.
Seen(more) == job.seen \cup more \cup {IF Entitled THEN "entitled" ELSE "not"}

\* Mutant: a refusal keeps the guard.
DeniedHolding(more) ==
  /\ answers' = [answers EXCEPT ![job.ev.id] = @ \cup {"denied"}]
  /\ job' = [NoJob EXCEPT !.what = "denied", !.seen = Seen(more), !.ev = job.ev]
  /\ UNCHANGED lock

Denied(more) == /\ Release("read")
                /\ answers' = [answers EXCEPT ![job.ev.id] = @ \cup {"denied"}]
                /\ job' = [NoJob EXCEPT !.what = "denied", !.seen = Seen(more), !.ev = job.ev,
                                        !.until = job.until]
Allowed == /\ job' = [job EXCEPT !.pc = "look", !.seen = Seen({})]
           /\ UNCHANGED <<lock, answers>>
Ask(pc) == /\ job' = [job EXCEPT !.pc = pc, !.seen = Seen({})]
           /\ UNCHANGED <<lock, answers>>

\* The uncertain branches and every RPC error: closed in production, open in dev.
Uncertain(why) == IF profile = "dev" THEN Allowed ELSE Denied({why})

\* The guard is held from here until the answer; a chunk's root comes from the
\* index, a manifest's from the request.
ReadLock ==
  /\ Granted("listen", "read")
  /\ job' = [job EXCEPT !.pc = IF job.ev.op = "manifest" \/ File \in index THEN "row"
                               ELSE "unknown"]
  /\ Steps({"lock"}) /\ UNCHANGED answers

UnknownCid == Steps({"unknown"}) /\ Uncertain("unindexed")

\* Mutant: a failed read opens the file, in production too.
RowFailsOpen == Allowed

\* storage_getFileInfoV2 fails: no fallback to V1.
RowFails == Uncertain("error")

\* check_access_v2: the row carries the first page of the access list.
RowAnswers ==
  LET page == SubSeq(list, 1, IF Len(list) < PageSize THEN Len(list) ELSE PageSize) IN
  \/ Row[File] = "public" /\ Allowed
  \/ Row[File] = "private" /\ Peer \notin known /\ Denied({"unidentified"})
  \/ /\ Row[File] = "private" /\ Peer \in known /\ Entry(page) = {}
     /\ Denied(IF Entry(list) = {} THEN {} ELSE {"beyond"})
  \/ /\ Row[File] = "private" /\ Peer \in known /\ Entry(page) # {}
     /\ LET until == page[CHOOSE i \in Entry(page) : TRUE].until IN
        IF until = 0 THEN Allowed
        ELSE /\ job' = [job EXCEPT !.pc = "height", !.seen = Seen({}), !.until = until]
             /\ UNCHANGED <<lock, answers>>
  \/ Row[File] \in {"legacy", "none"} /\ Ask("v1")

ReadRow == Steps({"row"}) /\ (RowAnswers \/ RowFails)

\* Mutant: an entry ends with its last height, not after it.
EndedEarly(until) == height >= until - 1

Ended(until) == height > until - 1

\* The finalized height is read after the row.
ReadHeight ==
  /\ Steps({"height"})
  /\ \/ Ended(job.until) /\ Denied({"ended"})
     \/ ~Ended(job.until) /\ Allowed
     \/ Uncertain("error")

\* storage_getAccessList, for a file without a V2 row.
ReadV1 ==
  /\ Steps({"v1"})
  /\ \/ Row[File] # "legacy" /\ Uncertain("unregistered")
     \/ Row[File] = "legacy" /\ (v1list = {} \/ (Peer \in known /\ Peer \in v1list)) /\ Allowed
     \/ Row[File] = "legacy" /\ v1list # {} /\ Peer \notin known /\ Denied({"unidentified"})
     \/ Row[File] = "legacy" /\ v1list # {} /\ Peer \in known \ v1list /\ Denied({})
     \/ Uncertain("error")

---------------------------------------------------------------------------
(* Serving, still under the guard. *)

Serve(what) == Release("read") /\ Answer(what) /\ UNCHANGED <<known, queue, store>> /\ Same

\* handle_chunk_request: has, then mmap; build_pull_response reads in one go.
Look ==
  /\ job.pc = "look"
  /\ CASE job.ev.op = "manifest" ->
            Serve(IF manifests[File] = None /\ opaque[File] = None THEN "notfound" ELSE "data")
       [] job.ev.op = "chunk" /\ File \notin disk -> Serve("notfound")
       [] OTHER -> /\ job' = [job EXCEPT !.pc = "map"] /\ UNCHANGED <<lock, answers>>
                   /\ UNCHANGED <<known, queue, store>> /\ Same

Map == /\ job.pc = "map" /\ Serve(IF File \in disk THEN "data" ELSE "maperror")

---------------------------------------------------------------------------
(* V2 pushes and the answers to own pulls. *)

\* Mutant: a Public manifest is taken for the root it is pushed under.
ValidateUnchecked ==
  /\ Steps({"validate"})
  /\ \/ Answer("refused") /\ UNCHANGED lock
     \/ /\ Row[File] \in {"public", "private"} /\ Wait("listen", "write")
        /\ job' = [job EXCEPT !.pc = "exempt"] /\ UNCHANGED answers

\* validate_push (module PushValidator), or the visibility probe of a manifest
\* push and the validation of a Public manifest against the root it names (a
\* Private one is sealed and cannot be validated): without the lock.
Validate ==
  /\ Steps({"validate"})
  /\ \/ Answer("refused") /\ UNCHANGED lock
     \/ /\ Row[File] \in {"public", "private"}
        /\ job.ev.op = "manifestpush" /\ Row[File] = "public" => job.ev.content = File
        /\ job' = [job EXCEPT !.pc = "exempt"] /\ Wait("listen", "write")
        /\ UNCHANGED answers

\* store_v2_pushed_chunk: the exemption under the write guard, the bytes under
\* the read guard, then the records under the write guard again.
Exempt ==
  /\ Granted("listen", "write") /\ Steps({"exempt"}) /\ UNCHANGED answers
  /\ job' = [job EXCEPT !.pc = IF job.ev.op = "push" THEN "exempted" ELSE "index"]
Exempted ==
  /\ Steps({"exempted"}) /\ UNCHANGED answers
  /\ lock' = [lock EXCEPT !.w = FALSE, !.q = Append(@, <<"listen", "read">>)]
  /\ job' = [job EXCEPT !.pc = "put"]
Put ==
  /\ job.pc = "put" /\ Granted("listen", "read")
  /\ disk' = disk \cup {File} /\ job' = [job EXCEPT !.pc = "putdone"]
  /\ UNCHANGED <<known, queue, index, manifests, opaque, answers>> /\ Same
PutDone ==
  /\ Steps({"putdone"}) /\ UNCHANGED answers
  /\ lock' = [lock EXCEPT !.r = @ - 1, !.q = Append(@, <<"listen", "write">>)]
  /\ job' = [job EXCEPT !.pc = "records"]
Records ==
  /\ Granted("listen", "write") /\ Steps({"records"}) /\ UNCHANGED answers
  /\ job' = [job EXCEPT !.pc = "index"]

\* Mutant: every push records where its chunk belongs.
IndexedAlways == index \cup {File}

\* record_private_chunk_cid of a Private push, or insert (add_to_maps) of a Public
\* manifest: a Public push and insert_private index no CID.
Indexed ==
  IF (job.ev.op = "push") <=> (Row[File] = "private") THEN index \cup {File} ELSE index

\* What was stored first under a root stays.
FirstKept(stored, content) == IF stored = None THEN content ELSE stored

\* The last write of a push or a manifest push, and its acknowledgement.  A
\* Private manifest is stored as it came.
IndexAndAck ==
  /\ job.pc = "index" /\ Release("write")
  /\ \/ /\ Answer("ack") /\ index' = Indexed
        /\ manifests' = IF job.ev.op = "manifestpush" /\ Row[File] # "private"
                        THEN [manifests EXCEPT ![File] = FirstKept(@, job.ev.content)]
                        ELSE manifests
        /\ opaque' = IF job.ev.op = "manifestpush" /\ Row[File] = "private"
                     THEN [opaque EXCEPT ![File] = FirstKept(@, job.ev.content)] ELSE opaque
     \/ Answer("refused") /\ UNCHANGED <<index, manifests, opaque>>
  /\ UNCHANGED <<known, queue, disk>> /\ Same

\* commit_manifest_ingress, or FetchManager::on_chunk_received.
Commit ==
  /\ job.pc = "commit" /\ Granted("listen", "write")
  /\ job' = [job EXCEPT !.pc = "committed"]
  /\ IF job.ev.type = "manifest"
     THEN /\ manifests' = [manifests EXCEPT ![job.ev.asked] = FirstKept(@, job.ev.content)]
          /\ index' = index \cup {job.ev.asked} /\ UNCHANGED disk
     ELSE disk' = disk \cup {job.ev.asked} /\ UNCHANGED <<index, manifests>>
  /\ UNCHANGED <<known, queue, opaque, answers>> /\ Same
Committed ==
  /\ Steps({"committed"}) /\ Release("write") /\ job' = NoJob /\ UNCHANGED answers

Handle ==
  \/ ReadLock \/ UnknownCid \/ ReadRow \/ ReadHeight \/ ReadV1 \/ Look \/ Map
  \/ Validate \/ Exempt \/ Exempted \/ Put \/ PutDone \/ Records \/ IndexAndAck
  \/ Commit \/ Committed

Next == Arrive \/ ChainMoves \/ MarketWaits \/ MarketLocks \/ MarketSweeps \/ Take \/ Handle

\* The loop goes on, every RPC returns and the market task lets go of the lock.
Spec == /\ Init /\ [][Next]_vars /\ WF_vars(Take) /\ WF_vars(Handle)
        /\ WF_vars(MarketLocks) /\ WF_vars(MarketSweeps)

---------------------------------------------------------------------------

TypeOK ==
  /\ known \subseteq Peers /\ disk \subseteq Files /\ index \subseteq Files
  /\ lock.r \in 0 .. 1 /\ lock.w \in BOOLEAN /\ ~(lock.w /\ lock.r > 0)
  /\ Len(lock.q) <= 2 /\ market \in {"idle", "waiting", "sweeping"}
  /\ job.pc = "idle" => \A i \in DOMAIN lock.q : lock.q[i][1] = "market"

\* In production, bytes or a manifest go to a peer only if the chain granted it
\* the file at one of the reads made for this request: no error, no list change
\* between the reads and no expiry in between opens a file.
ServedIsEntitled ==
  profile = "production" /\ job.what = "data" => "entitled" \in job.seen

\* In production a refusal has a cause that held at a read made for it: no grant,
\* a failed read, a peer not identified yet, a chunk not indexed here, an entry
\* past the page an archive reads, or an entry that has ended since it was read
\* (even if it was prolonged in between).
DeniedHasCause ==
  profile = "production" /\ job.what = "denied" =>
    \/ job.seen \cap {"not", "error", "unidentified", "unindexed", "unregistered", "beyond"} # {}
    \/ "ended" \in job.seen /\ height > job.until - 1

\* A chunk that was there when the request was decided is there to be read: the
\* sweep cannot come in between.
FoundIsServed == job.what # "maperror"

\* Whoever pushed or answered what, in any order: the manifest served for a file
\* that is not Private is the one of that file, and its chunk resolves to it
\* exactly from when its manifest is indexed, not from when its bytes are
\* stored.  Sealed bytes, which nobody here can judge, are kept for Private
\* files alone.
ManifestsAreRequested ==
  \A f \in Files :
    /\ manifests[f] \in {None, f}
    /\ Row[f] # "private" => /\ opaque[f] = None
                             /\ f \in index <=> manifests[f] = f

\* No request is answered in two ways.
AnsweredOnce == \A i \in 1 .. MaxEvents : Cardinality(answers[i]) <= 1

\* Every request is answered, whatever its protocol and whatever the node can
\* serve, behind any other work of the loop and against the market task's lock.
Waiting(i) == \/ \E k \in DOMAIN queue : queue[k].id = i /\ queue[k].ev.type = "request"
              \/ job.pc # "idle" /\ job.ev.type = "request" /\ job.ev.id = i
EveryRequestAnswered == \A i \in 1 .. MaxEvents : Waiting(i) ~> answers[i] # {}

\* An answer is the right one: given once, to a peer entitled to it, or
\* withheld for a cause, and with the bytes and the manifest it is about.
AnswersAreRight ==
  /\ TypeOK
  /\ ServedIsEntitled /\ DeniedHasCause /\ FoundIsServed
  /\ ManifestsAreRequested /\ AnsweredOnce
=============================================================================
