---------------------------- MODULE ServingProofs ----------------------------
(***************************************************************************)
(* Proofs about what an archive serves (Serving), for any files, peers,    *)
(* access lists, events and bounds, where IInv is inductive and            *)
(* AnswersAreRight follows from it; and about which archives store which   *)
(* chunk (DataPath), for any hash, registry, replication factor and file,  *)
(* where PlacementInv is inductive.                                        *)
(***************************************************************************)
EXTENDS Serving, DataPath, SequenceTheorems, FiniteSetTheorems, FunctionTheorems,
        WellFoundedInduction, TLAPS

\* Where the loop waits for the store's lock and where it holds it.
WaitsToRead == {"lock", "put"}
WaitsToWrite == {"exempt", "records", "commit"}
Deciding == {"unknown", "row", "height", "v1"}
Reads == Deciding \cup {"look", "map", "putdone"}
Writes == {"exempted", "index", "committed"}
Pcs == WaitsToRead \cup WaitsToWrite \cup Reads \cup Writes \cup {"idle", "validate"}

Causes == {"entitled", "not", "error", "unidentified", "unindexed", "unregistered",
           "beyond", "ended"}
Whats == {"none", "retired", "disabled", "denied", "notfound", "data", "maperror",
          "refused", "ack"}
Modes == {"listen", "market"} \X {"read", "write"}

JobTyped ==
  job \in [pc : Pcs, ev : {job.ev}, until : Nat, seen : SUBSET Causes, what : Whats]
LockTyped == lock \in [w : BOOLEAN, r : 0 .. 1, q : Seq(Modes)]
AnswersTyped == answers \in [1 .. MaxEvents -> SUBSET Whats]
ManifestsTyped ==
  manifests \in [Files -> Files \cup {None}] /\ opaque \in [Files -> Files \cup {None}]

\* A push goes on with its own bytes, and past the validation a manifest that is
\* not Private is the one of its root.
PushPoints == {"validate", "exempt", "exempted", "put", "putdone", "records", "index"}
PushInOrder(pc, ev) ==
  /\ pc \in PushPoints =>
       /\ ev.op \in {"push", "manifestpush"}
       /\ ev.op = "manifestpush" => ev.content \in Files
  /\ pc \in PushPoints \ {"validate"} /\ ev.op = "manifestpush" /\ Row[ev.file] # "private" =>
       ev.content = ev.file
USE DEF JobTyped, LockTyped, AnswersTyped, ManifestsTyped, PushPoints, PushInOrder

Shape ==
  /\ profile \in {"production", "dev"} /\ v2 \in BOOLEAN
  /\ list \in Seq([peer : Peers, until : Nat]) /\ height \in Nat
  /\ known \subseteq Peers /\ disk \subseteq Files /\ index \subseteq Files
  /\ ManifestsTyped
  /\ arrived \in 0 .. MaxEvents /\ queue \in Seq([ev : Events, id : 1 .. MaxEvents])
  /\ JobTyped /\ LockTyped
  /\ market \in {"idle", "waiting", "sweeping"}
  /\ AnswersTyped

\* Who waits, with market in state m and the loop at pc.
Waiters(m, pc) ==
  {x \in Modes : \/ x = <<"market", "write">> /\ m = "waiting"
                 \/ x = <<"listen", "read">> /\ pc \in WaitsToRead
                 \/ x = <<"listen", "write">> /\ pc \in WaitsToWrite}

\* q holds members of W only, each once.
Queued(q, W) ==
  /\ \A i \in 1 .. Len(q) : q[i] \in W
  /\ \A i, j \in 1 .. Len(q) : q[i] = q[j] => i = j

\* The lock says who holds it, and nobody waits for it twice.
LockIsHeld ==
  /\ lock.w <=> (market = "sweeping" \/ job.pc \in Writes)
  /\ ~(market = "sweeping" /\ job.pc \in Writes)
  /\ lock.r = 1 <=> job.pc \in Reads
  /\ ~(lock.w /\ lock.r = 1)
  /\ Queued(lock.q, Waiters(market, job.pc))

\* Events are taken in the order of their ids, and only those taken are answered.
Taken == arrived - Len(queue)
EventsInTurn ==
  /\ Len(queue) <= arrived
  /\ \A k \in 1 .. Len(queue) : queue[k].id = Taken + k
  /\ \A i \in 1 .. MaxEvents : i > Taken => answers[i] = {}
  /\ \A i \in 1 .. MaxEvents : answers[i] = {} \/ \E x \in Whats : answers[i] = {x}

\* The event being handled was taken, is not answered and is of the kind its
\* handler is for.
JobInOrder ==
  /\ job.pc # "idle" =>
       job.what = "none" /\ job.ev.id \in 1 .. Taken /\ answers[job.ev.id] = {}
  /\ job.pc \in Pcs \ {"idle", "commit", "committed"} => File \in Files
  /\ job.pc \in Deciding \cup {"lock", "look", "map"} => job.ev.op \in {"chunk", "manifest"}
  /\ job.pc = "commit" => /\ job.ev.asked \in Files
                          /\ job.ev.type = "manifest" => job.ev.content = job.ev.asked
  /\ PushInOrder(job.pc, job.ev)

\* What was decided so far.  Between the row and the height, the grant was seen
\* or its entry has ended, for good.
AccessIsDecided ==
  /\ profile = "production" /\ job.pc \in {"look", "map"} => "entitled" \in job.seen
  /\ job.pc = "height" => job.until > 0 /\ ("entitled" \in job.seen \/ Ended(job.until))
  /\ job.pc = "map" => File \in disk

IInv ==
  /\ Shape /\ LockIsHeld /\ EventsInTurn /\ JobInOrder /\ AccessIsDecided
  /\ ServedIsEntitled /\ DeniedHasCause /\ FoundIsServed /\ ManifestsAreRequested

-------------------------------------------------------------------------------
(* The lock *)

\* The classes of program points do not overlap.
LEMMA PointsApart ==
  /\ WaitsToRead \cap Reads = {} /\ WaitsToRead \cap Writes = {}
  /\ WaitsToWrite \cap Reads = {} /\ WaitsToWrite \cap Writes = {}
  /\ WaitsToRead \cap WaitsToWrite = {} /\ Reads \cap Writes = {}
  /\ "idle" \notin WaitsToRead \cup WaitsToWrite \cup Reads \cup Writes
  /\ "validate" \notin WaitsToRead \cup WaitsToWrite \cup Reads \cup Writes
  BY DEF WaitsToRead, WaitsToWrite, Reads, Writes, Deciding

\* Who is not waiting can start to wait.
LEMMA EnterQueue ==
  ASSUME NEW q \in Seq(Modes), NEW x \in Modes, NEW W, NEW V, Queued(q, W), x \notin W,
         W \subseteq V, x \in V
  PROVE  Append(q, x) \in Seq(Modes) /\ Queued(Append(q, x), V)
<1>1. /\ Append(q, x) \in Seq(Modes) /\ Len(q) \in Nat /\ Len(Append(q, x)) = Len(q) + 1
      /\ \A i \in 1 .. Len(q) : Append(q, x)[i] = q[i]
      /\ Append(q, x)[Len(q) + 1] = x
  BY AppendProperties, LenProperties
<1> QED
  BY <1>1 DEF Queued

\* The first in the queue leaves it.
LEMMA LeaveQueue ==
  ASSUME NEW q \in Seq(Modes), NEW W, NEW V, Queued(q, W), q # <<>>,
         W \ {Head(q)} \subseteq V
  PROVE  Tail(q) \in Seq(Modes) /\ Queued(Tail(q), V)
<1>1. /\ Tail(q) \in Seq(Modes) /\ Len(q) \in Nat \ {0} /\ Len(Tail(q)) = Len(q) - 1
      /\ Head(q) = q[1] /\ \A i \in 1 .. Len(Tail(q)) : Tail(q)[i] = q[i + 1]
  BY HeadTailProperties, LenProperties, EmptySeq
<1> QED
  BY <1>1 DEF Queued

\* Fewer can wait after a step than before only if who left the set left the queue.
LEMMA WaitersGrow ==
  ASSUME NEW q \in Seq(Modes), NEW W, NEW V, Queued(q, W), W \subseteq V
  PROVE  Queued(q, V)
  BY DEF Queued

\* The loop waits for the lock, having let go of what it held.
LEMMA LoopWaits ==
  ASSUME Shape, LockIsHeld, market' = market, NEW mode \in {"read", "write"},
         lock' \in [w : BOOLEAN, r : 0 .. 1, q : {Append(lock.q, <<"listen", mode>>)}],
         lock'.w <=> market = "sweeping", lock'.r = 0,
         job.pc \notin WaitsToRead \cup WaitsToWrite,
         job'.pc \in IF mode = "read" THEN WaitsToRead ELSE WaitsToWrite
  PROVE  LockTyped' /\ LockIsHeld'
<1> DEFINE W == Waiters(market, job.pc)
           V == Waiters(market', job'.pc)
           x == <<"listen", mode>>
<1>1. lock.q \in Seq(Modes) /\ Queued(lock.q, W) /\ x \in Modes
  BY DEF Shape, LockIsHeld, Modes
<1>2. x \notin W /\ W \subseteq V /\ x \in V
  BY <1>1 DEF Waiters
<1>3. Append(lock.q, x) \in Seq(Modes) /\ Queued(Append(lock.q, x), V)
  BY <1>1, <1>2, EnterQueue
<1>4. lock'.q = Append(lock.q, x) /\ LockTyped'
  BY <1>3
<1>5. job'.pc \notin Reads /\ job'.pc \notin Writes
  BY PointsApart
<1> QED
  BY <1>3, <1>4, <1>5 DEF LockIsHeld

\* The loop is given the lock to read or to write.
LEMMA LoopLocks ==
  ASSUME Shape, LockIsHeld, market' = market,
         \/ Granted("listen", "read") /\ job.pc \in WaitsToRead /\ job'.pc \in Reads
         \/ Granted("listen", "write") /\ job.pc \in WaitsToWrite /\ job'.pc \in Writes
  PROVE  LockTyped' /\ LockIsHeld'
<1> DEFINE W == Waiters(market, job.pc)
           V == Waiters(market', job'.pc)
<1>1. lock.q \in Seq(Modes) /\ Queued(lock.q, W) /\ lock.q # <<>>
  BY DEF Shape, LockIsHeld, Granted
<1>2. W \ {Head(lock.q)} \subseteq V
  BY PointsApart DEF Waiters, Granted
<1>3. Tail(lock.q) \in Seq(Modes) /\ Queued(Tail(lock.q), V)
  BY <1>1, <1>2, LeaveQueue
<1>4. lock.r = 0 /\ lock.w = FALSE /\ market # "sweeping"
  BY PointsApart DEF Shape, LockIsHeld, Granted
<1>5. CASE Granted("listen", "read") /\ job.pc \in WaitsToRead /\ job'.pc \in Reads
  <2>1. lock' = [lock EXCEPT !.q = Tail(lock.q), !.w = FALSE, !.r = 1]
    <3>1. lock.r + 1 = 1 /\ ("read" = "write") = FALSE
      BY <1>4
    <3>2. lock' = [lock EXCEPT !.q = Tail(lock.q), !.w = ("read" = "write"),
                               !.r = lock.r + 1]
      BY <1>5 DEF Shape, Granted
    <3> QED
      BY <3>1, <3>2, Zenon
  <2>2. /\ lock'.w = FALSE /\ lock'.r = 1 /\ lock'.q = Tail(lock.q)
        /\ LockTyped'
    <3>1. LockTyped /\ 1 \in 0 .. 1
      BY DEF Shape
    <3> QED
      BY <1>3, <2>1, <3>1, Zenon
  <2> QED
    BY <1>3, <1>4, <1>5, <2>2, PointsApart DEF LockIsHeld
<1>6. CASE Granted("listen", "write") /\ job.pc \in WaitsToWrite /\ job'.pc \in Writes
  <2>1. lock' = [lock EXCEPT !.q = Tail(lock.q), !.w = TRUE, !.r = lock.r]
    BY <1>4, <1>6 DEF Shape, Granted
  <2>2. /\ lock'.w = TRUE /\ lock'.r = 0 /\ lock'.q = Tail(lock.q)
        /\ LockTyped'
    BY <1>3, <1>4, <2>1 DEF Shape
  <2> QED
    BY <1>3, <1>4, <1>6, <2>2, PointsApart DEF LockIsHeld
<1> QED
  BY <1>5, <1>6

\* The loop lets go of the lock.
LEMMA LoopReleases ==
  ASSUME Shape, LockIsHeld, job'.pc = "idle", market' = market,
         \/ Release("read") /\ job.pc \in Reads
         \/ Release("write") /\ job.pc \in Writes
  PROVE  LockTyped' /\ LockIsHeld'
<1> DEFINE W == Waiters(market, job.pc)
           V == Waiters(market', job'.pc)
<1>1. lock.q \in Seq(Modes) /\ Queued(lock.q, W)
  BY DEF Shape, LockIsHeld
<1>2. W \subseteq V
  BY PointsApart DEF Waiters
<1>3. Queued(lock.q, V)
  BY <1>1, <1>2, WaitersGrow
<1>4. CASE Release("read") /\ job.pc \in Reads
  <2>1. /\ LockTyped'
        /\ lock'.w = lock.w /\ lock'.r = 0 /\ lock'.q = lock.q
    <3>1. lock.r - 1 = 0 /\ 0 \in 0 .. 1
      BY <1>4 DEF LockIsHeld
    <3>2. lock' = [lock EXCEPT !.r = 0]
      BY <1>4, <3>1 DEF Release
    <3> QED
      BY <3>1, <3>2 DEF Shape
  <2> QED
    BY <1>3, <1>4, <2>1, PointsApart DEF LockIsHeld
<1>5. CASE Release("write") /\ job.pc \in Writes
  <2>1. /\ LockTyped'
        /\ lock'.w = FALSE /\ lock'.r = lock.r /\ lock'.q = lock.q
    BY <1>5 DEF Shape, Release
  <2> QED
    BY <1>3, <1>5, <2>1, PointsApart DEF LockIsHeld
<1> QED
  BY <1>4, <1>5

\* The loop goes on with the lock as it is.
LEMMA LoopGoesOn ==
  ASSUME Shape, LockIsHeld, market' = market, lock' = lock,
         \/ job.pc \in {"idle", "validate"} /\ job'.pc \in {"idle", "validate"}
         \/ job.pc \in Reads /\ job'.pc \in Reads
         \/ job'.pc = job.pc
  PROVE  LockTyped' /\ LockIsHeld'
<1>1. lock.q \in Seq(Modes) /\ Queued(lock.q, Waiters(market, job.pc))
  BY DEF Shape, LockIsHeld
<1>2. Waiters(market, job.pc) \subseteq Waiters(market', job'.pc)
  BY PointsApart DEF Waiters
<1>3. Queued(lock.q, Waiters(market', job'.pc))
  BY <1>1, <1>2, WaitersGrow
<1> QED
  BY <1>3, PointsApart DEF Shape, LockIsHeld

-------------------------------------------------------------------------------
(* Events and answers *)

\* The event a step of the loop is about, with its id.
Stamped(h) == [x \in DOMAIN h.ev \cup {"id"} |-> IF x = "id" THEN h.id ELSE h.ev[x]]

\* An event keeps its fields.
LEMMA StampedKeeps ==
  ASSUME NEW h \in [ev : Events, id : 1 .. MaxEvents]
  PROVE  /\ Stamped(h).id = h.id /\ Stamped(h).type = h.ev.type
         /\ h.ev.type = "request" =>
              /\ Stamped(h).file \in Files
              /\ Stamped(h).proto = 1 => Stamped(h).op \in {"chunk", "manifest", "push"}
              /\ Stamped(h).op = "manifestpush" => Stamped(h).content \in Files
         /\ h.ev.type = "data" => Stamped(h).asked \in Files
         /\ h.ev.type = "manifest" => Stamped(h).asked \in Files
         /\ h.ev.type \in {"identified", "gone"} => Stamped(h).peer \in Peers
<1>1. h.ev \in Events
  OBVIOUS
<1>2. Stamped(h).id = h.id
  BY DEF Stamped
<1>3. ASSUME NEW f \in DOMAIN h.ev, f # "id"
      PROVE  Stamped(h)[f] = h.ev[f]
  BY <1>3 DEF Stamped
<1>4. CASE h.ev \in [type : {"request"}, proto : {1}, file : Files, peer : Peers,
                     op : {"chunk", "manifest", "push"}]
  <2>1. /\ "type" \in DOMAIN h.ev /\ "proto" \in DOMAIN h.ev /\ "file" \in DOMAIN h.ev
        /\ "op" \in DOMAIN h.ev /\ h.ev.type = "request" /\ h.ev.file \in Files
        /\ h.ev.op \in {"chunk", "manifest", "push"}
    BY <1>4
  <2> QED
    BY <1>2, <1>3, <2>1
<1>5. CASE h.ev \in [type : {"request"}, proto : {2}, file : Files, peer : Peers,
                     op : {"chunk", "manifest", "push"}]
  <2>1. /\ "type" \in DOMAIN h.ev /\ "proto" \in DOMAIN h.ev /\ "file" \in DOMAIN h.ev
        /\ "op" \in DOMAIN h.ev /\ h.ev.op \in {"chunk", "manifest", "push"}
        /\ h.ev.type = "request" /\ h.ev.file \in Files /\ h.ev.proto = 2
    BY <1>5
  <2> QED
    BY <1>2, <1>3, <2>1
<1>9. CASE h.ev \in [type : {"request"}, proto : {2}, file : Files, peer : Peers,
                     op : {"manifestpush"}, content : Files]
  <2>1. /\ "type" \in DOMAIN h.ev /\ "proto" \in DOMAIN h.ev /\ "file" \in DOMAIN h.ev
        /\ "content" \in DOMAIN h.ev /\ h.ev.content \in Files
        /\ h.ev.type = "request" /\ h.ev.file \in Files /\ h.ev.proto = 2
    BY <1>9
  <2> QED
    BY <1>2, <1>3, <2>1
<1>6. CASE h.ev \in [type : {"identified", "gone"}, peer : Peers]
  <2>1. /\ "type" \in DOMAIN h.ev /\ "peer" \in DOMAIN h.ev
        /\ h.ev.type \in {"identified", "gone"} /\ h.ev.peer \in Peers
    BY <1>6
  <2> QED
    BY <1>2, <1>3, <2>1
<1>7. CASE h.ev \in [type : {"data"}, asked : Files]
  <2>1. /\ "type" \in DOMAIN h.ev /\ "asked" \in DOMAIN h.ev
        /\ h.ev.type = "data" /\ h.ev.asked \in Files
    BY <1>7
  <2> QED
    BY <1>2, <1>3, <2>1
<1>8. CASE h.ev \in [type : {"manifest"}, asked : Files, content : Files]
  <2>1. /\ "type" \in DOMAIN h.ev /\ "asked" \in DOMAIN h.ev
        /\ h.ev.type = "manifest" /\ h.ev.asked \in Files
    BY <1>8
  <2> QED
    BY <1>2, <1>3, <2>1
<1> QED
  BY <1>1, <1>4, <1>5, <1>6, <1>7, <1>8, <1>9, EventsAssumption

\* An event that was taken and not answered is answered.
LEMMA Answering ==
  ASSUME Shape, EventsInTurn, NEW i \in 1 .. MaxEvents, i <= Taken', answers[i] = {},
         arrived' = arrived, Len(queue') <= Len(queue), Len(queue') \in Nat,
         \A k \in 1 .. Len(queue') : queue'[k].id = Taken' + k,
         NEW what \in Whats, answers' = [answers EXCEPT ![i] = @ \cup {what}]
  PROVE  AnswersTyped' /\ EventsInTurn'
<1>1. AnswersTyped'
  BY DEF Shape
<1>2. Len(queue) \in Nat /\ arrived \in Nat /\ Taken <= Taken'
  BY LenProperties, ServingAssumption DEF Shape, Taken
<1>3. answers'[i] = {what} /\ \A j \in 1 .. MaxEvents : j # i => answers'[j] = answers[j]
  BY DEF Shape
<1>4. \A j \in 1 .. MaxEvents : j > Taken' => answers'[j] = {}
  <2>1. i \in Nat /\ Taken \in Int /\ Taken' \in Int
    BY <1>2, ServingAssumption DEF Taken
  <2> QED
    BY <1>2, <1>3, <2>1, ServingAssumption DEF EventsInTurn
<1>5. \A j \in 1 .. MaxEvents : answers'[j] = {} \/ \E x \in Whats : answers'[j] = {x}
  BY <1>3 DEF EventsInTurn
<1>6. Len(queue') <= arrived'
  BY <1>2 DEF EventsInTurn
<1> QED
  BY <1>1, <1>4, <1>5, <1>6 DEF EventsInTurn

-------------------------------------------------------------------------------
(* One step of the loop *)

\* The loop goes on with the event it handles.
LEMMA Continues ==
  ASSUME IInv, job.pc # "idle", NEW pc \in Pcs \ {"idle", "commit"},
         job' \in [pc : {pc}, ev : {job.ev}, until : Nat, seen : SUBSET Causes,
                   what : {job.what}],
         UNCHANGED <<queue, arrived, answers>>,
         pc # "committed" => job.pc \notin {"commit", "committed"},
         pc \in Deciding \cup {"lock", "look", "map"} =>
           job.pc \in Deciding \cup {"lock", "look", "map"},
         PushInOrder(pc, job.ev)
  PROVE  /\ JobTyped'
         /\ EventsInTurn' /\ JobInOrder'
         /\ ServedIsEntitled' /\ DeniedHasCause' /\ FoundIsServed'
<1>1. /\ job.pc \in Pcs /\ job.what = "none" /\ job.ev.id \in 1 .. Taken
      /\ answers[job.ev.id] = {} /\ Taken' = Taken
      /\ job'.pc = pc /\ job'.ev = job.ev /\ job'.what = "none"
  BY DEF IInv, Shape, JobInOrder, Taken
<1>2. JobTyped'
  BY <1>1 DEF Whats
<1>3. EventsInTurn'
  BY <1>1 DEF IInv, EventsInTurn
<1>4. JobInOrder'
  BY <1>1 DEF IInv, JobInOrder, File
<1>5. ServedIsEntitled' /\ DeniedHasCause' /\ FoundIsServed'
  BY <1>1 DEF ServedIsEntitled, DeniedHasCause, FoundIsServed
<1> QED
  BY <1>2, <1>3, <1>4, <1>5

\* The loop is done with the event it handles.
LEMMA Finishes ==
  ASSUME IInv, job.pc # "idle", NEW what \in Whats \ {"maperror"},
         job' \in [pc : {"idle"}, ev : {job.ev}, until : Nat, seen : SUBSET Causes,
                   what : {what}],
         answers' = [answers EXCEPT ![job.ev.id] = @ \cup {what}],
         UNCHANGED <<queue, arrived>>,
         profile' = "production" /\ what = "data" => "entitled" \in job'.seen,
         what # "denied" \/ DeniedHasCause'
  PROVE  /\ JobTyped'
         /\ AnswersTyped'
         /\ EventsInTurn' /\ JobInOrder' /\ AccessIsDecided'
         /\ ServedIsEntitled' /\ DeniedHasCause' /\ FoundIsServed'
<1>1. /\ job.ev.id \in 1 .. Taken /\ answers[job.ev.id] = {} /\ Taken' = Taken
      /\ job'.pc = "idle" /\ job'.what = what
  BY DEF IInv, JobInOrder, Taken
<1>2. JobTyped'
  BY DEF Pcs
<1>3. /\ Len(queue) \in Nat /\ Taken \in Int /\ Taken <= MaxEvents
      /\ \A k \in 1 .. Len(queue) : queue[k].id = Taken + k
  BY LenProperties, ServingAssumption DEF IInv, Shape, Taken, EventsInTurn
<1>4. job.ev.id \in 1 .. MaxEvents /\ job.ev.id <= Taken'
  BY <1>1, <1>3, ServingAssumption
<1>5. AnswersTyped' /\ EventsInTurn'
  <2>1. /\ arrived' = arrived /\ Len(queue') <= Len(queue) /\ Len(queue') \in Nat
        /\ \A k \in 1 .. Len(queue') : queue'[k].id = Taken' + k
    BY <1>1, <1>3
  <2> QED
    BY <1>1, <1>4, <2>1, Answering DEF IInv
<1>6. JobInOrder' /\ AccessIsDecided'
  BY <1>1
     DEF JobInOrder, AccessIsDecided, WaitsToRead, WaitsToWrite, Deciding, Reads, Writes
<1>7. ServedIsEntitled' /\ DeniedHasCause' /\ FoundIsServed'
  BY <1>1 DEF ServedIsEntitled, DeniedHasCause, FoundIsServed
<1> QED
  BY <1>2, <1>5, <1>6, <1>7

\* Calls that move the loop only leave the rest of the shape alone.
LEMMA ShapeKept ==
  ASSUME Shape, Same, UNCHANGED <<known, queue>>,
         disk' \subseteq Files, index' \subseteq Files,
         ManifestsTyped',
         JobTyped',
         LockTyped',
         AnswersTyped'
  PROVE  Shape'
  BY DEF Shape, Same, node, chain

\* A decision that lets the peer in.
LEMMA AllowedKeeps ==
  ASSUME IInv, job.pc \in Deciding, UNCHANGED <<known, queue, store>>, Same, Allowed,
         profile = "production" => Entitled \/ "entitled" \in job.seen
  PROVE  IInv'
<1>1. /\ JobTyped
      /\ Seen({}) \in SUBSET Causes
      /\ profile = "production" => "entitled" \in Seen({})
  BY DEF IInv, Shape, Seen, Causes
<1>2. job' \in [pc : {"look"}, ev : {job.ev}, until : Nat, seen : {Seen({})},
                what : {job.what}]
  BY <1>1 DEF Allowed
<1>3. job.pc # "idle" /\ job.pc \notin {"commit", "committed"} /\ "look" \in Pcs
  BY DEF Deciding, Pcs, Reads
<1>4. /\ JobTyped'
      /\ EventsInTurn' /\ JobInOrder' /\ ServedIsEntitled' /\ DeniedHasCause'
      /\ FoundIsServed'
  BY <1>1, <1>2, <1>3, Continues DEF Allowed, Same
<1>5. AccessIsDecided'
  BY <1>1, <1>2 DEF AccessIsDecided, Same, node
<1>6. LockTyped' /\ LockIsHeld'
  BY <1>2, LoopGoesOn DEF IInv, Allowed, Same, Reads
<1>7. Shape' /\ ManifestsAreRequested'
  BY <1>4, <1>6, ShapeKept DEF IInv, Shape, Allowed, store, ManifestsAreRequested
<1> QED
  BY <1>4, <1>5, <1>6, <1>7 DEF IInv

\* A decision that goes on to another read.
LEMMA AskKeeps ==
  ASSUME IInv, job.pc \in Deciding, UNCHANGED <<known, queue, store>>, Same, Ask("v1")
  PROVE  IInv'
<1>1. /\ JobTyped
      /\ Seen({}) \in SUBSET Causes
  BY DEF IInv, Shape, Seen, Causes
<1>2. job' \in [pc : {"v1"}, ev : {job.ev}, until : Nat, seen : {Seen({})},
                what : {job.what}]
  BY <1>1 DEF Ask
<1>3. job.pc # "idle" /\ job.pc \notin {"commit", "committed"} /\ "v1" \in Pcs
  BY DEF Deciding, Pcs, Reads
<1>4. /\ JobTyped'
      /\ EventsInTurn' /\ JobInOrder' /\ ServedIsEntitled' /\ DeniedHasCause'
      /\ FoundIsServed'
  BY <1>1, <1>2, <1>3, Continues DEF Ask, Same
<1>5. AccessIsDecided'
  BY <1>2 DEF AccessIsDecided
<1>6. LockTyped' /\ LockIsHeld'
  BY <1>2, LoopGoesOn DEF IInv, Ask, Same, Reads, Deciding
<1>7. Shape' /\ ManifestsAreRequested'
  BY <1>4, <1>6, ShapeKept DEF IInv, Shape, Ask, store, ManifestsAreRequested
<1> QED
  BY <1>4, <1>5, <1>6, <1>7 DEF IInv

\* What counts as the cause of a refusal.
Cause(seen, until) ==
  \/ seen \cap {"not", "error", "unidentified", "unindexed", "unregistered", "beyond"} # {}
  \/ "ended" \in seen /\ height > until - 1

\* A decision that refuses.
LEMMA DeniedKeeps ==
  ASSUME IInv, job.pc \in Deciding, UNCHANGED <<known, queue, store>>, Same,
         NEW more \in SUBSET Causes, Denied(more),
         profile = "production" => Cause(Seen(more), job.until)
  PROVE  IInv'
<1>1. /\ JobTyped
      /\ Seen(more) \in SUBSET Causes
  BY DEF IInv, Shape, Seen, Causes
<1>2. /\ job' \in [pc : {"idle"}, ev : {job.ev}, until : {job.until}, seen : {Seen(more)},
                   what : {"denied"}]
      /\ answers' = [answers EXCEPT ![job.ev.id] = @ \cup {"denied"}]
  BY <1>1 DEF Denied, NoJob
<1>3. job.pc # "idle" /\ "denied" \in Whats \ {"maperror"}
  BY DEF Deciding, Whats
<1>4. DeniedHasCause'
  BY <1>2 DEF DeniedHasCause, Cause, Same, node, chain
<1>5. /\ JobTyped'
      /\ AnswersTyped'
      /\ EventsInTurn' /\ JobInOrder' /\ AccessIsDecided'
      /\ ServedIsEntitled' /\ DeniedHasCause' /\ FoundIsServed'
  BY <1>1, <1>2, <1>3, <1>4, Finishes DEF Same
<1>6. LockTyped' /\ LockIsHeld'
  BY <1>2, LoopReleases DEF IInv, Denied, Same, Reads
<1>7. Shape' /\ ManifestsAreRequested'
  BY <1>5, <1>6, ShapeKept DEF IInv, Shape, store, ManifestsAreRequested
<1> QED
  BY <1>5, <1>6, <1>7 DEF IInv

\* A decision without an answer of the chain: open in dev, a refusal in production.
LEMMA UncertainKeeps ==
  ASSUME IInv, job.pc \in Deciding, UNCHANGED <<known, queue, store>>, Same,
         NEW why \in {"error", "unindexed", "unregistered"}, Uncertain(why)
  PROVE  IInv'
<1>1. {why} \in SUBSET Causes /\ Cause(Seen({why}), job.until)
  BY DEF Causes, Cause, Seen
<1> QED
  BY <1>1, AllowedKeeps, DeniedKeeps DEF Uncertain

-------------------------------------------------------------------------------
(* Taking an event *)

\* The event that is taken is the next one and is not answered.
LEMMA NextEvent ==
  ASSUME IInv, queue # <<>>, queue' = Tail(queue), arrived' = arrived
  PROVE  /\ Head(queue) \in [ev : Events, id : 1 .. MaxEvents]
         /\ Head(queue).id \in 1 .. MaxEvents /\ Head(queue).id = Taken'
         /\ answers[Head(queue).id] = {} /\ Taken' = Taken + 1 /\ Taken \in Int
         /\ queue' \in Seq([ev : Events, id : 1 .. MaxEvents])
         /\ Len(queue') <= Len(queue) /\ Len(queue') \in Nat /\ Len(queue') <= arrived'
         /\ \A k \in 1 .. Len(queue') : queue'[k].id = Taken' + k
<1>1. /\ queue \in Seq([ev : Events, id : 1 .. MaxEvents]) /\ arrived \in Nat
      /\ Len(queue) \in Nat \ {0}
  BY LenProperties, EmptySeq, ServingAssumption DEF IInv, Shape
<1>2. /\ Head(queue) \in [ev : Events, id : 1 .. MaxEvents] /\ Head(queue) = queue[1]
      /\ Tail(queue) \in Seq([ev : Events, id : 1 .. MaxEvents])
      /\ Len(Tail(queue)) = Len(queue) - 1
      /\ \A k \in 1 .. Len(Tail(queue)) : Tail(queue)[k] = queue[k + 1]
  <2> DEFINE S == [ev : Events, id : 1 .. MaxEvents]
  <2> HIDE DEF S
  <2>1. queue \in Seq(S)
    BY <1>1 DEF S
  <2>2. /\ Head(queue) \in S /\ Head(queue) = queue[1] /\ Tail(queue) \in Seq(S)
        /\ Len(Tail(queue)) = Len(queue) - 1
        /\ \A k \in 1 .. Len(Tail(queue)) : Tail(queue)[k] = queue[k + 1]
    BY <2>1, HeadTailProperties
  <2> QED
    BY <2>2 DEF S
<1>3. Taken' = Taken + 1 /\ Taken \in Int
  BY <1>1, <1>2 DEF Taken
<1>4. Head(queue).id \in 1 .. MaxEvents /\ Head(queue).id = Taken'
  BY <1>1, <1>2, <1>3 DEF IInv, EventsInTurn
<1>5. answers[Head(queue).id] = {}
  BY <1>3, <1>4 DEF IInv, EventsInTurn
<1>6. \A k \in 1 .. Len(queue') : queue'[k].id = Taken' + k
  <2> SUFFICES ASSUME NEW k \in 1 .. Len(queue')
               PROVE  queue'[k].id = Taken' + k
    OBVIOUS
  <2>1. k + 1 \in 1 .. Len(queue) /\ queue'[k] = queue[k + 1] /\ k \in Nat
    BY <1>1, <1>2
  <2>2. queue[k + 1].id = Taken + (k + 1)
    BY <2>1 DEF IInv, EventsInTurn
  <2> QED
    BY <1>3, <2>1, <2>2
<1> QED
  BY <1>1, <1>2, <1>3, <1>4, <1>5, <1>6 DEF IInv, EventsInTurn

\* The loop begins to handle the event e.
LEMMA Begins ==
  ASSUME IInv, queue # <<>>, queue' = Tail(queue), arrived' = arrived, NEW e,
         e.id = Head(queue).id, NEW pc \in {"lock", "validate", "commit"}, Start(e, pc),
         pc # "commit" => e.file \in Files,
         pc = "lock" => e.op \in {"chunk", "manifest"}, PushInOrder(pc, e),
         pc = "commit" => e.asked \in Files /\ (e.type = "manifest" => e.content = e.asked)
  PROVE  /\ JobTyped'
         /\ job'.pc = pc /\ answers' = answers
         /\ EventsInTurn' /\ JobInOrder' /\ AccessIsDecided'
         /\ ServedIsEntitled' /\ DeniedHasCause' /\ FoundIsServed'
<1>1. /\ job' \in [pc : {pc}, ev : {e}, until : Nat, seen : SUBSET Causes, what : {"none"}]
      /\ answers' = answers
  BY DEF Start, NoJob
<1>2. /\ JobTyped'
      /\ job'.pc = pc /\ job'.ev = e /\ job'.what = "none"
  BY <1>1 DEF Pcs, WaitsToRead, WaitsToWrite, Whats
<1>3. EventsInTurn'
  <2>1. Taken' = Taken + 1 /\ Taken \in Int
    BY NextEvent
  <2>2. \A i \in 1 .. MaxEvents : i > Taken' => answers'[i] = {}
    BY <1>1, <2>1, ServingAssumption DEF IInv, EventsInTurn
  <2> QED
    BY <1>1, <2>2, NextEvent DEF IInv, EventsInTurn
<1>4. e.id \in 1 .. Taken' /\ answers'[e.id] = {}
  BY <1>1, NextEvent, ServingAssumption
<1>5. JobInOrder' /\ AccessIsDecided'
  BY <1>2, <1>4 DEF JobInOrder, AccessIsDecided, File, Deciding
<1>6. ServedIsEntitled' /\ DeniedHasCause' /\ FoundIsServed'
  BY <1>2 DEF ServedIsEntitled, DeniedHasCause, FoundIsServed
<1> QED
  BY <1>1, <1>2, <1>3, <1>5, <1>6

\* The event e is answered without being handled.
LEMMA AnsweredAtOnce ==
  ASSUME IInv, queue # <<>>, queue' = Tail(queue), arrived' = arrived, NEW e,
         e.id = Head(queue).id, NEW what \in {"retired", "disabled"},
         answers' = [answers EXCEPT ![e.id] = @ \cup {what}],
         job' = [NoJob EXCEPT !.what = what, !.ev = e]
  PROVE  /\ JobTyped'
         /\ job'.pc = "idle" /\ AnswersTyped'
         /\ EventsInTurn' /\ JobInOrder' /\ AccessIsDecided'
         /\ ServedIsEntitled' /\ DeniedHasCause' /\ FoundIsServed'
<1>1. job' \in [pc : {"idle"}, ev : {e}, until : Nat, seen : SUBSET Causes, what : {what}]
  BY DEF NoJob
<1>2. /\ JobTyped'
      /\ job'.pc = "idle" /\ job'.what \in {"retired", "disabled"} /\ what \in Whats
  BY <1>1 DEF Pcs, Whats
<1>3. e.id \in 1 .. MaxEvents /\ e.id <= Taken' /\ answers[e.id] = {}
  BY NextEvent, ServingAssumption
<1>4. AnswersTyped' /\ EventsInTurn'
  BY <1>2, <1>3, NextEvent, Answering DEF IInv
<1>5. JobInOrder' /\ AccessIsDecided'
  BY <1>2 DEF JobInOrder, AccessIsDecided, Deciding
<1>6. ServedIsEntitled' /\ DeniedHasCause' /\ FoundIsServed'
  BY <1>2 DEF ServedIsEntitled, DeniedHasCause, FoundIsServed
<1> QED
  BY <1>2, <1>4, <1>5, <1>6

\* Taking an event preserves the invariant.
LEMMA TakePreserves ==
  ASSUME IInv, Take
  PROVE  IInv'
<1> DEFINE e == Stamped(Head(queue))
           Kept == /\ EventsInTurn' /\ JobInOrder' /\ AccessIsDecided'
                   /\ ServedIsEntitled' /\ DeniedHasCause' /\ FoundIsServed'
<1>1. /\ job.pc = "idle" /\ queue # <<>> /\ queue' = Tail(queue) /\ arrived' = arrived
      /\ market' = market /\ UNCHANGED <<profile, v2, list, height, disk, index, manifests,
                                           opaque>>
  BY DEF Take, Same, node, chain, store
<1>2. /\ Head(queue) \in [ev : Events, id : 1 .. MaxEvents]
      /\ queue' \in Seq([ev : Events, id : 1 .. MaxEvents])
  BY <1>1, NextEvent
<1>3. /\ e.id = Head(queue).id /\ e.type = Head(queue).ev.type
      /\ e.type = "request" => e.file \in Files
      /\ e.type = "request" /\ e.proto = 1 => e.op \in {"chunk", "manifest", "push"}
      /\ e.type = "request" /\ e.op = "manifestpush" => e.content \in Files
      /\ e.type \in {"manifest", "data"} => e.asked \in Files
      /\ e.type \in {"identified", "gone"} => e.peer \in Peers
  BY <1>2, StampedKeeps
<1> HIDE DEF e
<1>4. \/ e.type = "request" /\ e.proto = 1 /\ V1Request(e) /\ UNCHANGED known
      \/ e.type = "request" /\ e.proto = 2 /\ V2Request(e) /\ UNCHANGED known
      \/ e.type \in {"manifest", "data"} /\ Received(e) /\ UNCHANGED known
      \/ /\ e.type = "identified" /\ known' = known \cup {e.peer}
         /\ UNCHANGED <<job, lock, answers>>
      \/ e.type = "gone" /\ known' = known \ {e.peer} /\ UNCHANGED <<job, lock, answers>>
  BY DEF Take, e, Stamped
<1>5. known' \subseteq Peers
  BY <1>3, <1>4 DEF IInv, Shape
<1>6. JobTyped' /\ LockTyped' /\ AnswersTyped' /\ LockIsHeld' /\ Kept
  <2>1. CASE UNCHANGED <<job, lock, answers>>
    <3>1. JobTyped' /\ AnswersTyped'
      BY <2>1 DEF IInv, Shape
    <3>2. LockTyped' /\ LockIsHeld'
      BY <1>1, <2>1, LoopGoesOn DEF IInv
    <3>3. EventsInTurn'
      <4>0. Taken' = Taken + 1 /\ Taken \in Int
        BY <1>1, NextEvent
      <4>1. \A i \in 1 .. MaxEvents : i > Taken' => answers'[i] = {}
        BY <2>1, <4>0, ServingAssumption DEF IInv, EventsInTurn
      <4> QED
        BY <1>1, <2>1, <4>1, NextEvent DEF IInv, EventsInTurn
    <3>4. JobInOrder' /\ AccessIsDecided'
      BY <1>1, <2>1 DEF JobInOrder, AccessIsDecided, Deciding
    <3>5. ServedIsEntitled' /\ DeniedHasCause' /\ FoundIsServed'
      BY <1>1, <2>1 DEF IInv, ServedIsEntitled, DeniedHasCause, FoundIsServed
    <3> QED
      BY <3>1, <3>2, <3>3, <3>4, <3>5
  <2>2. ASSUME NEW what \in {"retired", "disabled"}, lock' = lock,
               answers' = [answers EXCEPT ![e.id] = @ \cup {what}],
               job' = [NoJob EXCEPT !.what = what, !.ev = e]
        PROVE  JobTyped' /\ LockTyped' /\ AnswersTyped' /\ LockIsHeld' /\ Kept
    <3>1. JobTyped' /\ AnswersTyped' /\ Kept /\ job'.pc = "idle"
      BY <1>1, <1>3, <2>2, AnsweredAtOnce
    <3>2. LockTyped' /\ LockIsHeld'
      BY <1>1, <2>2, <3>1, LoopGoesOn DEF IInv
    <3> QED
      BY <3>1, <3>2
  <2>3. ASSUME NEW mode \in {"read", "write"}, Wait("listen", mode),
               NEW pc \in {"lock", "commit"}, Start(e, pc),
               pc = (IF mode = "read" THEN "lock" ELSE "commit"),
               pc = "lock" => e.file \in Files /\ e.op \in {"chunk", "manifest"},
               pc = "commit" =>
                 e.asked \in Files /\ (e.type = "manifest" => e.content = e.asked)
        PROVE  JobTyped' /\ LockTyped' /\ AnswersTyped' /\ LockIsHeld' /\ Kept
    <3>1. JobTyped' /\ answers' = answers /\ Kept /\ job'.pc = pc
      BY <1>1, <1>3, <2>3, Begins
    <3>2. AnswersTyped'
      BY <3>1 DEF IInv, Shape
    <3>3. LockTyped' /\ LockIsHeld'
      <4>1. /\ lock' \in [w : BOOLEAN, r : 0 .. 1, q : {Append(lock.q, <<"listen", mode>>)}]
            /\ lock'.w = lock.w /\ lock'.r = lock.r
        BY <2>3 DEF Wait, IInv, Shape
      <4>2. (lock'.w <=> market = "sweeping") /\ lock'.r = 0
        BY <1>1, <4>1, PointsApart DEF IInv, Shape, LockIsHeld
      <4>3. /\ job.pc \notin WaitsToRead \cup WaitsToWrite
            /\ job'.pc \in IF mode = "read" THEN WaitsToRead ELSE WaitsToWrite
        BY <1>1, <2>3, <3>1 DEF WaitsToRead, WaitsToWrite
      <4> QED
        BY <1>1, <4>1, <4>2, <4>3, LoopWaits DEF IInv
    <3> QED
      BY <3>1, <3>2, <3>3
  <2>4. CASE /\ Start(e, "validate") /\ lock' = lock /\ e.file \in Files
             /\ PushInOrder("validate", e)
    <3>1. JobTyped' /\ answers' = answers /\ Kept /\ job'.pc = "validate"
      BY <1>1, <1>3, <2>4, Begins
    <3>2. AnswersTyped'
      BY <3>1 DEF IInv, Shape
    <3>3. LockTyped' /\ LockIsHeld'
      BY <1>1, <2>4, <3>1, LoopGoesOn DEF IInv
    <3> QED
      BY <3>1, <3>2, <3>3
  <2>5. CASE e.type = "request" /\ e.proto = 1 /\ V1Request(e)
    BY <1>3, <2>2, <2>3, <2>5 DEF V1Request
  <2>6. CASE e.type = "request" /\ e.proto = 2 /\ V2Request(e)
    BY <1>3, <2>2, <2>3, <2>4, <2>6 DEF V2Request, V2Disabled
  <2>7. CASE e.type \in {"manifest", "data"} /\ Received(e)
    BY <1>3, <2>1, <2>3, <2>7 DEF Received
  <2> QED
    BY <1>4, <2>1, <2>5, <2>6, <2>7
<1>7. Shape'
  BY <1>1, <1>2, <1>5, <1>6 DEF IInv, Shape
<1>8. ManifestsAreRequested'
  BY <1>1 DEF IInv, ManifestsAreRequested
<1> QED
  BY <1>6, <1>7, <1>8 DEF IInv

-------------------------------------------------------------------------------
(* The other steps of the loop *)

\* The page an archive reads is the beginning of the list.
LEMMA PageOfList ==
  ASSUME Shape
  PROVE  LET n == IF Len(list) < PageSize THEN Len(list) ELSE PageSize
             page == SubSeq(list, 1, n)
         IN  \A i \in DOMAIN page :
               i \in DOMAIN list /\ page[i] = list[i] /\ page[i].until \in Nat
<1> DEFINE n == IF Len(list) < PageSize THEN Len(list) ELSE PageSize
           S == [peer : Peers, until : Nat]
           page == SubSeq(list, 1, n)
<1>1. /\ list \in Seq(S) /\ Len(list) \in Nat /\ n \in Nat /\ n <= Len(list)
      /\ DOMAIN list = 1 .. Len(list)
  BY LenProperties, ServingAssumption DEF Shape
<1> HIDE DEF n, S
<1>2. \A i \in 1 .. n : i \in DOMAIN list /\ list[i] \in S
  BY <1>1, ElementOfSeq
<1>3. /\ page \in Seq(S) /\ Len(page) = n
      /\ \A i \in 1 .. n : page[i] = list[i]
  <2>1. /\ page \in Seq(S) /\ Len(page) = (IF 1 <= n THEN n - 1 + 1 ELSE 0)
        /\ \A i \in 1 .. (n - 1 + 1) : page[i] = list[1 + i - 1]
    BY <1>1, <1>2, SubSeqProperties
  <2> QED
    BY <1>1, <2>1
<1>4. DOMAIN page = 1 .. n
  BY <1>3, LenProperties
<1>5. \A i \in DOMAIN page :
        i \in DOMAIN list /\ page[i] = list[i] /\ page[i].until \in Nat
  BY <1>2, <1>3, <1>4 DEF S
<1> QED
  BY <1>5 DEF n

\* The answer of the V2 row preserves the invariant.
LEMMA RowPreserves ==
  ASSUME IInv, job.pc = "row", UNCHANGED <<known, queue, store>>, Same, RowAnswers
  PROVE  IInv'
<1> DEFINE page == SubSeq(list, 1, IF Len(list) < PageSize THEN Len(list) ELSE PageSize)
<1>1. job.pc \in Deciding
  BY DEF Deciding
<1>2. \A i \in DOMAIN page :
        i \in DOMAIN list /\ page[i] = list[i] /\ page[i].until \in Nat
  BY PageOfList DEF IInv
<1> HIDE DEF page
<1>3. CASE Row[File] = "public" /\ Allowed
  BY <1>1, <1>3, AllowedKeeps DEF Entitled
<1>4. CASE Denied({"unidentified"})
  <2>1. {"unidentified"} \in SUBSET Causes /\ Cause(Seen({"unidentified"}), job.until)
    BY DEF Causes, Cause, Seen
  <2> QED
    BY <1>1, <1>4, <2>1, DeniedKeeps
<1>5. CASE Row[File] = "private" /\ Denied(IF Entry(list) = {} THEN {} ELSE {"beyond"})
  <2> DEFINE more == IF Entry(list) = {} THEN {} ELSE {"beyond"}
  <2>1. more \in SUBSET Causes
    BY DEF Causes
  <2>2. "not" \in Seen(more) \/ "beyond" \in Seen(more)
    BY <1>5 DEF Seen, Entitled
  <2>3. Cause(Seen(more), job.until)
    BY <2>2 DEF Cause
  <2> HIDE DEF more
  <2>4. Denied(more)
    BY <1>5 DEF more
  <2> QED
    BY <1>1, <2>1, <2>3, <2>4, DeniedKeeps
<1>6. ASSUME Row[File] = "private", NEW i \in Entry(page), page[i].until = 0, Allowed
      PROVE  IInv'
  <2>1. Entitled
    BY <1>2, <1>6 DEF Entitled, Entry, Unexpired
  <2> QED
    BY <1>1, <1>6, <2>1, AllowedKeeps
<1>7. ASSUME Row[File] = "private", NEW i \in Entry(page), page[i].until # 0,
             job' = [job EXCEPT !.pc = "height", !.seen = Seen({}),
                                !.until = page[i].until],
             UNCHANGED <<lock, answers>>
      PROVE  IInv'
  <2> DEFINE until == page[i].until
  <2>1. /\ until \in Nat /\ until > 0 /\ height \in Nat
        /\ i \in Entry(list) /\ list[i].until = until
    BY <1>2, <1>7 DEF Entry, IInv, Shape
  <2>2. "entitled" \in Seen({}) \/ Ended(until)
    BY <1>7, <2>1 DEF Seen, Entitled, Unexpired, Ended
  <2> HIDE DEF until
  <2>3. /\ JobTyped
        /\ Seen({}) \in SUBSET Causes
    BY DEF IInv, Shape, Seen, Causes
  <2>4. job' \in [pc : {"height"}, ev : {job.ev}, until : {until}, seen : {Seen({})},
                  what : {job.what}]
    BY <1>7, <2>3 DEF until
  <2>5. "height" \in Pcs
    BY DEF Deciding, Pcs, Reads
  <2>6. /\ JobTyped'
        /\ EventsInTurn' /\ JobInOrder' /\ ServedIsEntitled' /\ DeniedHasCause'
        /\ FoundIsServed'
    BY <1>1, <1>7, <2>1, <2>3, <2>4, <2>5, Continues DEF Same
  <2>7. AccessIsDecided'
    BY <2>1, <2>2, <2>4 DEF AccessIsDecided, Ended, Same, chain
  <2>8. LockTyped' /\ LockIsHeld'
    BY <1>1, <1>7, <2>4, LoopGoesOn DEF IInv, Same, Reads, Deciding
  <2>9. Shape' /\ ManifestsAreRequested'
    BY <1>7, <2>6, <2>8, ShapeKept DEF IInv, Shape, store, ManifestsAreRequested
  <2> QED
    BY <2>6, <2>7, <2>8, <2>9 DEF IInv
<1>8. CASE Ask("v1")
  BY <1>1, <1>8, AskKeeps
<1>9. CASE /\ Row[File] = "private" /\ Entry(page) # {}
           /\ LET until == page[CHOOSE i \in Entry(page) : TRUE].until IN
              IF until = 0 THEN Allowed
              ELSE /\ job' = [job EXCEPT !.pc = "height", !.seen = Seen({}),
                                         !.until = until]
                   /\ UNCHANGED <<lock, answers>>
  <2>1. (CHOOSE i \in Entry(page) : TRUE) \in Entry(page)
    BY <1>9
  <2> QED
    BY <1>6, <1>7, <1>9, <2>1
<1> QED
  BY <1>3, <1>4, <1>5, <1>8, <1>9 DEF RowAnswers, page

\* Reading the height preserves the invariant: an entry that had not ended at the
\* row and has not ended now is a grant that was seen.
LEMMA HeightPreserves ==
  ASSUME IInv, ReadHeight
  PROVE  IInv'
<1>1. /\ job.pc = "height" /\ job.pc \in Deciding
      /\ UNCHANGED <<known, queue, store>> /\ Same
      /\ job.until \in Nat /\ height \in Nat
  BY DEF ReadHeight, Steps, Deciding, IInv, Shape
<1>2. CASE Ended(job.until) /\ Denied({"ended"})
  <2>1. {"ended"} \in SUBSET Causes /\ Cause(Seen({"ended"}), job.until)
    BY <1>2 DEF Causes, Cause, Seen, Ended
  <2> QED
    BY <1>1, <1>2, <2>1, DeniedKeeps
<1>3. CASE ~Ended(job.until) /\ Allowed
  <2>1. "entitled" \in job.seen
    BY <1>1, <1>3 DEF IInv, AccessIsDecided
  <2> QED
    BY <1>1, <1>3, <2>1, AllowedKeeps
<1>4. CASE Uncertain("error")
  BY <1>1, <1>4, UncertainKeeps
<1> QED
  BY <1>2, <1>3, <1>4 DEF ReadHeight

\* Reading the V1 list preserves the invariant.
LEMMA V1Preserves ==
  ASSUME IInv, ReadV1
  PROVE  IInv'
<1>1. /\ job.pc = "v1" /\ job.pc \in Deciding /\ UNCHANGED <<known, queue, store>> /\ Same
  BY DEF ReadV1, Steps, Deciding
<1>2. CASE Uncertain("error") \/ Uncertain("unregistered")
  BY <1>1, <1>2, UncertainKeeps
<1>3. CASE /\ Row[File] = "legacy" /\ (v1list = {} \/ (Peer \in known /\ Peer \in v1list))
           /\ Allowed
  BY <1>1, <1>3, AllowedKeeps DEF Entitled
<1>4. CASE Denied({"unidentified"})
  <2>1. {"unidentified"} \in SUBSET Causes /\ Cause(Seen({"unidentified"}), job.until)
    BY DEF Causes, Cause, Seen
  <2> QED
    BY <1>1, <1>4, <2>1, DeniedKeeps
<1>5. CASE Row[File] = "legacy" /\ v1list # {} /\ Peer \in known \ v1list /\ Denied({})
  <2>1. {} \in SUBSET Causes /\ Cause(Seen({}), job.until)
    BY <1>5 DEF Cause, Seen, Entitled
  <2> QED
    BY <1>1, <1>5, <2>1, DeniedKeeps
<1> QED
  BY <1>2, <1>3, <1>4, <1>5 DEF ReadV1

\* An answer that ends the handling of an event preserves the invariant.
LEMMA AnswerKeeps ==
  ASSUME IInv, NEW what \in Whats \ {"maperror", "denied"}, Answer(what), Same,
         UNCHANGED <<known, queue>>,
         disk' \subseteq Files, index' \subseteq Files,
         ManifestsTyped', ManifestsAreRequested',
         \/ Release("read") /\ job.pc \in Reads
         \/ Release("write") /\ job.pc \in Writes
         \/ lock' = lock /\ job.pc = "validate",
         profile = "production" /\ what = "data" => "entitled" \in job.seen
  PROVE  IInv'
<1>1. JobTyped
  BY DEF IInv, Shape
<1>2. /\ job' \in [pc : {"idle"}, ev : {job.ev}, until : Nat, seen : {job.seen},
                   what : {what}]
      /\ answers' = [answers EXCEPT ![job.ev.id] = @ \cup {what}]
  BY <1>1 DEF Answer, NoJob
<1>3. job.pc # "idle"
  BY PointsApart
<1>4. /\ JobTyped'
      /\ AnswersTyped'
      /\ EventsInTurn' /\ JobInOrder' /\ AccessIsDecided'
      /\ ServedIsEntitled' /\ DeniedHasCause' /\ FoundIsServed'
  <2>1. profile' = "production" /\ what = "data" => "entitled" \in job'.seen
    BY <1>2 DEF Same, node
  <2> QED
    BY <1>1, <1>2, <1>3, <2>1, Finishes DEF Same
<1>5. LockTyped' /\ LockIsHeld'
  BY <1>2, LoopReleases, LoopGoesOn DEF IInv, Same
<1>6. Shape'
  BY <1>4, <1>5, ShapeKept DEF IInv
<1> QED
  BY <1>4, <1>5, <1>6 DEF IInv

\* A step to another point of the same handler preserves the invariant.
LEMMA MoveKeeps ==
  ASSUME IInv, NEW pc \in Pcs \ {"idle", "commit", "look", "height"}, job.pc # "idle",
         job' = [job EXCEPT !.pc = pc], Same, UNCHANGED <<known, queue, answers>>,
         pc # "committed" => job.pc \notin {"commit", "committed"},
         pc \in Deciding \cup {"lock", "map"} =>
           job.pc \in Deciding \cup {"lock", "look", "map"},
         pc = "map" => job.pc = "look" /\ File \in disk', PushInOrder(pc, job.ev),
         disk' \subseteq Files, index' \subseteq Files,
         ManifestsTyped', ManifestsAreRequested',
         LockTyped', LockIsHeld'
  PROVE  IInv'
<1>1. JobTyped
  BY DEF IInv, Shape
<1>2. job' \in [pc : {pc}, ev : {job.ev}, until : {job.until}, seen : {job.seen},
                what : {job.what}]
  BY <1>1
<1>3. /\ JobTyped'
      /\ EventsInTurn' /\ JobInOrder' /\ ServedIsEntitled' /\ DeniedHasCause'
      /\ FoundIsServed'
  BY <1>1, <1>2, Continues DEF Same
<1>4. AccessIsDecided'
  BY <1>2 DEF IInv, AccessIsDecided, File, Same, node
<1>5. AnswersTyped'
  BY DEF IInv, Shape
<1>6. Shape'
  BY <1>3, <1>5, ShapeKept DEF IInv
<1> QED
  BY <1>3, <1>4, <1>6 DEF IInv

\* Looking for the chunk and reading it preserve the invariant: the sweep does not
\* come between the two, as the loop holds the lock.
LEMMA ServePreserves ==
  ASSUME IInv, Look \/ Map
  PROVE  IInv'
<1> USE DEF Serve
<1>1. job.pc \in Reads /\ job.pc \in {"look", "map"}
  BY DEF Look, Map, Reads
<1>2. /\ disk \subseteq Files /\ index \subseteq Files /\ ManifestsAreRequested
      /\ ManifestsTyped
      /\ profile = "production" => "entitled" \in job.seen
      /\ job.ev.op \in {"chunk", "manifest"}
  BY <1>1 DEF IInv, Shape, JobInOrder, AccessIsDecided
<1>3. ASSUME NEW what \in {"notfound", "data"}, Serve(what)
      PROVE  IInv'
  <2>1. what \in Whats \ {"maperror", "denied"}
    BY DEF Whats
  <2>2. /\ disk' \subseteq Files /\ index' \subseteq Files /\ ManifestsAreRequested'
        /\ ManifestsTyped'
    BY <1>2, <1>3 DEF store, ManifestsAreRequested
  <2> QED
    BY <1>1, <1>2, <1>3, <2>1, <2>2, AnswerKeeps
<1>4. CASE Look /\ job.ev.op = "manifest"
  BY <1>3, <1>4 DEF Look
<1>5. CASE Look /\ job.ev.op = "chunk" /\ File \notin disk
  BY <1>3, <1>5 DEF Look
<1>6. CASE Look /\ job.ev.op = "chunk" /\ File \in disk
  <2>1. /\ job.pc = "look" /\ job' = [job EXCEPT !.pc = "map"]
        /\ UNCHANGED <<lock, answers>>
        /\ UNCHANGED <<known, queue, store>> /\ Same
    BY <1>6 DEF Look
  <2>2. job'.pc = "map"
    BY <2>1 DEF IInv, Shape
  <2>3. LockTyped' /\ LockIsHeld'
    BY <2>1, <2>2, LoopGoesOn DEF IInv, Same, Reads
  <2>4. /\ disk' \subseteq Files /\ index' \subseteq Files /\ ManifestsAreRequested'
        /\ ManifestsTyped'
    BY <1>2, <2>1 DEF store, ManifestsAreRequested
  <2>5. File \in disk' /\ "map" \in Pcs \ {"idle", "commit", "look", "height"}
    BY <1>6, <2>1 DEF store, Pcs, Reads
  <2>6. "map" # "committed" /\ job.pc \notin {"idle", "commit", "committed"}
    BY <2>1
  <2> QED
    BY <2>1, <2>3, <2>4, <2>5, <2>6, MoveKeeps
<1>7. CASE Map
  <2>1. File \in disk
    BY <1>7 DEF Map, IInv, AccessIsDecided
  <2> QED
    BY <1>3, <1>7, <2>1 DEF Map
<1> QED
  BY <1>2, <1>4, <1>5, <1>6, <1>7

\* Taking the lock to read or to write preserves the invariant.
LEMMA LockPreserves ==
  ASSUME IInv, ReadLock \/ Exempt \/ Put \/ Records \/ Commit
  PROVE  IInv'
<1>1. /\ disk \subseteq Files /\ index \subseteq Files /\ ManifestsAreRequested
      /\ ManifestsTyped
      /\ JobTyped
  BY DEF IInv, Shape
<1>2. ASSUME NEW pc \in {"row", "unknown", "putdone", "exempted", "index", "committed"},
             job' = [job EXCEPT !.pc = pc], Same, UNCHANGED <<known, queue, answers>>,
             \/ job.pc = "lock" /\ pc \in {"row", "unknown"} /\ Granted("listen", "read")
             \/ job.pc = "put" /\ pc = "putdone" /\ Granted("listen", "read")
             \/ job.pc \in {"exempt", "records"} /\ pc \in {"exempted", "index"}
                  /\ Granted("listen", "write")
             \/ job.pc = "commit" /\ pc = "committed" /\ Granted("listen", "write"),
             disk' \subseteq Files, index' \subseteq Files,
             ManifestsTyped', ManifestsAreRequested'
      PROVE  IInv'
  <2>1. job'.pc = pc
    BY <1>1, <1>2
  <2>2. LockTyped' /\ LockIsHeld'
    <3>1. \/ Granted("listen", "read") /\ job.pc \in WaitsToRead /\ job'.pc \in Reads
          \/ Granted("listen", "write") /\ job.pc \in WaitsToWrite /\ job'.pc \in Writes
      BY <1>2, <2>1 DEF WaitsToRead, WaitsToWrite, Reads, Writes, Deciding
    <3> QED
      BY <1>2, <3>1, LoopLocks DEF IInv, Same
  <2>3. /\ pc \in Pcs \ {"idle", "commit", "look", "height"} /\ job.pc # "idle"
        /\ PushInOrder(pc, job.ev)
        /\ pc # "committed" => job.pc \notin {"commit", "committed"}
        /\ pc \in Deciding \cup {"lock", "map"} =>
             job.pc \in Deciding \cup {"lock", "look", "map"}
        /\ pc # "map"
    BY <1>2 DEF IInv, JobInOrder, Pcs, Reads, Writes, Deciding
  <2> QED
    BY <1>2, <2>2, <2>3, MoveKeeps
<1>3. CASE ReadLock
  <2> DEFINE pc == IF job.ev.op = "manifest" \/ File \in index THEN "row" ELSE "unknown"
  <2>1. /\ job' = [job EXCEPT !.pc = pc] /\ pc \in {"row", "unknown"} /\ job.pc = "lock"
        /\ Granted("listen", "read") /\ Same /\ UNCHANGED <<known, queue, answers, store>>
    BY <1>3 DEF ReadLock, Steps
  <2> HIDE DEF pc
  <2>2. /\ disk' \subseteq Files /\ index' \subseteq Files /\ ManifestsAreRequested'
        /\ ManifestsTyped'
    BY <1>1, <2>1 DEF store, ManifestsAreRequested
  <2> QED
    BY <1>2, <2>1, <2>2
<1>4. CASE Exempt
  <2> DEFINE pc == IF job.ev.op = "push" THEN "exempted" ELSE "index"
  <2>1. /\ job' = [job EXCEPT !.pc = pc] /\ pc \in {"exempted", "index"}
        /\ job.pc = "exempt"
        /\ Granted("listen", "write") /\ Same /\ UNCHANGED <<known, queue, answers, store>>
    BY <1>4 DEF Exempt, Steps
  <2> HIDE DEF pc
  <2>2. /\ disk' \subseteq Files /\ index' \subseteq Files /\ ManifestsAreRequested'
        /\ ManifestsTyped'
    BY <1>1, <2>1 DEF store, ManifestsAreRequested
  <2> QED
    BY <1>2, <2>1, <2>2
<1>5. CASE Put
  <2>1. /\ job' = [job EXCEPT !.pc = "putdone"] /\ job.pc = "put"
        /\ Granted("listen", "read") /\ Same /\ UNCHANGED <<known, queue, answers>>
        /\ disk' = disk \cup {File} /\ UNCHANGED <<index, manifests, opaque>>
    BY <1>5 DEF Put
  <2>2. File \in Files
    BY <2>1 DEF IInv, JobInOrder, Pcs, WaitsToRead
  <2>3. /\ disk' \subseteq Files /\ index' \subseteq Files /\ ManifestsAreRequested'
        /\ ManifestsTyped'
    BY <1>1, <2>1, <2>2 DEF ManifestsAreRequested
  <2> QED
    BY <1>2, <2>1, <2>3
<1>6. CASE Records
  <2>1. /\ job' = [job EXCEPT !.pc = "index"] /\ job.pc = "records"
        /\ Granted("listen", "write") /\ Same /\ UNCHANGED <<known, queue, answers, store>>
    BY <1>6 DEF Records, Steps
  <2>2. /\ disk' \subseteq Files /\ index' \subseteq Files /\ ManifestsAreRequested'
        /\ ManifestsTyped'
    BY <1>1, <2>1 DEF store, ManifestsAreRequested
  <2> QED
    BY <1>2, <2>1, <2>2
<1>7. CASE Commit
  <2>1. /\ job' = [job EXCEPT !.pc = "committed"] /\ job.pc = "commit"
        /\ Granted("listen", "write") /\ Same /\ UNCHANGED <<known, queue, answers>>
    BY <1>7 DEF Commit
  <2>2. /\ job.ev.asked \in Files
        /\ job.ev.type = "manifest" => job.ev.content = job.ev.asked
    BY <2>1 DEF IInv, JobInOrder
  <2>3. /\ disk' \subseteq Files /\ index' \subseteq Files /\ ManifestsAreRequested'
        /\ ManifestsTyped'
    <3>1. CASE job.ev.type = "manifest"
      <4>0. FirstKept(manifests[job.ev.asked], job.ev.content) = job.ev.asked
        BY <1>1, <2>2, <3>1 DEF FirstKept, ManifestsAreRequested
      <4>1. /\ manifests' = [manifests EXCEPT ![job.ev.asked] = job.ev.asked]
            /\ index' = index \cup {job.ev.asked} /\ UNCHANGED <<disk, opaque>>
        BY <1>7, <3>1, <4>0 DEF Commit
      <4>2. /\ ManifestsTyped' /\ manifests'[job.ev.asked] = job.ev.asked
            /\ \A f \in Files : f # job.ev.asked => manifests'[f] = manifests[f]
        BY <1>1, <2>2, <4>1
      <4> QED
        BY <1>1, <2>2, <4>1, <4>2 DEF ManifestsAreRequested
    <3>2. CASE job.ev.type # "manifest"
      BY <1>1, <1>7, <2>2, <3>2 DEF Commit, ManifestsAreRequested
    <3> QED
      BY <3>1, <3>2
  <2> QED
    BY <1>2, <2>1, <2>3
<1> QED
  BY <1>3, <1>4, <1>5, <1>6, <1>7

\* The steps of a push between its guards, and its end, preserve the invariant.
LEMMA PushPreserves ==
  ASSUME IInv, Validate \/ Exempted \/ PutDone \/ IndexAndAck
  PROVE  IInv'
<1>1. /\ disk \subseteq Files /\ index \subseteq Files /\ ManifestsAreRequested
      /\ ManifestsTyped
      /\ JobTyped
      /\ LockTyped
  BY DEF IInv, Shape
<1>2. /\ "refused" \in Whats \ {"maperror", "denied"}
      /\ "ack" \in Whats \ {"maperror", "denied"}
  BY DEF Whats
<1>3. ASSUME NEW mode \in {"read", "write"}, NEW pc \in {"exempt", "put", "records"},
             pc = "put" <=> mode = "read", job' = [job EXCEPT !.pc = pc],
             Same, UNCHANGED <<known, queue, answers, store>>,
             job.pc \in {"validate", "exempted", "putdone"}, PushInOrder(pc, job.ev),
             lock' \in [w : BOOLEAN, r : 0 .. 1, q : {Append(lock.q, <<"listen", mode>>)}],
             lock'.w <=> market = "sweeping", lock'.r = 0
      PROVE  IInv'
  <2>1. job'.pc = pc
    BY <1>1, <1>3
  <2>2. LockTyped' /\ LockIsHeld'
    <3>1. /\ job.pc \notin WaitsToRead \cup WaitsToWrite
          /\ job'.pc \in IF mode = "read" THEN WaitsToRead ELSE WaitsToWrite
      BY <1>3, <2>1 DEF WaitsToRead, WaitsToWrite
    <3> QED
      BY <1>3, <3>1, LoopWaits DEF IInv, Same
  <2>3. /\ disk' \subseteq Files /\ index' \subseteq Files /\ ManifestsAreRequested'
        /\ ManifestsTyped'
    BY <1>1, <1>3 DEF store, ManifestsAreRequested
  <2>4. /\ pc \in Pcs \ {"idle", "commit", "look", "height"} /\ job.pc # "idle"
        /\ pc \notin {"committed", "map", "lock"} /\ pc \notin Deciding
        /\ job.pc \notin {"commit", "committed"}
    BY <1>3 DEF Pcs, WaitsToRead, WaitsToWrite, Deciding
  <2> QED
    BY <1>3, <2>2, <2>3, <2>4, MoveKeeps
<1>4. CASE Validate
  <2>1. /\ job.pc = "validate" /\ Same /\ UNCHANGED <<known, queue, store>>
    BY <1>4 DEF Validate, Steps
  <2>2. CASE Answer("refused") /\ UNCHANGED lock
    <3>1. /\ disk' \subseteq Files /\ index' \subseteq Files /\ ManifestsAreRequested'
          /\ ManifestsTyped'
      BY <1>1, <2>1 DEF store, ManifestsAreRequested
    <3> QED
      BY <1>2, <2>1, <2>2, <3>1, AnswerKeeps
  <2>3. CASE /\ Wait("listen", "write") /\ job' = [job EXCEPT !.pc = "exempt"]
             /\ UNCHANGED answers /\ Row[File] \in {"public", "private"}
             /\ job.ev.op = "manifestpush" /\ Row[File] = "public" => job.ev.content = File
    <3>1. /\ lock' \in [w : BOOLEAN, r : 0 .. 1,
                        q : {Append(lock.q, <<"listen", "write">>)}]
          /\ lock'.w = lock.w /\ lock'.r = lock.r
      BY <1>1, <2>3 DEF Wait
    <3>2. (lock'.w <=> market = "sweeping") /\ lock'.r = 0
      BY <1>1, <2>1, <3>1, PointsApart DEF IInv, LockIsHeld
    <3>3. PushInOrder("exempt", job.ev)
      BY <2>1, <2>3 DEF IInv, JobInOrder, File
    <3> QED
      BY <1>3, <2>1, <2>3, <3>1, <3>2, <3>3
  <2> QED
    BY <1>4, <2>2, <2>3 DEF Validate
<1>5. CASE Exempted
  <2>1. /\ job.pc = "exempted" /\ Same /\ UNCHANGED <<known, queue, store, answers>>
        /\ job' = [job EXCEPT !.pc = "put"]
        /\ lock' = [lock EXCEPT !.w = FALSE, !.q = Append(@, <<"listen", "read">>)]
    BY <1>5 DEF Exempted, Steps
  <2>2. /\ lock' \in [w : BOOLEAN, r : 0 .. 1, q : {Append(lock.q, <<"listen", "read">>)}]
        /\ lock'.w = FALSE /\ lock'.r = lock.r
    BY <1>1, <2>1
  <2>3. (lock'.w <=> market = "sweeping") /\ lock'.r = 0
    BY <1>1, <2>1, <2>2 DEF IInv, LockIsHeld, Reads, Writes, Deciding
  <2>4. PushInOrder("put", job.ev)
    BY <2>1 DEF IInv, JobInOrder
  <2> QED
    BY <1>3, <2>1, <2>2, <2>3, <2>4
<1>6. CASE PutDone
  <2>1. /\ job.pc = "putdone" /\ Same /\ UNCHANGED <<known, queue, store, answers>>
        /\ job' = [job EXCEPT !.pc = "records"]
        /\ lock' = [lock EXCEPT !.r = @ - 1, !.q = Append(@, <<"listen", "write">>)]
    BY <1>6 DEF PutDone, Steps
  <2>2. lock.r = 1 /\ lock.r - 1 = 0 /\ 0 \in 0 .. 1 /\ lock.w = FALSE
    BY <1>1, <2>1 DEF IInv, LockIsHeld, Reads
  <2>3. lock' = [lock EXCEPT !.r = 0, !.q = Append(@, <<"listen", "write">>)]
    BY <2>1, <2>2
  <2>4. /\ lock' \in [w : BOOLEAN, r : 0 .. 1, q : {Append(lock.q, <<"listen", "write">>)}]
        /\ lock'.w = lock.w /\ lock'.r = 0
    BY <1>1, <2>2, <2>3
  <2>5. lock'.w <=> market = "sweeping"
    BY <2>2, <2>4 DEF IInv, LockIsHeld
  <2>6. PushInOrder("records", job.ev)
    BY <2>1 DEF IInv, JobInOrder
  <2> QED
    BY <1>3, <2>1, <2>4, <2>5, <2>6
<1>7. CASE IndexAndAck
  <2>1. /\ job.pc = "index" /\ job.pc \in Writes /\ Release("write") /\ Same
        /\ UNCHANGED <<known, queue, disk>> /\ File \in Files
    BY <1>7 DEF IndexAndAck, Writes, IInv, JobInOrder, Pcs
  <2>2. /\ disk' \subseteq Files /\ index' \subseteq Files /\ ManifestsAreRequested'
        /\ ManifestsTyped'
    <3>0. PushInOrder("index", job.ev)
      BY <2>1 DEF IInv, JobInOrder
    <3>1. /\ job.ev.op \in {"push", "manifestpush"}
          /\ job.ev.op = "manifestpush" => job.ev.content \in Files
          /\ job.ev.op = "manifestpush" /\ Row[File] # "private" => job.ev.content = File
      BY <3>0 DEF File
    <3>2. CASE UNCHANGED <<index, manifests, opaque>>
      BY <1>1, <2>1, <3>2 DEF ManifestsAreRequested
    <3>3. CASE job.ev.op = "push" /\ index' = Indexed /\ UNCHANGED <<manifests, opaque>>
      BY <1>1, <2>1, <3>3 DEF Indexed, ManifestsAreRequested
    <3>4. CASE /\ job.ev.op = "manifestpush" /\ Row[File] = "private" /\ index' = index
               /\ manifests' = manifests
               /\ opaque' = [opaque EXCEPT ![File] = FirstKept(@, job.ev.content)]
      <4>1. ManifestsTyped' /\ \A f \in Files : f # File => opaque'[f] = opaque[f]
        BY <1>1, <2>1, <3>1, <3>4 DEF FirstKept
      <4> QED
        BY <1>1, <2>1, <3>4, <4>1 DEF ManifestsAreRequested
    <3>5. CASE /\ job.ev.op = "manifestpush" /\ Row[File] # "private"
               /\ index' = index \cup {File} /\ opaque' = opaque
               /\ manifests' = [manifests EXCEPT ![File] = FirstKept(@, job.ev.content)]
      <4>1. manifests' = [manifests EXCEPT ![File] = File]
        BY <1>1, <2>1, <3>1, <3>5 DEF FirstKept, ManifestsAreRequested
      <4>2. /\ ManifestsTyped' /\ manifests'[File] = File
            /\ \A f \in Files : f # File => manifests'[f] = manifests[f]
        BY <1>1, <2>1, <3>5, <4>1
      <4> QED
        BY <1>1, <2>1, <3>5, <4>2 DEF ManifestsAreRequested
    <3> QED
      BY <1>7, <3>1, <3>2, <3>3, <3>4, <3>5 DEF IndexAndAck, Indexed
  <2>3. Answer("ack") \/ Answer("refused")
    BY <1>7 DEF IndexAndAck
  <2> QED
    BY <1>2, <2>1, <2>2, <2>3, AnswerKeeps
<1> QED
  BY <1>4, <1>5, <1>6, <1>7

\* The end of an answer to an own pull preserves the invariant.
LEMMA CommittedPreserves ==
  ASSUME IInv, Committed
  PROVE  IInv'
<1>1. /\ job.pc = "committed" /\ Same /\ UNCHANGED <<known, queue, store, answers>>
      /\ Release("write") /\ job' = NoJob
  BY DEF Committed, Steps
<1>2. /\ JobTyped'
      /\ job'.pc = "idle" /\ job'.what = "none"
  BY <1>1 DEF NoJob, Pcs, Whats
<1>3. LockTyped' /\ LockIsHeld'
  BY <1>1, <1>2, LoopReleases DEF IInv, Same, Writes
<1>4. /\ disk' \subseteq Files /\ index' \subseteq Files /\ ManifestsAreRequested'
      /\ ManifestsTyped'
      /\ AnswersTyped'
  BY <1>1 DEF store, ManifestsAreRequested, IInv, Shape
<1>5. EventsInTurn'
  BY <1>1 DEF IInv, EventsInTurn, Taken, Same
<1>6. JobInOrder' /\ AccessIsDecided'
  BY <1>2 DEF JobInOrder, AccessIsDecided, Deciding
<1>7. ServedIsEntitled' /\ DeniedHasCause' /\ FoundIsServed'
  BY <1>2 DEF ServedIsEntitled, DeniedHasCause, FoundIsServed
<1>8. Shape'
  BY <1>1, <1>2, <1>3, <1>4, ShapeKept DEF IInv
<1> QED
  BY <1>3, <1>4, <1>5, <1>6, <1>7, <1>8 DEF IInv

-------------------------------------------------------------------------------
(* The surroundings *)

\* What a step that leaves the loop and its answers alone preserves.
LEMMA LoopUntouched ==
  ASSUME IInv, UNCHANGED <<profile, job, answers, queue, arrived>>,
         height' \in Nat, height <= height', disk' = disk \/ job.pc \notin Reads
  PROVE  /\ EventsInTurn' /\ JobInOrder' /\ AccessIsDecided'
         /\ ServedIsEntitled' /\ DeniedHasCause' /\ FoundIsServed'
<1>1. height \in Nat /\ job.until \in Nat
  BY DEF IInv, Shape
<1>2. EventsInTurn' /\ JobInOrder'
  BY DEF IInv, EventsInTurn, JobInOrder, Taken, File
<1>3. AccessIsDecided'
  BY <1>1 DEF IInv, AccessIsDecided, Ended, File, Reads
<1>4. ServedIsEntitled' /\ DeniedHasCause' /\ FoundIsServed'
  BY <1>1 DEF IInv, ServedIsEntitled, DeniedHasCause, FoundIsServed
<1> QED
  BY <1>2, <1>3, <1>4

\* An event that arrives preserves the invariant.
LEMMA ArrivePreserves ==
  ASSUME IInv, Arrive
  PROVE  IInv'
<1> DEFINE S == [ev : Events, id : 1 .. MaxEvents]
<1>1. PICK e \in Events : queue' = Append(queue, [ev |-> e, id |-> arrived + 1])
  BY DEF Arrive
<1>2. /\ queue \in Seq(S) /\ Len(queue) \in Nat /\ arrived \in Nat /\ arrived < MaxEvents
      /\ arrived' = arrived + 1 /\ arrived' \in 0 .. MaxEvents
      /\ [ev |-> e, id |-> arrived + 1] \in S
      /\ UNCHANGED <<node, chain, known, store, job, lock, market, answers>>
  BY LenProperties, ServingAssumption DEF Arrive, IInv, Shape
<1> HIDE DEF S
<1>3. /\ queue' \in Seq(S) /\ Len(queue') = Len(queue) + 1
      /\ \A i \in 1 .. Len(queue) : queue'[i] = queue[i]
      /\ queue'[Len(queue) + 1] = [ev |-> e, id |-> arrived + 1]
  BY <1>1, <1>2, AppendProperties
<1>4. Taken' = Taken /\ Taken \in Int
  BY <1>2, <1>3 DEF Taken
<1>5. EventsInTurn'
  <2>1. queue'[Len(queue) + 1].id = Taken' + (Len(queue) + 1)
    BY <1>2, <1>3, <1>4 DEF Taken
  <2>2. \A k \in 1 .. Len(queue') : queue'[k].id = Taken' + k
    <3>1. ASSUME NEW k \in 1 .. Len(queue')
          PROVE  queue'[k].id = Taken' + k
      <4>1. CASE k = Len(queue) + 1
        BY <2>1, <4>1
      <4>2. CASE k # Len(queue) + 1
        <5>1. k \in 1 .. Len(queue)
          BY <1>2, <1>3, <4>2
        <5>2. queue[k].id = Taken + k
          BY <5>1 DEF IInv, EventsInTurn
        <5> QED
          BY <1>3, <1>4, <5>1, <5>2
      <4> QED
        BY <4>1, <4>2
    <3> QED
      BY <3>1
  <2>3. Len(queue') <= arrived'
    BY <1>2, <1>3 DEF IInv, EventsInTurn
  <2>4. /\ \A i \in 1 .. MaxEvents : i > Taken' => answers'[i] = {}
        /\ \A i \in 1 .. MaxEvents : answers'[i] = {} \/ \E y \in Whats : answers'[i] = {y}
    BY <1>2, <1>4 DEF IInv, EventsInTurn
  <2> QED
    BY <2>2, <2>3, <2>4 DEF EventsInTurn
<1>6. JobInOrder'
  BY <1>2, <1>4 DEF IInv, JobInOrder, File
<1>7. AccessIsDecided'
  BY <1>2 DEF IInv, AccessIsDecided, File, Ended, node, chain, store
<1>8. ServedIsEntitled' /\ DeniedHasCause' /\ FoundIsServed' /\ ManifestsAreRequested'
  BY <1>2 DEF IInv, ServedIsEntitled, DeniedHasCause, FoundIsServed, ManifestsAreRequested,
     node, chain, store
<1>9. LockIsHeld'
  BY <1>2 DEF IInv, LockIsHeld
<1>10. Shape'
  BY <1>2, <1>3 DEF IInv, Shape, S, node, chain, store
<1> QED
  BY <1>5, <1>6, <1>7, <1>8, <1>9, <1>10 DEF IInv

\* A step of the chain preserves the invariant: an ended entry stays ended.
LEMMA ChainPreserves ==
  ASSUME IInv, ChainMoves
  PROVE  IInv'
<1>1. /\ UNCHANGED <<node, v1list, known, store, queue, arrived, job, lock, market,
                     answers>>
      /\ height \in Nat /\ height' \in Nat /\ height <= height'
      /\ list' \in Seq([peer : Peers, until : Nat])
  <2>1. height \in Nat /\ list \in Seq([peer : Peers, until : Nat])
    BY DEF IInv, Shape
  <2>2. CASE list' \in Lists \ {list} /\ UNCHANGED height
    <3>1. list' \in Seq([peer : Peers, until : Nat])
      BY <2>2, ServingAssumption, Zenon
    <3> QED
      BY <2>1, <2>2, <3>1 DEF ChainMoves
  <2>3. CASE height' = height + 1 /\ UNCHANGED list
    BY <2>1, <2>3 DEF ChainMoves
  <2> QED
    BY <2>2, <2>3 DEF ChainMoves
<1>2. /\ EventsInTurn' /\ JobInOrder' /\ AccessIsDecided'
      /\ ServedIsEntitled' /\ DeniedHasCause' /\ FoundIsServed'
  BY <1>1, LoopUntouched DEF node, store
<1>3. LockIsHeld' /\ ManifestsAreRequested'
  BY <1>1 DEF IInv, LockIsHeld, ManifestsAreRequested, store
<1>4. Shape'
  BY <1>1 DEF IInv, Shape, node, store
<1> QED
  BY <1>2, <1>3, <1>4 DEF IInv

\* The steps of the market task preserve the invariant: it sweeps with the lock,
\* when no handler is between finding a chunk and reading it.
LEMMA MarketPreserves ==
  ASSUME IInv, MarketWaits \/ MarketLocks \/ MarketSweeps
  PROVE  IInv'
<1> DEFINE W == Waiters(market, job.pc)
           V == Waiters(market', job'.pc)
           x == <<"market", "write">>
<1>1. /\ UNCHANGED <<profile, v2, list, v1list, height, known, queue, arrived, job, answers,
                     index, manifests, opaque>>
      /\ LockTyped /\ Queued(lock.q, W)
      /\ height \in Nat /\ x \in Modes
  BY DEF MarketWaits, MarketLocks, MarketSweeps, node, chain, store, IInv, Shape,
         LockIsHeld,
     Modes
<1>2. /\ disk' \subseteq Files /\ (disk' = disk \/ job.pc \notin Reads)
      /\ market' \in {"idle", "waiting", "sweeping"}
      /\ LockTyped' /\ LockIsHeld'
  <2>1. CASE MarketWaits
    <3>1. x \notin W /\ W \subseteq V /\ x \in V
      BY <1>1, <2>1 DEF MarketWaits, Waiters
    <3>2. Append(lock.q, x) \in Seq(Modes) /\ Queued(Append(lock.q, x), V)
      BY <1>1, <3>1, EnterQueue
    <3>3. /\ LockTyped' /\ lock'.w = lock.w
          /\ lock'.r = lock.r /\ lock'.q = Append(lock.q, x)
      BY <1>1, <2>1, <3>2 DEF MarketWaits, Wait
    <3>4. LockIsHeld'
      BY <1>1, <2>1, <3>2, <3>3 DEF MarketWaits, IInv, LockIsHeld
    <3> QED
      BY <2>1, <3>3, <3>4 DEF MarketWaits, store, IInv, Shape
  <2>2. CASE MarketLocks
    <3>1. /\ lock.q # <<>> /\ Head(lock.q) = x /\ lock.w = FALSE /\ lock.r = 0
          /\ lock' = [lock EXCEPT !.q = Tail(lock.q), !.w = TRUE, !.r = lock.r]
      BY <1>1, <2>2 DEF MarketLocks, Granted
    <3>2. W \ {Head(lock.q)} \subseteq V
      BY <1>1, <3>1 DEF Waiters
    <3>3. Tail(lock.q) \in Seq(Modes) /\ Queued(Tail(lock.q), V)
      BY <1>1, <3>1, <3>2, LeaveQueue
    <3>4. /\ LockTyped' /\ lock'.w = TRUE
          /\ lock'.r = 0 /\ lock'.q = Tail(lock.q)
      BY <1>1, <3>1, <3>3
    <3>5. LockIsHeld'
      BY <1>1, <2>2, <3>1, <3>3, <3>4 DEF MarketLocks, IInv, LockIsHeld
    <3> QED
      BY <2>2, <3>4, <3>5 DEF MarketLocks, store, IInv, Shape
  <2>3. CASE MarketSweeps
    <3>1. /\ market = "sweeping" /\ market' = "idle" /\ lock' = [lock EXCEPT !.w = FALSE]
          /\ disk' \subseteq disk
      BY <2>3 DEF MarketSweeps, Release
    <3>2. W \subseteq V
      BY <1>1, <3>1 DEF Waiters
    <3>3. Queued(lock.q, V)
      BY <1>1, <3>2, WaitersGrow
    <3>4. /\ LockTyped' /\ lock'.w = FALSE
          /\ lock'.r = lock.r /\ lock'.q = lock.q
      BY <1>1, <3>1
    <3>5. LockIsHeld' /\ job.pc \notin Reads
      BY <1>1, <3>1, <3>3, <3>4 DEF IInv, LockIsHeld
    <3> QED
      BY <3>1, <3>4, <3>5 DEF IInv, Shape
  <2> QED
    BY <2>1, <2>2, <2>3
<1>3. /\ EventsInTurn' /\ JobInOrder' /\ AccessIsDecided'
      /\ ServedIsEntitled' /\ DeniedHasCause' /\ FoundIsServed'
  BY <1>1, <1>2, LoopUntouched
<1>4. ManifestsAreRequested'
  BY <1>1 DEF IInv, ManifestsAreRequested
<1>5. Shape'
  BY <1>1, <1>2 DEF IInv, Shape
<1> QED
  BY <1>2, <1>3, <1>4, <1>5 DEF IInv

-------------------------------------------------------------------------------
(* Theorems *)

\* The initial states satisfy the invariant.
LEMMA InitEstablishes == Init => IInv
<1> SUFFICES ASSUME Init PROVE IInv
  OBVIOUS
<1>1. /\ queue \in Seq([ev : Events, id : 1 .. MaxEvents]) /\ Len(queue) = 0 /\ arrived = 0
      /\ Taken = 0
  <2>1. queue = <<>>
    BY DEF Init
  <2>2. arrived = 0 /\ Len(queue) = 0
    BY DEF Init
  <2>3. queue \in Seq([ev : Events, id : 1 .. MaxEvents])
    BY <2>1, EmptySeq
  <2>4. Taken = 0
    BY <2>2 DEF Taken
  <2> QED
    BY <2>2, <2>3, <2>4
<1>2. /\ JobTyped
      /\ job.pc = "idle" /\ job.what = "none"
  BY DEF Init, NoJob, Pcs, Whats
<1>3. /\ LockTyped /\ lock.w = FALSE /\ lock.r = 0
      /\ Len(lock.q) = 0
  BY DEF Init
<1>4. profile \in {"production", "dev"} /\ v2 \in BOOLEAN
  <2>1. PICK n \in Nodes : profile = n.profile /\ v2 = n.v2
    BY DEF Init
  <2>2. n \in [profile : {"production", "dev"}, v2 : BOOLEAN]
    BY ServingAssumption
  <2> QED
    BY <2>1, <2>2
<1>5. /\ list \in Seq([peer : Peers, until : Nat]) /\ height \in Nat
      /\ AnswersTyped /\ arrived \in 0 .. MaxEvents
  BY ServingAssumption DEF Init
<1>6. Shape
  BY <1>1, <1>2, <1>3, <1>4, <1>5 DEF Init, Shape
<1>7. LockIsHeld
  BY <1>2, <1>3, PointsApart DEF Init, LockIsHeld, Queued
<1>8. EventsInTurn /\ JobInOrder /\ AccessIsDecided
  BY <1>1, <1>2 DEF Init, EventsInTurn, JobInOrder, AccessIsDecided, Deciding
<1>9. ServedIsEntitled /\ DeniedHasCause /\ FoundIsServed /\ ManifestsAreRequested
  <2>1. ASSUME NEW f \in Files
        PROVE  /\ manifests[f] = IF f \in disk /\ Row[f] # "private" THEN f ELSE None
               /\ opaque[f] = None /\ index = disk /\ f # None
    BY ServingAssumption DEF Init
  <2>2. ManifestsAreRequested
    BY <2>1 DEF ManifestsAreRequested
  <2> QED
    BY <1>2, <2>2 DEF ServedIsEntitled, DeniedHasCause, FoundIsServed
<1> QED
  BY <1>6, <1>7, <1>8, <1>9 DEF IInv

\* Every step preserves the invariant.
LEMMA StepPreserves == IInv /\ [Next]_vars => IInv'
<1> SUFFICES ASSUME IInv, [Next]_vars PROVE IInv'
  OBVIOUS
<1>1. CASE Arrive
  BY <1>1, ArrivePreserves
<1>2. CASE ChainMoves
  BY <1>2, ChainPreserves
<1>3. CASE MarketWaits \/ MarketLocks \/ MarketSweeps
  BY <1>3, MarketPreserves
<1>4. CASE Take
  BY <1>4, TakePreserves
<1>5. CASE ReadLock \/ Exempt \/ Put \/ Records \/ Commit
  BY <1>5, LockPreserves
<1>6. CASE UnknownCid
  <2>1. /\ job.pc \in Deciding /\ UNCHANGED <<known, queue, store>> /\ Same
        /\ Uncertain("unindexed")
    BY <1>6 DEF UnknownCid, Steps, Deciding
  <2> QED
    BY <2>1, UncertainKeeps
<1>7. CASE ReadRow
  <2>1. /\ job.pc = "row" /\ job.pc \in Deciding
        /\ UNCHANGED <<known, queue, store>> /\ Same
        /\ RowAnswers \/ Uncertain("error")
    BY <1>7 DEF ReadRow, RowFails, Steps, Deciding
  <2> QED
    BY <2>1, RowPreserves, UncertainKeeps
<1>8. CASE ReadHeight
  BY <1>8, HeightPreserves
<1>9. CASE ReadV1
  BY <1>9, V1Preserves
<1>10. CASE Look \/ Map
  BY <1>10, ServePreserves
<1>11. CASE Validate \/ Exempted \/ PutDone \/ IndexAndAck
  BY <1>11, PushPreserves
<1>12. CASE Committed
  BY <1>12, CommittedPreserves
<1>13. CASE UNCHANGED vars
  <2>1. /\ EventsInTurn' /\ JobInOrder' /\ AccessIsDecided'
        /\ ServedIsEntitled' /\ DeniedHasCause' /\ FoundIsServed'
    BY <1>13, LoopUntouched DEF vars, IInv, Shape
  <2>2. LockIsHeld' /\ ManifestsAreRequested' /\ Shape'
    BY <1>13 DEF vars, IInv, LockIsHeld, ManifestsAreRequested, Shape
  <2> QED
    BY <2>1, <2>2 DEF IInv
<1> QED
  BY <1>1, <1>2, <1>3, <1>4, <1>5, <1>6, <1>7, <1>8, <1>9, <1>10, <1>11, <1>12, <1>13
     DEF Next, Handle

\* The inductive invariant holds in every reachable state.
LEMMA InvariantHolds == Spec => []IInv
  BY InitEstablishes, StepPreserves, PTL DEF Spec

\* Nobody waits for the lock who need not: at most the loop and the market task.
LEMMA TwoWait ==
  ASSUME IInv
  PROVE  /\ Len(lock.q) <= 2
         /\ job.pc = "idle" => \A i \in DOMAIN lock.q : lock.q[i][1] = "market"
<1> DEFINE q == lock.q
           n == Len(lock.q)
<1>1. /\ q \in Seq(Modes) /\ n \in Nat /\ DOMAIN q = 1 .. n
      /\ Queued(q, Waiters(market, job.pc))
  BY LenProperties DEF IInv, Shape, LockIsHeld
<1>2. \A i \in 1 .. n :
        \/ q[i] = <<"market", "write">>
        \/ q[i] = <<"listen", "read">> /\ job.pc \in WaitsToRead
        \/ q[i] = <<"listen", "write">> /\ job.pc \in WaitsToWrite
  BY <1>1 DEF Queued, Waiters
<1>3. n <= 2
  <2> SUFFICES ASSUME n > 2 PROVE FALSE
    BY <1>1
  <2>1. 1 \in 1 .. n /\ 2 \in 1 .. n /\ 3 \in 1 .. n
    BY <1>1
  <2>2. q[1] # q[2] /\ q[1] # q[3] /\ q[2] # q[3]
    BY <1>1, <2>1 DEF Queued
  <2> HIDE DEF q, n
  <2> QED
    BY <1>2, <2>1, <2>2, PointsApart
<1>4. job.pc = "idle" => \A i \in 1 .. n : q[i][1] = "market"
  BY <1>2, PointsApart
<1> QED
  BY <1>1, <1>3, <1>4

\* Whatever the interleaving of the loop with the chain, with the network and with
\* the market task's sweep: no request has two answers; in production a file goes
\* out only to a peer the chain granted it to at one of the reads made for the
\* request, and a refusal has a cause; a chunk that was found is read; a manifest
\* is stored under the root it was asked or validated for (shard_dispatch.rs,
\* acl.rs, serve.rs).
THEOREM AnswersRight == Spec => []AnswersAreRight
<1>1. IInv => AnswersAreRight
  <2> SUFFICES ASSUME IInv PROVE AnswersAreRight
    OBVIOUS
  <2>1. TypeOK
    BY TwoWait DEF IInv, Shape, LockIsHeld, TypeOK
  <2>2. AnsweredOnce
    <3> SUFFICES ASSUME NEW i \in 1 .. MaxEvents
                 PROVE  Cardinality(answers[i]) <= 1
      BY DEF AnsweredOnce
    <3>1. CASE answers[i] = {}
      BY <3>1, FS_EmptySet
    <3>2. ASSUME NEW x, answers[i] = {x} PROVE Cardinality(answers[i]) <= 1
      <4>1. Cardinality({x}) = 1
        BY FS_Singleton
      <4> QED
        BY <3>2, <4>1
    <3> QED
      BY <3>1, <3>2 DEF IInv, EventsInTurn
  <2> QED
    BY <2>1, <2>2 DEF IInv, AnswersAreRight
<1> QED
  BY <1>1, InvariantHolds, PTL

-----------------------------------------------------------------------------
(***************************************************************************)
(* The placement of DataPath, for any registry, scores, replication factor *)
(* and files: every side computes the same assignment, and a departure     *)
(* moves no more than it must.  A list sorted by a strict order holds, at   *)
(* position k, the element that has k - 1 elements before it.              *)
(***************************************************************************)

\* below[a] are the elements of S before a in a strict total order.
Orders(S, below) ==
  /\ below \in [S -> SUBSET S]
  /\ \A a \in S : a \notin below[a]
  /\ \A a, b \in S : a = b \/ a \in below[b] \/ b \in below[a]
  /\ \A a, b \in S : a \in below[b] => below[a] \subseteq below[b]

\* The number of elements before one is less than the number of all of them.
LEMMA RankType ==
  ASSUME NEW S, IsFiniteSet(S), NEW below, Orders(S, below), NEW a \in S
  PROVE  Cardinality(below[a]) \in 0 .. Cardinality(S) - 1
<1>1. below[a] \in SUBSET S /\ a \notin below[a]
  BY DEF Orders
<1>2. /\ IsFiniteSet(below[a]) /\ Cardinality(below[a]) <= Cardinality(S)
      /\ Cardinality(S) = Cardinality(below[a]) => S = below[a]
  BY <1>1, FS_Subset
<1>3. Cardinality(below[a]) \in Nat /\ Cardinality(S) \in Nat
  BY <1>2, FS_CardinalityType
<1> QED BY <1>1, <1>2, <1>3

\* What comes later has more before it.
LEMMA RankGrows ==
  ASSUME NEW S, IsFiniteSet(S), NEW below, Orders(S, below),
         NEW a \in S, NEW b \in S, a \in below[b]
  PROVE  Cardinality(below[a]) < Cardinality(below[b])
<1>1. below[b] \in SUBSET S /\ below[a] \in SUBSET below[b] /\ a \notin below[a]
  BY DEF Orders
<1>2. IsFiniteSet(below[b])
  BY <1>1, FS_Subset
<1>3. /\ IsFiniteSet(below[a]) /\ Cardinality(below[a]) <= Cardinality(below[b])
      /\ Cardinality(below[b]) = Cardinality(below[a]) => below[b] = below[a]
  BY <1>1, <1>2, FS_Subset
<1>4. Cardinality(below[a]) \in Nat /\ Cardinality(below[b]) \in Nat
  BY <1>2, <1>3, FS_CardinalityType
<1> QED BY <1>1, <1>3, <1>4

\* No two elements have as many before them.
LEMMA RankDiffers ==
  ASSUME NEW S, IsFiniteSet(S), NEW below, Orders(S, below),
         NEW a \in S, NEW b \in S, Cardinality(below[a]) = Cardinality(below[b])
  PROVE  a = b
<1>1. Cardinality(below[a]) \in Nat /\ Cardinality(below[b]) \in Nat
  <2>1. Cardinality(S) \in Nat
    BY FS_CardinalityType
  <2> QED BY <2>1, RankType
<1>2. a \in below[b] => Cardinality(below[a]) < Cardinality(below[b])
  BY RankGrows
<1>3. b \in below[a] => Cardinality(below[b]) < Cardinality(below[a])
  BY RankGrows
<1>4. a = b \/ a \in below[b] \/ b \in below[a]
  BY DEF Orders
<1> QED BY <1>1, <1>2, <1>3, <1>4

\* Every place is taken.
LEMMA RankTaken ==
  ASSUME NEW S, IsFiniteSet(S), NEW below, Orders(S, below)
  PROVE  \A m \in 0 .. Cardinality(S) - 1 : \E a \in S : Cardinality(below[a]) = m
<1> DEFINE N == Cardinality(S)
           f == [a \in S |-> Cardinality(below[a])]
<1>1. N \in Nat
  BY FS_CardinalityType
<1>2. f \in [S -> 0 .. N - 1]
  BY RankType
<1>3. \A a, b \in S : f[a] = f[b] => a = b
  BY RankDiffers
<1>4. IsFiniteSet(0 .. N - 1) /\ Cardinality(0 .. N - 1) = N
  <2> HIDE DEF N, f
  <2>1. IsFiniteSet(0 .. N - 1) /\ Cardinality(0 .. N - 1) = IF 0 > N - 1 THEN 0 ELSE (N - 1) - 0 + 1
    BY <1>1, FS_Interval
  <2> QED BY <2>1, <1>1
<1>5. f \in Surjection(S, 0 .. N - 1)
  <2> HIDE DEF f
  <2>1. f \in Injection(S, 0 .. N - 1)
    BY <1>2, <1>3 DEF Injection, IsInjective
  <2> QED BY <2>1, <1>4, FS_Injection
<1>6. \A m \in 0 .. N - 1 : \E a \in S : f[a] = m
  <2> HIDE DEF f
  <2> QED BY <1>5 DEF Surjection
<1> QED BY <1>6

\* q looks for the element of each place.
Picks(S, below, q) ==
  /\ q = [k \in 1..Cardinality(S) |-> q[k]]
  /\ \A k \in 1..Cardinality(S) :
       (\E a \in S : Cardinality(below[a]) = k - 1)
         => q[k] \in S /\ Cardinality(below[q[k]]) = k - 1

\* A set in order: each position holds the element with that many before it.
LEMMA RankedLists ==
  ASSUME NEW S, IsFiniteSet(S), NEW below, Orders(S, below), NEW q, Picks(S, below, q)
  PROVE  /\ q \in Seq(S) /\ Len(q) = Cardinality(S) /\ Len(q) \in Nat
         /\ \A k \in 1 .. Len(q) : q[k] \in S /\ Cardinality(below[q[k]]) = k - 1
         /\ \A a \in S : /\ Cardinality(below[a]) + 1 \in 1 .. Len(q)
                         /\ q[Cardinality(below[a]) + 1] = a
<1> DEFINE N == Cardinality(S)
<1>1. N \in Nat
  BY FS_CardinalityType
<1>2. \A k \in 1 .. N : q[k] \in S /\ Cardinality(below[q[k]]) = k - 1
  <2> TAKE k \in 1 .. N
  <2>1. k - 1 \in 0 .. N - 1
    BY <1>1
  <2>2. \E a \in S : Cardinality(below[a]) = k - 1
    BY <2>1, RankTaken
  <2> QED BY <2>2 DEF Picks
<1>3. q \in Seq(S) /\ Len(q) = N
  <2>1. q \in [1 .. N -> S]
    BY <1>2 DEF Picks
  <2>2. q \in Seq(S)
    BY <1>1, <2>1, SeqDef
  <2> QED BY <1>1, <2>1, <2>2, LenProperties
<1>4. \A a \in S : /\ Cardinality(below[a]) + 1 \in 1 .. N
                   /\ q[Cardinality(below[a]) + 1] = a
  <2> TAKE a \in S
  <2> DEFINE k == Cardinality(below[a]) + 1
  <2>1. Cardinality(below[a]) \in 0 .. N - 1
    BY RankType
  <2>2. k \in 1 .. N /\ k - 1 = Cardinality(below[a])
    BY <2>1, <1>1
  <2>3. q[k] \in S /\ Cardinality(below[q[k]]) = Cardinality(below[a])
    BY <1>2, <2>2
  <2>4. q[k] = a
    <3> HIDE DEF k
    <3> QED BY <2>3, RankDiffers
  <2> QED BY <2>2, <2>4
<1> QED BY <1>1, <1>2, <1>3, <1>4

\* The numbers of S below a.
Smaller(S, a) == {b \in S : b < a}

\* The smaller numbers come first.
LEMMA AscendingLists ==
  ASSUME NEW S \in SUBSET Nat, IsFiniteSet(S)
  PROVE  ToSet(Ascending(S)) = S
<1> DEFINE below == [a \in S |-> Smaller(S, a)]
           q == Ascending(S)
<1>1. Orders(S, below)
  <2>1. \A a \in S : a \in Nat
    OBVIOUS
  <2>2. below \in [S -> SUBSET S]
    BY DEF Smaller
  <2>3. \A a, b \in S : b \in below[a] <=> b < a
    BY DEF Smaller
  <2> HIDE DEF below
  <2>4. ASSUME NEW a \in S, NEW b \in S, a \in below[b], NEW c \in below[a] PROVE c \in below[b]
    <3>1. c \in S
      BY <2>2, <2>4
    <3> QED BY <3>1, <2>1, <2>3, <2>4
  <2>5. \A a \in S : a \notin below[a]
    BY <2>1, <2>3
  <2>6. \A a, b \in S : a = b \/ a \in below[b] \/ b \in below[a]
    BY <2>1, <2>3
  <2> QED BY <2>2, <2>4, <2>5, <2>6 DEF Orders
<1>2. Picks(S, below, q)
  <2>1. q = [k \in 1..Cardinality(S) |->
               CHOOSE a \in S : Cardinality(Smaller(S, a)) = k - 1]
    BY DEF Ascending, Ranked, Smaller
  <2>2. \A a \in S : below[a] = Smaller(S, a)
    OBVIOUS
  <2> HIDE DEF q, below
  <2>3. ASSUME NEW k \in 1..Cardinality(S), NEW x \in S, Cardinality(below[x]) = k - 1
        PROVE  q[k] \in S /\ Cardinality(below[q[k]]) = k - 1
    <3>1. Cardinality(Smaller(S, x)) = k - 1
      BY <2>2, <2>3
    <3>2. q[k] \in S /\ Cardinality(Smaller(S, q[k])) = k - 1
      BY <2>1, <3>1
    <3> QED BY <2>2, <3>2
  <2>4. q = [k \in 1..Cardinality(S) |-> q[k]]
    BY <2>1
  <2> QED BY <2>3, <2>4 DEF Picks
<1> HIDE DEF q, below
<1>3. /\ q \in Seq(S) /\ Len(q) \in Nat
      /\ \A k \in 1 .. Len(q) : q[k] \in S
      /\ \A a \in S : Cardinality(below[a]) + 1 \in 1 .. Len(q) /\ q[Cardinality(below[a]) + 1] = a
  BY <1>1, <1>2, RankedLists
<1>4. DOMAIN q = 1 .. Len(q)
  BY <1>3, LenProperties
<1>5. ToSet(q) = S
  <2>1. \A a \in S : \E k \in DOMAIN q : q[k] = a
    BY <1>3, <1>4
  <2>2. \A k \in DOMAIN q : q[k] \in S
    BY <1>3, <1>4
  <2> QED BY <2>1, <2>2 DEF ToSet
<1> QED BY <1>5 DEF q

\* The archives of S before a in the order of chunk i, and the first r.
Lower(score, i, S, a) == {b \in S : Before(score, i, b, a)}
Chosen(score, i, S, r) == {a \in S : Cardinality(Lower(score, i, S, a)) < r}

\* Scores, with ties broken by address, order the archives.
LEMMA BeforeOrders ==
  ASSUME NEW S \in SUBSET Nat, NEW score, NEW i, \A a \in S : score[i][a] \in Nat
  PROVE  Orders(S, [a \in S |-> Lower(score, i, S, a)])
<1> DEFINE below == [a \in S |-> Lower(score, i, S, a)]
           w == score[i]
<1>1. \A a \in S : a \in Nat /\ w[a] \in Nat
  OBVIOUS
<1>2. below \in [S -> SUBSET S]
  BY DEF Lower
<1>3. \A a, b \in S : b \in below[a] <=> (w[b] < w[a] \/ (w[b] = w[a] /\ b < a))
  BY DEF Lower, Before
<1> HIDE DEF below, w
<1>4. ASSUME NEW a \in S, NEW b \in S, a \in below[b], NEW c \in below[a] PROVE c \in below[b]
  <2>1. c \in S
    BY <1>2, <1>4
  <2>2. /\ w[a] < w[b] \/ (w[a] = w[b] /\ a < b)
        /\ w[c] < w[a] \/ (w[c] = w[a] /\ c < a)
    BY <2>1, <1>3, <1>4
  <2>3. /\ a \in Nat /\ b \in Nat /\ c \in Nat
        /\ w[a] \in Nat /\ w[b] \in Nat /\ w[c] \in Nat
    BY <2>1, <1>1
  <2>4. w[c] < w[b] \/ (w[c] = w[b] /\ c < b)
    BY ONLY <2>2, <2>3
  <2> QED BY <2>1, <2>4, <1>3
<1>5. \A a \in S : a \notin below[a]
  BY <1>1, <1>3
<1>6. \A a, b \in S : a = b \/ a \in below[b] \/ b \in below[a]
  BY <1>1, <1>3
<1>7. Orders(S, below)
  BY <1>2, <1>4, <1>5, <1>6 DEF Orders
<1> QED BY <1>7 DEF below

\* The scorer's crate returns the first r archives of the order.
LEMMA WireChooses ==
  ASSUME NEW score, NEW p, NEW i, NEW r \in Nat, NEW S, ToSet(p) = S,
         S \in SUBSET Nat, IsFiniteSet(S), \A a \in S : score[i][a] \in Nat
  PROVE  /\ wire_presorted(score, p, i, r) \in Seq(S)
         /\ ToSet(wire_presorted(score, p, i, r)) = Chosen(score, i, S, r)
<1> DEFINE below == [a \in S |-> Lower(score, i, S, a)]
           q == [k \in 1..Cardinality(S) |->
                   CHOOSE a \in S : Cardinality(Lower(score, i, S, a)) = k - 1]
           m == IF r < Len(q) THEN r ELSE Len(q)
           w == SubSeq(q, 1, m)
<1>1. Orders(S, below)
  BY BeforeOrders
<1>2. \A a \in S : below[a] = Lower(score, i, S, a)
  OBVIOUS
<1>3. wire_presorted(score, p, i, r) = w
  BY DEF wire_presorted, Ranked, Lower
<1>4. Picks(S, below, q)
  <2>1. q = [k \in 1..Cardinality(S) |->
               CHOOSE a \in S : Cardinality(Lower(score, i, S, a)) = k - 1]
    OBVIOUS
  <2> HIDE DEF q, below
  <2>2. ASSUME NEW k \in 1..Cardinality(S), NEW x \in S, Cardinality(below[x]) = k - 1
        PROVE  q[k] \in S /\ Cardinality(below[q[k]]) = k - 1
    <3>1. Cardinality(Lower(score, i, S, x)) = k - 1
      BY <1>2, <2>2
    <3>2. q[k] \in S /\ Cardinality(Lower(score, i, S, q[k])) = k - 1
      BY <2>1, <3>1
    <3> QED BY <1>2, <3>2
  <2> QED BY <2>1, <2>2 DEF Picks
<1> HIDE DEF q, below
<1>5. /\ q \in Seq(S) /\ Len(q) \in Nat
      /\ \A k \in 1 .. Len(q) : q[k] \in S /\ Cardinality(below[q[k]]) = k - 1
      /\ \A a \in S : Cardinality(below[a]) + 1 \in 1 .. Len(q) /\ q[Cardinality(below[a]) + 1] = a
  BY <1>1, <1>4, RankedLists
<1>6. m \in Nat /\ m <= Len(q) /\ m <= r
  BY <1>5
<1>7. /\ w \in Seq(S) /\ DOMAIN w = 1 .. m /\ \A k \in 1 .. m : w[k] = q[k]
  BY <1>5, <1>6
<1>8. ToSet(w) = Chosen(score, i, S, r)
  <2>1. ASSUME NEW k \in 1 .. m PROVE w[k] \in Chosen(score, i, S, r)
    <3>1. q[k] \in S /\ Cardinality(below[q[k]]) = k - 1 /\ k - 1 < r
      BY <1>5, <1>6
    <3>2. Cardinality(Lower(score, i, S, q[k])) < r
      BY <3>1, <1>2
    <3> QED BY <3>1, <3>2, <1>7 DEF Chosen
  <2>2. ASSUME NEW a \in Chosen(score, i, S, r) PROVE \E k \in 1 .. m : w[k] = a
    <3>1. a \in S /\ Cardinality(below[a]) < r
      BY <1>2 DEF Chosen
    <3> DEFINE k == Cardinality(below[a]) + 1
    <3>2. k \in 1 .. Len(q) /\ q[k] = a
      BY <3>1, <1>5
    <3>3. k <= r
      BY <3>1, <3>2, <1>5
    <3>4. k \in 1 .. m
      BY <3>2, <3>3, <1>5
    <3> QED BY <3>2, <3>4, <1>7
  <2> QED BY <2>1, <2>2, <1>7 DEF ToSet
<1> QED BY <1>3, <1>7, <1>8

\* An archive of a smaller set has no more before it there.
LEMMA LowerShrinks ==
  ASSUME NEW score, NEW i, NEW S, IsFiniteSet(S), NEW U \in SUBSET S, NEW a
  PROVE  /\ Lower(score, i, U, a) \subseteq Lower(score, i, S, a)
         /\ Cardinality(Lower(score, i, U, a)) \in Nat
         /\ Cardinality(Lower(score, i, S, a)) \in Nat
         /\ Cardinality(Lower(score, i, U, a)) <= Cardinality(Lower(score, i, S, a))
<1>1. Lower(score, i, U, a) \in SUBSET Lower(score, i, S, a)
  BY DEF Lower
<1>2. Lower(score, i, S, a) \in SUBSET S
  BY DEF Lower
<1>3. IsFiniteSet(Lower(score, i, S, a))
  BY <1>2, FS_Subset
<1>4. IsFiniteSet(Lower(score, i, U, a)) /\ Cardinality(Lower(score, i, U, a)) <= Cardinality(Lower(score, i, S, a))
  BY <1>1, <1>3, FS_Subset
<1> QED BY <1>1, <1>3, <1>4, FS_CardinalityType

\* The element of a place that is not after a is a or before it.
LEMMA RankBefore ==
  ASSUME NEW S, IsFiniteSet(S), NEW below, Orders(S, below), NEW a \in S,
         NEW r \in Nat, r <= Cardinality(below[a])
  PROVE  \E c \in S : Cardinality(below[c]) = r /\ below[c] \subseteq below[a]
<1>1. Cardinality(below[a]) \in 0 .. Cardinality(S) - 1
  BY RankType
<1>2. Cardinality(S) \in Nat
  BY FS_CardinalityType
<1>3. r \in 0 .. Cardinality(S) - 1
  BY <1>1, <1>2
<1>4. PICK c \in S : Cardinality(below[c]) = r
  <2>1. \A m \in 0 .. Cardinality(S) - 1 : \E x \in S : Cardinality(below[x]) = m
    BY RankTaken
  <2> QED BY <1>3, <2>1
<1>5. ASSUME a \in below[c] PROVE FALSE
  <2>1. Cardinality(below[a]) < Cardinality(below[c])
    BY <1>5, RankGrows
  <2> QED BY <1>1, <1>2, <1>4, <2>1
<1>6. a = c \/ a \in below[c] \/ c \in below[a]
  BY DEF Orders
<1>7. c \in below[a] => below[c] \subseteq below[a]
  BY DEF Orders
<1> QED BY <1>4, <1>5, <1>6, <1>7

\* When archives leave, those that stay keep their chunks, and if none of a chunk's
\* archives left its archives are the same.
LEMMA ChosenStays ==
  ASSUME NEW score, NEW i, NEW r \in Nat, NEW S \in SUBSET Nat, IsFiniteSet(S),
         \A a \in S : score[i][a] \in Nat, NEW U \in SUBSET S
  PROVE  /\ Chosen(score, i, S, r) \cap U \subseteq Chosen(score, i, U, r)
         /\ Chosen(score, i, S, r) \subseteq U => Chosen(score, i, U, r) = Chosen(score, i, S, r)
<1> DEFINE below == [a \in S |-> Lower(score, i, S, a)]
<1>1. \A a \in U : /\ Cardinality(Lower(score, i, U, a)) \in Nat
                   /\ Cardinality(Lower(score, i, S, a)) \in Nat
                   /\ Cardinality(Lower(score, i, U, a)) <= Cardinality(Lower(score, i, S, a))
  BY LowerShrinks
<1>2. Chosen(score, i, S, r) \cap U \subseteq Chosen(score, i, U, r)
  BY <1>1 DEF Chosen
<1>3. ASSUME Chosen(score, i, S, r) \subseteq U, NEW a \in Chosen(score, i, U, r)
      PROVE  a \in Chosen(score, i, S, r)
  <2> SUFFICES ASSUME a \notin Chosen(score, i, S, r) PROVE FALSE
    OBVIOUS
  <2>1. a \in S /\ a \in U /\ Cardinality(Lower(score, i, U, a)) < r
    BY <1>3 DEF Chosen
  <2>2. Orders(S, below)
    BY BeforeOrders
  <2>3. \A x \in S : below[x] = Lower(score, i, S, x)
    OBVIOUS
  <2> HIDE DEF below
  <2>4. r <= Cardinality(below[a])
    BY <2>1, <2>3, <1>1 DEF Chosen
  <2>5. PICK c \in S : Cardinality(below[c]) = r /\ below[c] \subseteq below[a]
    BY <2>1, <2>2, <2>4, RankBefore
  \* what is before the first archive left out is chosen, so it stayed
  <2>7. below[c] \subseteq U
    <3> SUFFICES ASSUME NEW x \in below[c] PROVE x \in U
      OBVIOUS
    <3>1. x \in S
      BY <2>2 DEF Orders
    <3>2. Cardinality(below[x]) < r
      BY <3>1, <2>2, <2>5, RankGrows
    <3>3. x \in Chosen(score, i, S, r)
      BY <3>1, <3>2, <2>3 DEF Chosen
    <3> QED BY <3>3, <1>3
  <2>9. below[c] \in SUBSET Lower(score, i, U, a)
    BY <2>1, <2>3, <2>5, <2>7 DEF Lower
  <2>10. IsFiniteSet(Lower(score, i, U, a))
    <3>1. Lower(score, i, U, a) \in SUBSET S
      BY DEF Lower
    <3> QED BY <3>1, FS_Subset
  <2>11. Cardinality(below[c]) <= Cardinality(Lower(score, i, U, a))
    BY <2>9, <2>10, FS_Subset
  <2> QED BY <2>1, <2>5, <2>11, <1>1
<1>4. ASSUME Chosen(score, i, S, r) \subseteq U PROVE Chosen(score, i, U, r) = Chosen(score, i, S, r)
  BY <1>2, <1>3, <1>4
<1> QED BY <1>2, <1>4

\* With as many replicas as archives everyone is chosen, with none nobody.
LEMMA ChosenAll ==
  ASSUME NEW score, NEW i, NEW r \in Nat, NEW S \in SUBSET Nat, IsFiniteSet(S),
         \A a \in S : score[i][a] \in Nat
  PROVE  /\ r >= Cardinality(S) => Chosen(score, i, S, r) = S
         /\ r = 0 => Chosen(score, i, S, r) = {}
<1> DEFINE below == [a \in S |-> Lower(score, i, S, a)]
<1>1. Orders(S, below)
  BY BeforeOrders
<1>2. \A x \in S : below[x] = Lower(score, i, S, x)
  OBVIOUS
<1> HIDE DEF below
<1>3. Cardinality(S) \in Nat
  BY FS_CardinalityType
<1>4. \A x \in S : Cardinality(Lower(score, i, S, x)) \in 0 .. Cardinality(S) - 1
  <2> TAKE x \in S
  <2>1. Cardinality(below[x]) \in 0 .. Cardinality(S) - 1
    BY <1>1, RankType
  <2> QED BY <2>1, <1>2
<1>5. \A x \in S : /\ r >= Cardinality(S) => Cardinality(Lower(score, i, S, x)) < r
                   /\ r = 0 => ~(Cardinality(Lower(score, i, S, x)) < r)
  BY <1>3, <1>4
<1> QED BY <1>5 DEF Chosen

-----------------------------------------------------------------------------
(* What the sides compute *)

\* The active archives of a registry.
ActiveOf(recs) == {rec.addr : rec \in filter_active_archives(recs)}

\* What a registry can hold: any role and status, "Unbonding" among them.
Entries == [addr : Archives, role : STRING, status : STRING \cup {"Unbonding"}]
Registries == Seq(Entries)

\* The active archives of a registry are finitely many addresses.
LEMMA ActiveOfType ==
  ASSUME NEW recs \in Registries
  PROVE  ActiveOf(recs) \in SUBSET Archives /\ IsFiniteSet(ActiveOf(recs))
<1> DEFINE D == {m \in DOMAIN recs : is_active_archive(recs[m])}
<1>1. recs \in [1 .. Len(recs) -> Entries] /\ Len(recs) \in Nat
  BY LenProperties DEF Registries
<1>2. ActiveOf(recs) = {recs[m].addr : m \in D}
  BY DEF ActiveOf, filter_active_archives
<1>3. D \in SUBSET (1 .. Len(recs))
  BY <1>1
<1>4. IsFiniteSet(D)
  <2>1. IsFiniteSet(1 .. Len(recs))
    BY <1>1, FS_Interval
  <2> HIDE DEF D
  <2> QED BY <1>3, <2>1, FS_Subset
<1>5. ActiveOf(recs) \in SUBSET Archives
  BY <1>1, <1>2, <1>3 DEF Entries
<1>6. IsFiniteSet({recs[m].addr : m \in D})
  <2> DEFINE f == [m \in D |-> recs[m].addr]
  <2>1. f \in Surjection(D, {recs[m].addr : m \in D})
    BY DEF Surjection
  <2> HIDE DEF f, D
  <2> QED BY <1>4, <2>1, FS_Surjection
<1> QED BY <1>2, <1>5, <1>6

\* A set of naturals that is not empty has a least element, and Min is it.
LEMMA MinIsLeast ==
  ASSUME NEW T \in SUBSET Nat, T # {}
  PROVE  Min(T) \in T /\ \A m \in T : Min(T) <= m
<1>1. PICK x \in T : \A m \in T : ~(<<m, x>> \in OpToRel(<, Nat))
  BY NatLessThanWellFounded, WFMin, Zenon
<1>2. \A m \in T : ~(m < x)
  BY <1>1 DEF OpToRel
<1>3. \E y \in T : \A m \in T : y <= m
  BY <1>2
<1> QED BY <1>3 DEF Min

\* Both sides read the same snapshot of a registry, and presorting keeps it.
LEMMA SnapshotHolds ==
  ASSUME NEW recs \in Registries
  PROVE  /\ fetch_snapshot(recs) = eligible_archive_addresses(recs)
         /\ ToSet(fetch_snapshot(recs)) = ActiveOf(recs)
         /\ ToSet(presorted_addresses(fetch_snapshot(recs))) = ActiveOf(recs)
<1>1. ActiveOf(recs) \in SUBSET Nat /\ IsFiniteSet(ActiveOf(recs))
  BY ActiveOfType, DataPathAssumption
<1>2. fetch_snapshot(recs) = Ascending(ActiveOf(recs))
  BY DEF fetch_snapshot, ActiveOf
<1>3. eligible_archive_addresses(recs) = Ascending(ActiveOf(recs))
  BY DEF eligible_archive_addresses, ActiveOf
<1>4. ToSet(fetch_snapshot(recs)) = ActiveOf(recs)
  BY <1>1, <1>2, AscendingLists
<1>5. presorted_addresses(fetch_snapshot(recs)) = Ascending(ActiveOf(recs))
  BY <1>4 DEF presorted_addresses
<1> QED BY <1>1, <1>2, <1>3, <1>4, <1>5, AscendingLists

\* Every chunk below count has a score with every archive.
Scored(score, count) == \A i \in 0..(count - 1) : \A a \in Archives : score[i][a] \in Nat

\* The archives of chunk i under the registry recs.
PlacedOn(score, i, recs, r) == Chosen(score, i, ActiveOf(recs), r)

\* The scorer, asked about the snapshot of a registry.
LEMMA WirePlaces ==
  ASSUME NEW recs \in Registries, NEW count \in Nat, NEW r \in Nat, NEW score,
         Scored(score, count), NEW i \in 0..(count - 1)
  PROVE  LET w == wire_presorted(score, presorted_addresses(fetch_snapshot(recs)), i, r)
         IN  w \in Seq(ActiveOf(recs)) /\ ToSet(w) = PlacedOn(score, i, recs, r)
<1> DEFINE S == ActiveOf(recs)
           p == presorted_addresses(fetch_snapshot(recs))
<1>1. S \in SUBSET Nat /\ IsFiniteSet(S) /\ S \in SUBSET Archives
  BY ActiveOfType, DataPathAssumption
<1>2. ToSet(p) = S
  BY SnapshotHolds
<1>3. \A a \in S : score[i][a] \in Nat
  BY <1>1 DEF Scored
<1>4. PlacedOn(score, i, recs, r) = Chosen(score, i, S, r)
  BY DEF PlacedOn
<1> HIDE DEF S, p
<1>5. /\ wire_presorted(score, p, i, r) \in Seq(S)
      /\ ToSet(wire_presorted(score, p, i, r)) = Chosen(score, i, S, r)
  BY <1>1, <1>2, <1>3, WireChooses
<1> QED BY <1>4, <1>5 DEF S, p

\* The owner's table.
LEMMA OwnerPlaces ==
  ASSUME NEW recs \in Registries, NEW count \in Nat, NEW r \in Nat, NEW score,
         Scored(score, count), NEW i \in 0..(count - 1)
  PROVE  ToSet(compute_assignment_v2(score, count, eligible_archive_addresses(recs), r)[i + 1])
           = PlacedOn(score, i, recs, r)
<1> DEFINE p == presorted_addresses(fetch_snapshot(recs))
<1>1. compute_assignment_v2(score, count, eligible_archive_addresses(recs), r)
        = [m \in 1..count |-> wire_presorted(score, p, m - 1, r)]
  BY SnapshotHolds DEF compute_assignment_v2
<1> HIDE DEF p
<1>2. i + 1 \in 1..count /\ (i + 1) - 1 = i
  OBVIOUS
<1>3. compute_assignment_v2(score, count, eligible_archive_addresses(recs), r)[i + 1]
        = wire_presorted(score, p, i, r)
  BY <1>1, <1>2
<1> QED BY <1>3, WirePlaces DEF p

\* An archive's own chunks.
LEMMA ArchivePlaces ==
  ASSUME NEW recs \in Registries, NEW count \in Nat, NEW r \in Nat, NEW score,
         Scored(score, count), NEW a
  PROVE  chunks_for_archive_v2(score, count, fetch_snapshot(recs), r, a)
           = {i \in 0..(count - 1) : a \in PlacedOn(score, i, recs, r)}
<1> DEFINE p == presorted_addresses(fetch_snapshot(recs))
<1>1. chunks_for_archive_v2(score, count, fetch_snapshot(recs), r, a)
        = IF a \notin ToSet(p) THEN {}
          ELSE {i \in 0..(count - 1) : a \in ToSet(wire_presorted(score, p, i, r))}
  BY DEF chunks_for_archive_v2
<1>2. ToSet(p) = ActiveOf(recs)
  BY SnapshotHolds
<1>3. \A i \in 0..(count - 1) : ToSet(wire_presorted(score, p, i, r)) = PlacedOn(score, i, recs, r)
  BY WirePlaces
<1>4. \A i \in 0..(count - 1) : PlacedOn(score, i, recs, r) \subseteq ActiveOf(recs)
  BY DEF PlacedOn, Chosen
<1> HIDE DEF p
<1> QED BY <1>1, <1>2, <1>3, <1>4

\* The audit's first chunk: no target holds an earlier one, and the target
\* returned holds it.
LEMMA FirstPlaces ==
  ASSUME NEW recs \in Registries, NEW count \in Nat, NEW r \in Nat, NEW score,
         Scored(score, count), NEW T
  PROVE  LET first == first_chunk_assigned_to_any(score, count, fetch_snapshot(recs), r, T)
             all == {i \in 0..(count - 1) : PlacedOn(score, i, recs, r) \cap T # {}}
         IN  IF all = {} THEN first = << >>
             ELSE /\ first[1] \in all /\ first[2] \in PlacedOn(score, first[1], recs, r) \cap T
                  /\ \A i \in all : first[1] <= i
<1> DEFINE p == presorted_addresses(fetch_snapshot(recs))
           wanted == T \cap ToSet(p)
           Of(i) == wire_presorted(score, p, i, r)
           hits == {i \in 0..(count - 1) : ToSet(Of(i)) \cap wanted # {}}
           x == Min(hits)
           found == Of(x)
           K == {k \in DOMAIN found : found[k] \in wanted}
           first == first_chunk_assigned_to_any(score, count, fetch_snapshot(recs), r, T)
           all == {i \in 0..(count - 1) : PlacedOn(score, i, recs, r) \cap T # {}}
<1>1. first = IF hits = {} THEN << >> ELSE << x, found[Min(K)] >>
  BY DEF first_chunk_assigned_to_any
<1>2. ToSet(p) = ActiveOf(recs)
  BY SnapshotHolds
<1>3. \A i \in 0..(count - 1) : Of(i) \in Seq(ActiveOf(recs)) /\ ToSet(Of(i)) = PlacedOn(score, i, recs, r)
  BY WirePlaces
<1>4. \A i \in 0..(count - 1) : PlacedOn(score, i, recs, r) \subseteq ActiveOf(recs)
  BY DEF PlacedOn, Chosen
<1> HIDE DEF p, Of, first
<1>5. hits = all
  BY <1>2, <1>3, <1>4
<1>6. ASSUME all # {}
      PROVE  /\ x \in all /\ \A i \in all : x <= i
             /\ found[Min(K)] \in PlacedOn(score, x, recs, r) \cap T
  <2>1. hits \in SUBSET Nat
    OBVIOUS
  <2>2. x \in hits /\ \A i \in hits : x <= i
    <3> HIDE DEF hits
    <3> QED BY <2>1, <1>5, <1>6, MinIsLeast
  <2>3. found \in Seq(ActiveOf(recs)) /\ ToSet(found) = PlacedOn(score, x, recs, r)
    BY <2>2, <1>3
  <2>4. ToSet(found) \cap wanted # {}
    BY <2>2
  <2> HIDE DEF hits, found, wanted, x
  <2>5. K \in SUBSET Nat
    <3>1. DOMAIN found = 1 .. Len(found) /\ Len(found) \in Nat
      BY <2>3, LenProperties
    <3> QED BY <3>1
  <2>6. K # {}
    BY <2>4 DEF ToSet
  <2>7. Min(K) \in K
    <3> HIDE DEF K
    <3> QED BY <2>5, <2>6, MinIsLeast
  <2>8. found[Min(K)] \in wanted /\ found[Min(K)] \in ToSet(found)
    BY <2>7 DEF ToSet
  <2>9. found[Min(K)] \in T
    BY <2>8 DEF wanted
  <2> HIDE DEF K, all
  <2> QED BY <1>5, <2>2, <2>3, <2>8, <2>9
<1> HIDE DEF hits, x, found, K, all
<1>7. all # {} => first[1] = x /\ first[2] = found[Min(K)]
  BY <1>1, <1>5
<1>8. IF all = {} THEN first = << >>
      ELSE /\ first[1] \in all /\ first[2] \in PlacedOn(score, first[1], recs, r) \cap T
           /\ \A i \in all : first[1] <= i
  BY <1>1, <1>5, <1>6, <1>7
<1> QED BY <1>8 DEF all, first

\* The archives discovery waits for are those that hold a chunk.
LEMMA DiscoveryPlaces ==
  ASSUME NEW recs \in Registries, NEW count \in Nat, NEW r \in Nat, NEW score,
         Scored(score, count)
  PROVE  required_archives(score, fetch_snapshot(recs), 0..(count - 1), r)
           = {a \in Archives : \E i \in 0..(count - 1) : a \in PlacedOn(score, i, recs, r)}
<1> DEFINE S == ActiveOf(recs)
           s == fetch_snapshot(recs)
           C == 0..(count - 1)
<1>1. required_archives(score, s, C, r)
        = IF C = {} \/ r = 0 THEN {}
          ELSE IF r >= Cardinality(ToSet(s)) THEN ToSet(s)
          ELSE UNION {ToSet(assigned_archives(score, s, i, r)) : i \in C}
  BY DEF required_archives
<1>2. ToSet(s) = S
  BY SnapshotHolds
<1>3. S \in SUBSET Nat /\ IsFiniteSet(S) /\ S \in SUBSET Archives
  BY ActiveOfType, DataPathAssumption
<1>4. \A i \in C : ToSet(assigned_archives(score, s, i, r)) = PlacedOn(score, i, recs, r)
  BY WirePlaces DEF assigned_archives
<1>5. \A i \in C : /\ PlacedOn(score, i, recs, r) \subseteq S
                   /\ r >= Cardinality(S) => PlacedOn(score, i, recs, r) = S
                   /\ r = 0 => PlacedOn(score, i, recs, r) = {}
  <2> TAKE i \in C
  <2>1. PlacedOn(score, i, recs, r) = Chosen(score, i, S, r)
    BY DEF PlacedOn
  <2>2. \A a \in S : score[i][a] \in Nat
    BY <1>3 DEF Scored
  <2>3. Chosen(score, i, S, r) \subseteq S
    BY DEF Chosen
  <2> HIDE DEF S
  <2> QED BY <1>3, <2>1, <2>2, <2>3, ChosenAll
<1> HIDE DEF S, s, C
<1>6. required_archives(score, s, C, r) = {a \in Archives : \E i \in C : a \in PlacedOn(score, i, recs, r)}
  <2>1. CASE C = {} \/ r = 0
    BY <1>1, <1>5, <2>1
  <2>2. CASE ~(C = {} \/ r = 0) /\ r >= Cardinality(S)
    BY <1>1, <1>2, <1>3, <1>5, <2>2
  <2>3. CASE ~(C = {} \/ r = 0) /\ ~(r >= Cardinality(S))
    BY <1>1, <1>2, <1>3, <1>4, <1>5, <2>3
  <2> QED BY <2>1, <2>2, <2>3
<1> QED BY <1>6 DEF s, C

-----------------------------------------------------------------------------
(* The file on its way *)

\* A registered file has a chunk for no more than every byte, each epoch pins a
\* registry, and archives only leave: an epoch has no active archive that the
\* one before it has not, and the registry none that the last epoch has not.
RowInv ==
  /\ row = [root |-> row.root, count |-> row.count, size |-> row.size,
            stored |-> row.stored, access |-> row.access, epochs |-> row.epochs,
            art |-> row.art]
  /\ row.count \in 0 .. Len(case.file)
  /\ row.epochs \in Seq(Registries) /\ Len(row.epochs) \in Nat \ {0}
  /\ \A e \in 1 .. Len(row.epochs) - 1 :
       ActiveOf(row.epochs[e + 1]) \subseteq ActiveOf(row.epochs[e])
  /\ ActiveOf(records) \subseteq ActiveOf(row.epochs[Len(row.epochs)])

PlacementInv ==
  /\ case \in Cases /\ records \in Registries
  /\ owner = [pc |-> owner.pc, art |-> owner.art, epoch |-> owner.epoch,
              last |-> owner.last]
  /\ owner.pc = "new" => source = case.file /\ row = Absent
  /\ row # Absent => RowInv

\* A file is cut into no more chunks than it has bytes.
LEMMA CountBound ==
  ASSUME NEW len \in Nat, NEW size \in Nat, size > 0
  PROVE  DivCeil(len, size) \in 0 .. len
  BY DEF DivCeil

\* What an ingest registers has a chunk for no more than every byte.
LEMMA PreparedCount ==
  ASSUME case \in Cases, source = case.file, NEW name, Prepared(name) # Absent
  PROVE  Prepared(name).art.manifest.chunk_count \in 0 .. Len(case.file)
<1>1. Len(source) \in Nat
  BY DataPathAssumption
<1>2. CHUNK_SIZE \in Nat /\ CHUNK_SIZE > 0
  BY FormatAssumption
<1>3. PRIVATE_PLAINTEXT_CHUNK_SIZE \in Nat /\ PRIVATE_PLAINTEXT_CHUNK_SIZE > 0
  BY FormatAssumption DEF PRIVATE_PLAINTEXT_CHUNK_SIZE
<1>4. CASE Private
  <2> DEFINE art == build_private_artifacts(source, name, FileKey)
  <2>1. Prepared(name) = encrypt_for_private(name)
    BY <1>4 DEF Prepared
  <2>2. encrypt_for_private(name) # Absent =>
          art # Absent /\ encrypt_for_private(name).art = art
    BY DEF encrypt_for_private
  <2>3. art # Absent => art.manifest.chunk_count = DivCeil(Len(source), PRIVATE_PLAINTEXT_CHUNK_SIZE)
    BY DEF build_private_artifacts
  <2> HIDE DEF art
  <2>4. DivCeil(Len(source), PRIVATE_PLAINTEXT_CHUNK_SIZE) \in 0 .. Len(source)
    BY <1>1, <1>3, CountBound
  <2> QED BY <2>1, <2>2, <2>3, <2>4
<1>5. CASE ~Private
  <2>1. Prepared(name).art = chunk_file(source, name)
    BY <1>5 DEF Prepared
  <2>2. chunk_file(source, name).manifest.chunk_count = DivCeil(Len(source), CHUNK_SIZE)
    BY DEF chunk_file
  <2>3. DivCeil(Len(source), CHUNK_SIZE) \in 0 .. Len(source)
    BY <1>1, <1>2, CountBound
  <2> QED BY <2>1, <2>2, <2>3
<1> QED BY <1>4, <1>5

\* A departure leaves a registry, with no new active archive.
LEMMA DepartShrinks ==
  ASSUME NEW recs \in Registries, NEW a,
         NEW out, out = [m \in 1..Len(recs) |->
           IF recs[m].addr = a THEN [recs[m] EXCEPT !.status = "Unbonding"] ELSE recs[m]]
  PROVE  out \in Registries /\ ActiveOf(out) \subseteq ActiveOf(recs)
<1>1. recs \in [1 .. Len(recs) -> Entries] /\ Len(recs) \in Nat
  BY LenProperties DEF Registries
<1>2. \A m \in 1 .. Len(recs) :
        /\ out[m] \in Entries /\ out[m].addr = recs[m].addr
        /\ is_active_archive(out[m]) => is_active_archive(recs[m])
  <2> TAKE m \in 1 .. Len(recs)
  <2>1. recs[m] \in Entries
    BY <1>1
  <2>2. CASE recs[m].addr = a
    <3>1. out[m] = [recs[m] EXCEPT !.status = "Unbonding"]
      BY <2>2
    <3>2. out[m] \in Entries /\ out[m].addr = recs[m].addr /\ out[m].status = "Unbonding"
      <4>1. out[m] = [addr |-> recs[m].addr, role |-> recs[m].role, status |-> "Unbonding"]
        BY <2>1, <3>1 DEF Entries
      <4>2. recs[m].addr \in Archives /\ recs[m].role \in STRING
        BY <2>1 DEF Entries
      <4> QED BY <4>1, <4>2 DEF Entries
    <3> QED BY <3>2 DEF is_active_archive
  <2>3. CASE recs[m].addr # a
    BY <2>1, <2>3
  <2> QED BY <2>2, <2>3
<1>3. DOMAIN out = 1 .. Len(recs) /\ DOMAIN recs = 1 .. Len(recs)
  BY <1>1
<1>4. out \in Registries
  <2>1. out \in [1 .. Len(recs) -> Entries]
    BY <1>2
  <2>2. out \in Seq(Entries)
    BY <1>1, <2>1, SeqDef
  <2> QED BY <2>2 DEF Registries
<1>5. ActiveOf(out) \subseteq ActiveOf(recs)
  <2> SUFFICES ASSUME NEW x \in ActiveOf(out) PROVE x \in ActiveOf(recs)
    OBVIOUS
  <2>1. PICK m \in DOMAIN out : is_active_archive(out[m]) /\ x = out[m].addr
    BY DEF ActiveOf, filter_active_archives
  <2>2. m \in DOMAIN recs /\ is_active_archive(recs[m]) /\ x = recs[m].addr
    BY <2>1, <1>2, <1>3
  <2> QED BY <2>2 DEF ActiveOf, filter_active_archives
<1> QED BY <1>4, <1>5

\* The invariant holds at the start.
LEMMA PlacementInit == PathInit => PlacementInv
<1> SUFFICES ASSUME PathInit PROVE PlacementInv
  OBVIOUS
<1>1. case.records \in Seq([addr : Archives, role : STRING, status : STRING])
  BY DataPathAssumption DEF PathInit
<1>2. case.records \in Registries
  <2> DEFINE recs == case.records
             E == [addr : Archives, role : STRING, status : STRING]
  <2>1. E \subseteq Entries
    BY DEF Entries
  <2> HIDE DEF recs, E
  <2>2. recs \in [1 .. Len(recs) -> E] /\ Len(recs) \in Nat
    BY <1>1, LenProperties DEF recs, E
  <2>3. recs \in [1 .. Len(recs) -> Entries]
    BY <2>1, <2>2
  <2>4. recs \in Seq(Entries)
    BY <2>2, <2>3, SeqDef
  <2> QED BY <2>4 DEF Registries, recs
<1>3. owner = [pc |-> "new", art |-> Absent, epoch |-> 0, last |-> "none"]
  BY DEF PathInit, Idle
<1> QED BY <1>2, <1>3 DEF PathInit, PlacementInv

\* No step of the owner, an archive, the chain or a reader breaks it.
LEMMA PlacementStep == PlacementInv /\ [PathNext]_pathVars => PlacementInv'
<1> SUFFICES ASSUME PlacementInv, [PathNext]_pathVars PROVE PlacementInv'
  OBVIOUS
<1>1. ASSUME NEW name, Ingest(name) PROVE PlacementInv'
  <2>1. source = case.file /\ case \in Cases /\ records \in Registries
    BY <1>1 DEF Ingest, PlacementInv
  <2>2. /\ UNCHANGED <<case, source, records>> /\ owner'.pc # "new"
        /\ owner' = [pc |-> owner'.pc, art |-> owner'.art, epoch |-> owner'.epoch,
                     last |-> owner'.last]
    BY <1>1 DEF Ingest, Idle, Pushing
  <2>3. CASE Prepared(name) # Absent /\ ChainAccepts(Prepared(name).art)
    <3> DEFINE art == Prepared(name).art
    <3>1. row' = [root |-> art.manifest.merkle_root, count |-> art.manifest.chunk_count,
                  size |-> art.manifest.total_size, stored |-> art.stored,
                  access |-> Prepared(name).access, epochs |-> << records >>, art |-> art]
      BY <1>1, <2>3 DEF Ingest
    <3>2. art.manifest.chunk_count \in 0 .. Len(case.file)
      BY <2>1, <2>3, PreparedCount
    <3> HIDE DEF art
    <3>3. RowInv'
      BY <2>1, <2>2, <3>1, <3>2 DEF RowInv
    <3> QED BY <2>1, <2>2, <3>3 DEF PlacementInv
  <2>4. CASE ~(Prepared(name) # Absent /\ ChainAccepts(Prepared(name).art))
    <3>1. UNCHANGED row
      BY <1>1, <2>4 DEF Ingest
    <3> QED BY <2>1, <2>2, <3>1 DEF PlacementInv, RowInv
  <2> QED BY <2>3, <2>4
<1>2. ASSUME NEW name, Stop \/ resume(name) \/ repush(name) PROVE PlacementInv'
  <2>1. /\ UNCHANGED <<case, source, records, row>> /\ owner'.pc # "new"
        /\ owner' = [pc |-> owner'.pc, art |-> owner'.art, epoch |-> owner'.epoch,
                     last |-> owner'.last]
    BY <1>2 DEF Stop, resume, repush, Idle, Pushing
  <2> QED BY <2>1 DEF PlacementInv, RowInv
<1>3. ASSUME Edit PROVE PlacementInv'
  <2>1. UNCHANGED <<case, records, row>> /\ owner.pc # "new"
    BY <1>3 DEF Edit, PlacementInv
  <2>2. /\ owner'.pc = owner.pc
        /\ owner' = [pc |-> owner'.pc, art |-> owner'.art, epoch |-> owner'.epoch,
                     last |-> owner'.last]
    <3>1. CASE UNCHANGED owner
      BY <3>1 DEF PlacementInv
    <3>2. CASE owner' = [owner EXCEPT !.art = [owner.art EXCEPT !.blob = source']]
      <4> DEFINE new == [owner.art EXCEPT !.blob = source']
      <4>1. owner' = [owner EXCEPT !.art = new]
        BY <3>2
      <4> HIDE DEF new
      <4> QED BY <4>1 DEF PlacementInv
    <3> QED BY <1>3, <3>1, <3>2 DEF Edit
  <2> QED BY <2>1, <2>2 DEF PlacementInv, RowInv
<1>4. ASSUME NEW a \in Archives, Depart(a) PROVE PlacementInv'
  <2>1. UNCHANGED <<case, source, row, owner>>
    BY <1>4 DEF Depart
  <2>2. records' \in Registries /\ ActiveOf(records') \subseteq ActiveOf(records)
    <3>1. records \in Registries
      BY DEF PlacementInv
    <3>2. records' = [n \in 1..Len(records) |->
             IF records[n].addr = a THEN [records[n] EXCEPT !.status = "Unbonding"]
             ELSE records[n]]
      BY <1>4 DEF Depart
    <3> QED BY <3>1, <3>2, DepartShrinks
  <2> QED BY <2>1, <2>2 DEF PlacementInv, RowInv
<1>5. ASSUME Reassign PROVE PlacementInv'
  <2>1. UNCHANGED <<case, source, records, owner>> /\ row # Absent
    BY <1>5 DEF Reassign
  <2>2. RowInv
    BY <2>1 DEF PlacementInv
  <2> DEFINE es == Append(row.epochs, records)
  <2>3. row' = [row EXCEPT !.epochs = es]
    BY <1>5 DEF Reassign
  <2>4. /\ row'.epochs = es /\ row'.count = row.count
        /\ row' = [root |-> row'.root, count |-> row'.count, size |-> row'.size,
                   stored |-> row'.stored, access |-> row'.access, epochs |-> row'.epochs,
                   art |-> row'.art]
    <3> HIDE DEF es
    <3> QED BY <2>2, <2>3 DEF RowInv
  <2>5. records \in Registries /\ row.epochs \in Seq(Registries) /\ Len(row.epochs) \in Nat \ {0}
    BY <2>2 DEF PlacementInv, RowInv
  <2>6. /\ es \in Seq(Registries) /\ Len(es) = Len(row.epochs) + 1
        /\ es[Len(es)] = records
        /\ \A e \in 1 .. Len(row.epochs) : es[e] = row.epochs[e]
    BY <2>5
  <2> HIDE DEF es
  <2>7. ASSUME NEW e \in 1 .. Len(es) - 1 PROVE ActiveOf(es[e + 1]) \subseteq ActiveOf(es[e])
    <3>1. CASE e = Len(row.epochs)
      BY <3>1, <2>2, <2>5, <2>6 DEF RowInv
    <3>2. CASE e # Len(row.epochs)
      <4>1. e \in 1 .. Len(row.epochs) - 1 /\ e + 1 \in 1 .. Len(row.epochs) /\ e \in 1 .. Len(row.epochs)
        BY <3>2, <2>5, <2>6
      <4> QED BY <4>1, <2>2, <2>6 DEF RowInv
    <3> QED BY <3>1, <3>2
  <2>8. RowInv'
    <3>1. row'.count \in 0 .. Len(case'.file)
      BY <2>1, <2>2, <2>4 DEF RowInv
    <3>2. row'.epochs \in Seq(Registries) /\ Len(row'.epochs) \in Nat \ {0}
      BY <2>4, <2>5, <2>6
    <3>3. \A e \in 1 .. Len(row'.epochs) - 1 :
            ActiveOf(row'.epochs[e + 1]) \subseteq ActiveOf(row'.epochs[e])
      BY <2>4, <2>7
    <3>4. ActiveOf(records') \subseteq ActiveOf(row'.epochs[Len(row'.epochs)])
      BY <2>1, <2>4, <2>6
    <3> QED BY <2>4, <3>1, <3>2, <3>3, <3>4 DEF RowInv
  <2> QED BY <2>1, <2>8 DEF PlacementInv
<1>6. ASSUME assemble PROVE PlacementInv'
  BY <1>6 DEF assemble, PlacementInv, RowInv
<1>7. ASSUME NEW a \in Archives, push_manifest(a) \/ pull_manifest(a) \/ pull_chunk(a)
      PROVE  PlacementInv'
  <2>1. UNCHANGED <<case, source, records, row, owner>>
    BY <1>7 DEF push_manifest, pull_manifest, pull_chunk
  <2> QED BY <2>1 DEF PlacementInv, RowInv
<1>8. ASSUME NEW a \in Archives, NEW i, send_one_push(i, a) PROVE PlacementInv'
  <2>1. UNCHANGED <<case, source, records, row, owner>>
    BY <1>8 DEF send_one_push
  <2> QED BY <2>1 DEF PlacementInv, RowInv
<1>9. ASSUME UNCHANGED pathVars PROVE PlacementInv'
  BY <1>9 DEF pathVars, PlacementInv, RowInv
<1> QED BY <1>1, <1>2, <1>3, <1>4, <1>5, <1>6, <1>7, <1>8, <1>9 DEF PathNext

\* A reachable file's chunks are scored, and its epochs are registries.
LEMMA RowScored ==
  ASSUME PlacementInv, row # Absent
  PROVE  /\ row.count \in Nat /\ case.r \in Nat /\ Scored(case.score, row.count)
         /\ Len(row.epochs) \in Nat
         /\ \A e \in 1 .. Len(row.epochs) : row.epochs[e] \in Registries
<1>1. RowInv /\ case \in Cases
  BY DEF PlacementInv
<1>2. /\ Len(case.file) \in Nat /\ case.r \in Nat
      /\ \A i \in 0 .. Len(case.file) : case.score[i] \in [Archives -> Nat]
  BY <1>1, DataPathAssumption
<1>3. row.count \in Nat /\ row.count <= Len(case.file)
  BY <1>1, <1>2 DEF RowInv
<1>4. Scored(case.score, row.count)
  <2> SUFFICES ASSUME NEW i \in 0..(row.count - 1), NEW a \in Archives
               PROVE  case.score[i][a] \in Nat
    BY DEF Scored
  <2>1. i \in 0 .. Len(case.file)
    BY <1>2, <1>3
  <2> QED BY <2>1, <1>2
<1>5. row.epochs \in Seq(Registries) /\ Len(row.epochs) \in Nat
  BY <1>1 DEF RowInv
<1>6. \A e \in 1 .. Len(row.epochs) : row.epochs[e] \in Registries
  BY <1>5
<1> QED BY <1>2, <1>3, <1>4, <1>5, <1>6

\* What the owner sends under an epoch is the placement on its registry.
LEMMA TablePlaces ==
  ASSUME PlacementInv, row # Absent, NEW e \in 1 .. Len(row.epochs), NEW i \in 0..(row.count - 1)
  PROVE  ToSet(AssignmentAt(e)[i + 1]) = PlacedOn(case.score, i, row.epochs[e], case.r)
<1>1. AssignmentAt(e) = compute_assignment_v2(case.score, row.count,
                          eligible_archive_addresses(row.epochs[e]), case.r)
  BY DEF AssignmentAt, Snapshot
<1>2. /\ row.count \in Nat /\ case.r \in Nat /\ Scored(case.score, row.count)
      /\ row.epochs[e] \in Registries
  BY RowScored
<1> QED BY <1>1, <1>2, OwnerPlaces

\* Owner, archives, audit and discovery agree in every state of the invariant.
LEMMA SidesAgreeNow == PlacementInv => SidesAgree
<1> SUFFICES ASSUME PlacementInv, row # Absent, NEW e \in 1..Len(row.epochs)
             PROVE
      LET snapshot == fetch_snapshot(row.epochs[e])
          Mine(a) == chunks_for_archive_v2(case.score, row.count, snapshot, case.r, a)
      IN /\ \A a \in Archives : Mine(a) =
              {i \in 0..(row.count - 1) : a \in ToSet(AssignmentAt(e)[i + 1])}
         /\ \A T \in SUBSET Archives :
              LET first == first_chunk_assigned_to_any(
                             case.score, row.count, snapshot, case.r, T)
                  all == UNION {Mine(a) : a \in T}
              IN IF all = {} THEN first = << >>
                 ELSE /\ first[2] \in T /\ first[1] \in Mine(first[2])
                      /\ \A i \in all : first[1] <= i
         /\ required_archives(case.score, snapshot, 0..(row.count - 1), case.r)
              = {a \in Archives : Mine(a) # {}}
  BY DEF SidesAgree
<1> DEFINE recs == row.epochs[e]
           C == 0..(row.count - 1)
           snapshot == fetch_snapshot(recs)
           Mine(a) == chunks_for_archive_v2(case.score, row.count, snapshot, case.r, a)
           P(i) == PlacedOn(case.score, i, recs, case.r)
<1>1. /\ row.count \in Nat /\ case.r \in Nat /\ Scored(case.score, row.count)
      /\ recs \in Registries
  BY RowScored
<1>2. \A i \in C : ToSet(AssignmentAt(e)[i + 1]) = P(i)
  BY TablePlaces
<1>3. \A a : Mine(a) = {i \in C : a \in P(i)}
  BY <1>1, ArchivePlaces
<1>4. \A a \in Archives : Mine(a) = {i \in C : a \in ToSet(AssignmentAt(e)[i + 1])}
  <2> HIDE DEF Mine, P, C
  <2> QED BY <1>2, <1>3
<1>5. ASSUME NEW T \in SUBSET Archives
      PROVE  LET first == first_chunk_assigned_to_any(case.score, row.count, snapshot, case.r, T)
                 all == UNION {Mine(a) : a \in T}
             IN  IF all = {} THEN first = << >>
                 ELSE /\ first[2] \in T /\ first[1] \in Mine(first[2])
                      /\ \A i \in all : first[1] <= i
  <2> DEFINE first == first_chunk_assigned_to_any(case.score, row.count, snapshot, case.r, T)
             all == UNION {Mine(a) : a \in T}
             hit == {i \in C : P(i) \cap T # {}}
  <2>1. IF hit = {} THEN first = << >>
        ELSE first[1] \in hit /\ first[2] \in P(first[1]) \cap T /\ \A i \in hit : first[1] <= i
    <3> DEFINE sc == case.score
               rr == case.r
               cc == row.count
    <3>1. sc = case.score /\ rr = case.r /\ cc = row.count
      OBVIOUS
    <3> HIDE DEF recs, sc, rr, cc
    <3>2. LET f == first_chunk_assigned_to_any(sc, cc, fetch_snapshot(recs), rr, T)
              h == {i \in 0..(cc - 1) : PlacedOn(sc, i, recs, rr) \cap T # {}}
          IN  IF h = {} THEN f = << >>
              ELSE /\ f[1] \in h /\ f[2] \in PlacedOn(sc, f[1], recs, rr) \cap T
                   /\ \A i \in h : f[1] <= i
      BY <1>1, <3>1, FirstPlaces
    <3> QED BY <3>1, <3>2
  <2> HIDE DEF first, Mine, P, C
  <2>2. all = hit
    BY <1>3
  <2>3. \A i \in hit : i \in C
    OBVIOUS
  <2> HIDE DEF all, hit
  <2>4. all # {} => first[1] \in Mine(first[2])
    BY <1>3, <2>1, <2>2, <2>3
  <2>5. IF all = {} THEN first = << >>
        ELSE first[2] \in T /\ first[1] \in Mine(first[2]) /\ \A i \in all : first[1] <= i
    BY <2>1, <2>2, <2>4
  <2> QED BY <2>5 DEF first, all
<1>6. required_archives(case.score, snapshot, C, case.r) = {a \in Archives : Mine(a) # {}}
  <2>1. required_archives(case.score, snapshot, C, case.r) = {a \in Archives : \E i \in C : a \in P(i)}
    <3> DEFINE sc == case.score
               rr == case.r
               cc == row.count
    <3>1. sc = case.score /\ rr = case.r /\ cc = row.count
      OBVIOUS
    <3> HIDE DEF recs, sc, rr, cc
    <3>3. cc \in Nat /\ rr \in Nat /\ Scored(sc, cc) /\ recs \in Registries
      BY <1>1, <3>1
    <3>2. required_archives(sc, fetch_snapshot(recs), 0..(cc - 1), rr)
            = {a \in Archives : \E i \in 0..(cc - 1) : a \in PlacedOn(sc, i, recs, rr)}
      BY <3>3, DiscoveryPlaces
    <3> QED BY <3>1, <3>2
  <2> HIDE DEF Mine, P, C, snapshot
  <2> QED BY <1>3, <2>1
<1> QED
  <2> HIDE DEF Mine
  <2> QED BY <1>4, <1>5, <1>6 DEF Mine

\* A departure moves only the chunks of the archive that left, in every state of
\* the invariant.
LEMMA StaysPutNow == PlacementInv => StaysPut
<1> SUFFICES ASSUME PlacementInv, row # Absent, NEW e \in 1..(Len(row.epochs) - 1),
                    NEW i \in 0..(row.count - 1)
             PROVE  LET was == ToSet(AssignmentAt(e)[i + 1])
                        is  == ToSet(AssignmentAt(e + 1)[i + 1])
                        active == ToSet(Snapshot(e + 1))
                    IN  /\ was \cap active \subseteq is
                        /\ was \subseteq active => is = was
  BY DEF StaysPut
<1> DEFINE S == ActiveOf(row.epochs[e])
           U == ActiveOf(row.epochs[e + 1])
<1>1. /\ row.count \in Nat /\ case.r \in Nat /\ Scored(case.score, row.count)
      /\ Len(row.epochs) \in Nat
      /\ \A x \in 1 .. Len(row.epochs) : row.epochs[x] \in Registries
  BY RowScored
<1>2. e \in 1 .. Len(row.epochs) /\ e + 1 \in 1 .. Len(row.epochs)
  BY <1>1
<1>3. row.epochs[e] \in Registries /\ row.epochs[e + 1] \in Registries
  BY <1>1, <1>2
<1>4. S \in SUBSET Archives /\ S \in SUBSET Nat /\ IsFiniteSet(S)
  BY <1>3, ActiveOfType, DataPathAssumption
<1>5. U \in SUBSET S
  BY DEF PlacementInv, RowInv
<1>6. ToSet(AssignmentAt(e)[i + 1]) = Chosen(case.score, i, S, case.r)
  BY <1>2, TablePlaces DEF PlacedOn
<1>7. ToSet(AssignmentAt(e + 1)[i + 1]) = Chosen(case.score, i, U, case.r)
  BY <1>2, TablePlaces DEF PlacedOn
<1>8. ToSet(Snapshot(e + 1)) = U
  BY <1>3, SnapshotHolds DEF Snapshot
<1>9. \A a \in S : case.score[i][a] \in Nat
  BY <1>1, <1>4 DEF Scored
<1> HIDE DEF S, U
<1>10. /\ Chosen(case.score, i, S, case.r) \cap U \subseteq Chosen(case.score, i, U, case.r)
       /\ Chosen(case.score, i, S, case.r) \subseteq U
            => Chosen(case.score, i, U, case.r) = Chosen(case.score, i, S, case.r)
  <2> DEFINE sc == case.score
             rr == case.r
  <2>1. sc = case.score /\ rr = case.r
    OBVIOUS
  <2> HIDE DEF sc, rr
  <2>3. rr \in Nat /\ \A a \in S : sc[i][a] \in Nat
    BY <1>1, <1>9, <2>1
  <2>2. /\ Chosen(sc, i, S, rr) \cap U \subseteq Chosen(sc, i, U, rr)
        /\ Chosen(sc, i, S, rr) \subseteq U => Chosen(sc, i, U, rr) = Chosen(sc, i, S, rr)
    BY <1>4, <1>5, <2>3, ChosenStays
  <2> QED BY <2>1, <2>2
<1> QED BY <1>6, <1>7, <1>8, <1>10

\* Whatever the hash, the registry and the replication factor: an archive computes
\* as its own the chunks the owner sends it (chunks_for_archive_v2 against
\* compute_assignment_v2), the audit's first chunk and the discovery's required
\* set follow the same assignment, and a reassignment after a departure moves only
\* the chunks of the archive that left.
THEOREM PlacementIsShared == PathSpec => []PlacementAgrees
<1>1. PlacementInv => PlacementAgrees
  BY SidesAgreeNow, StaysPutNow DEF PlacementAgrees
<1>2. PathSpec => []PlacementInv
  BY PlacementInit, PlacementStep, PTL DEF PathSpec
<1> QED BY <1>1, <1>2, PTL
=============================================================================
