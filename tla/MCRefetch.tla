----------------------------- MODULE MCRefetch -----------------------------
EXTENDS Refetch

CONSTANTS me, a, b

MCArchives == {me, a, b}
MCAssignments ==
  {<<<<a, b>>, <<a, b>>>>, <<<<b, me>>, <<me, a>>>>}
Used(f, n) == [files |-> f, chunks |-> n]
\* The caches in time; re-fetch over three epochs, the file in the last place a
\* run comes to; re-fetch among pushes, with room left for one chunk a run;
\* re-fetch with no archive to rely on, in and out of reach of a run.
MCTimings ==
  {[refetch |-> FALSE, ttl |-> 2, recheck |-> 1, latency |-> 1, epochs |-> 3,
    pushes |-> [chunk : {2}, good : BOOLEAN] \cup [chunk : {3}, good : {TRUE}],
    good |-> {a}, ahead |-> {}],
   [refetch |-> TRUE, ttl |-> 0, recheck |-> 0, latency |-> 0, epochs |-> 3,
    pushes |-> {}, good |-> {a}, ahead |-> {Used(1, 0)}],
   [refetch |-> TRUE, ttl |-> 0, recheck |-> 0, latency |-> 0, epochs |-> 2,
    pushes |-> [chunk : {1}, good : {TRUE}], good |-> {a},
    ahead |-> {Used(0, 1)}],
   [refetch |-> TRUE, ttl |-> 0, recheck |-> 0, latency |-> 0, epochs |-> 2,
    pushes |-> {}, good |-> {}, ahead |-> {Used(1, 0), Used(1, 2), Used(2, 0)}]}
=============================================================================
