--------------------------- MODULE DurableBlobStore ---------------------------
(***************************************************************************)
(* What the chunk store promises its callers, with no file system in       *)
(* sight: a content-addressed set of blobs.  A blob appears whole or not   *)
(* at all, is never rewritten in place, and one whose `put` returned Ok    *)
(* is still there, whole, after any crash.                                 *)
(*                                                                         *)
(* The store may be opened on a root an earlier program wrote.  A blob     *)
(* inherited that way can be damaged; no other ever is.                    *)
(***************************************************************************)
CONSTANTS CIDs

VARIABLES
    blob,       \* blob[c]: what a reader finds under the name of CID c
    inherited,  \* CIDs under whose name an inherited file may be found
    promised    \* CIDs whose `put` returned Ok and were not deleted since

bvars == <<blob, inherited, promised>>

BlobState == {"absent", "intact", "damaged"}

Init ==
    /\ blob \in [CIDs -> BlobState]
    /\ inherited = {c \in CIDs : blob[c] # "absent"}
    /\ promised = {}

\* A blob that was absent becomes visible, complete.
Publish(c) ==
    /\ blob[c] = "absent"
    /\ blob' = [blob EXCEPT ![c] = "intact"]
    /\ UNCHANGED <<inherited, promised>>

\* A `put` returns Ok: from here on the blob must survive.
Acknowledge(c) ==
    /\ blob[c] = "intact"
    /\ promised' = promised \cup {c}
    /\ UNCHANGED <<blob, inherited>>

Delete(c) ==
    /\ blob[c] # "absent"
    /\ blob' = [blob EXCEPT ![c] = "absent"]
    /\ promised' = promised \ {c}
    /\ UNCHANGED inherited

\* The deletion of inherited files becomes final.
Settle ==
    /\ inherited' \in SUBSET inherited
    /\ UNCHANGED <<blob, promised>>

\* Power is lost.  Blobs nobody was promised may vanish, and a deletion may be
\* undone, but only an inherited blob can come back damaged.
Crash ==
    /\ blob' \in [CIDs -> BlobState]
    /\ \A c \in promised : blob'[c] = "intact"
    /\ \A c \in CIDs : blob'[c] = "damaged" => c \in inherited
    /\ inherited' \in SUBSET inherited
    /\ UNCHANGED promised

Next ==
    \/ \E c \in CIDs : Publish(c) \/ Acknowledge(c) \/ Delete(c)
    \/ Settle
    \/ Crash

Spec == Init /\ [][Next]_bvars
===============================================================================
