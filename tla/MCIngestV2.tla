------------------------------ MODULE MCIngestV2 ------------------------------
(* IngestV2 for TLC: one chunk, assigned to one archive of the snapshot, so   *)
(* that a new epoch names an archive that was not asked.                      *)
(*                                                                            *)
(* The setting of a behaviour, fixed at its start, says what happens in it:   *)
(*   ingest  two of all four commands, with blocks passing, while every       *)
(*           archive may leave;                                               *)
(*   repush  three of run and repush, while one of them leaves and the chunk  *)
(*           is assigned again.                                               *)
EXTENDS IngestV2

VARIABLE setting

AssignOne ==
    [s \in SUBSET Archives |->
        [c \in Chunks |-> IF s = {} THEN {} ELSE {CHOOSE a \in s : TRUE}]]

MCInit == Init /\ setting \in {"ingest", "repush"}

Inside ==
    \/ setting = "ingest" /\ n' < 3
    \/ /\ setting = "repush"
       /\ cmd' \in {"none", "run", "repush"} /\ height' = 0 /\ live' # {}

MCNext == Next /\ Inside /\ UNCHANGED setting

MCSpec == MCInit /\ [][MCNext]_<<vars, setting>>
===============================================================================
