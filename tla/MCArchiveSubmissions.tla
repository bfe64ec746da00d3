------------------------- MODULE MCArchiveSubmissions -------------------------
(* ArchiveSubmissions for TLC: two chunks, and epochs that add and take away  *)
(* a chunk, so that a batch planned for one epoch can be executed, or         *)
(* refused, in the next.                                                      *)
(*                                                                            *)
(* The setting of a behaviour, fixed at its start, says what happens in it:   *)
(*   attest    a pushed-manifest run and the watcher, over two epochs;        *)
(*   reassign  the watcher alone, over all three epochs;                      *)
(*   prove     two challenges and room to remember one, nothing to attest;    *)
(*   both      a challenge while the watcher attests from the same account.   *)
(* It restrains only the chain, the owner and the faults, none of the         *)
(* archive's own steps, so it takes nothing from the fairness they have.      *)
EXTENDS ArchiveSubmissions

CONSTANTS x1, x2

VARIABLE setting

Shifting == <<{0}, {0, 1}, {1}>>
OnFirst  == [x \in Challenges |-> 0]

Settings == {"attest", "reassign", "prove", "both"}

Por == setting \in {"prove", "both"}

MCInit ==
    /\ Init /\ setting \in Settings
    /\ Por => row /\ held \subseteq {0}
    /\ setting = "prove" => attested[1] = held

Inside ==
    /\ ~Por => active' = {}
    /\ Por => latest' = 1 /\ spawns' = 0 /\ held' \subseteq {0} /\ ~abandoned'
    /\ setting = "attest" => latest' < 3
    /\ setting = "reassign" => spawns' = 0
    /\ setting = "prove" => held' = held
    /\ setting = "both" => active' \subseteq {x1}

MCNext == Next /\ Inside /\ UNCHANGED setting

MCSpec == MCInit /\ [][MCNext]_<<vars, setting>> /\ Fairness
===============================================================================
