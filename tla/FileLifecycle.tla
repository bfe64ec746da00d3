---------------------------- MODULE FileLifecycle ----------------------------
(***************************************************************************)
(* What the V2 ingest commands promise the owner of one file, with no      *)
(* messages, transactions or retries in sight: the file is registered once,*)
(* ends Active or Abandoned and never both, becomes Active only when every *)
(* chunk has a holder, and whatever a command reports is true and stays so.*)
(***************************************************************************)
CONSTANTS
    Chunks,    \* chunks of the file
    Archives,  \* archive nodes
    Manifest   \* stands for the manifest among the things an archive stores

VARIABLES
    stage,    \* lifecycle of the file on the chain
    holders,  \* (thing, archive) pairs: what is durably stored where
    told      \* what the owner has been told

lvars == <<stage, holders, told>>

Items == Chunks \cup {Manifest}

Init == stage = "none" /\ holders = {} /\ told = {}

Register == stage = "none" /\ stage' = "pending" /\ UNCHANGED <<holders, told>>

Store(x, a) ==
    /\ stage # "none"
    /\ holders' = holders \cup {<<x, a>>}
    /\ UNCHANGED <<stage, told>>

Activate ==
    /\ stage = "pending"
    /\ \A c \in Chunks : \E a \in Archives : <<c, a>> \in holders
    /\ stage' = "active"
    /\ UNCHANGED <<holders, told>>

Abandon == stage = "pending" /\ stage' = "abandoned" /\ UNCHANGED <<holders, told>>

\* A command reports that the file is Active, or Abandoned.
TellStage ==
    /\ stage \in {"active", "abandoned"}
    /\ told' = told \cup {<<stage, {}>>}
    /\ UNCHANGED <<stage, holders>>

\* A repush reports that each of `pairs` is stored, and the manifest with it.
TellStored(pairs) ==
    /\ \A p \in pairs : p \in holders /\ <<Manifest, p[2]>> \in holders
    /\ told' = told \cup {<<"complete", pairs>>}
    /\ UNCHANGED <<stage, holders>>

Next ==
    \/ Register \/ Activate \/ Abandon \/ TellStage
    \/ \E x \in Items, a \in Archives : Store(x, a)
    \/ \E pairs \in SUBSET (Chunks \X Archives) : TellStored(pairs)

Spec == Init /\ [][Next]_lvars
===============================================================================
