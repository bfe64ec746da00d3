---------------------------- MODULE MCArchiveStore ----------------------------
(* ArchiveStore for TLC.  pub is a Public V2 file, priv1 and priv2 are       *)
(* Private V2 files and v1 is a V1 file.  All have a chunk in common.  One   *)
(* position per file is enough: positions of one file share nothing but the  *)
(* files their records are in.                                               *)
(*                                                                           *)
(* The setting of a behaviour, fixed at its start, says which files there    *)
(* are, which handlers are at work and how the node goes down.  In the       *)
(* setting Lines the store rests and one record file is watched line by line *)
(* (Sidecar).                                                                *)
EXTENDS ArchiveStore, Sidecar, TLC

CONSTANTS pub, priv1, priv2, v1

VARIABLE setting

Setting(down, files, handlers) == [down |-> down, files |-> files, handlers |-> handlers]

Settings ==
    {Setting("kill", {pub, v1}, Handlers)}
      \cup {Setting("kill", {priv1, priv2}, {h}) : h \in Handlers}
      \cup {Setting("power", {priv1, v1}, {h}) : h \in Handlers}

Lines == Setting("kill", {}, {})

\* What a file may begin with: records, a line that does not parse, two records
\* for index 0, a fragment.
MCDamaged ==
    {Content(<< >>, TRUE), Content(<<<<0, "a">>>>, FALSE), Content(<<Bad>>, TRUE),
     Content(<<<<0, "a">>, <<0, "x">>>>, FALSE)}

MCAppended == {<<0, "a">>, <<1, "a">>}
MCLegacy   == {<<2, "a">>}

AllPositions == {<<r, 0>> : r \in Roots}
V2Positions  == {<<r, 0>> : r \in Roots \ {v1}}

FileOfPosition == [x \in Positions |-> x[1]]
OneCid         == [x \in Positions |-> "common"]

Symmetry == Permutations(Handlers)

Outside == Roots \ setting.files

StoreInit ==
    /\ Init
    /\ setting \in Settings /\ fault = setting.down
    /\ \A h \in Handlers : RootOf[pos[h]] \in setting.files
    /\ \A h \in Handlers \ setting.handlers :
          pos[h] = CHOOSE p \in Pushable : RootOf[p] \in setting.files
    /\ \A r \in Outside : mfile[r] = "absent"

\* The step involves nothing outside the setting.
Inside ==
    /\ \A r \in Outside : mfile'[r] = "absent" /\ r \notin mAcked'
    /\ \A h \in Handlers :
          pc'[h] # "idle" => h \in setting.handlers /\ RootOf[pos'[h]] \in setting.files
    /\ snap' # None => snap'.funded \subseteq setting.files

StoreRests ==
    /\ Init
    /\ setting = Lines /\ fault = "kill"
    /\ chunks = {} /\ mfile = [r \in Roots |-> "absent"]
    /\ pos = [h \in Handlers |-> CHOOSE p \in Pushable : TRUE]

MCInit ==
    \/ StoreInit /\ SidecarOff("gc", "kill")
    \/ StoreRests /\ SidecarInit

MCNext ==
    /\ UNCHANGED setting
    /\ \/ setting # Lines /\ Next /\ Inside /\ UNCHANGED svars
       \/ setting = Lines /\ SidecarNext /\ UNCHANGED vars

MCSpec == MCInit /\ [][MCNext]_<<vars, svars, setting>>
===============================================================================
