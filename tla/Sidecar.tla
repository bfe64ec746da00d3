------------------------------- MODULE Sidecar -------------------------------
(***************************************************************************)
(* One record file of ManifestIndex, line by line (manifest_index.rs of    *)
(* crates/sum-store): the GC-protected list ("gc"), <root>.v2_held or      *)
(* <root>.v2_proofs ("keyed": one record per chunk index) or               *)
(* <root>.private_chunks ("private").  ArchiveStore takes an append and a  *)
(* load of these files as one step; here they are the file operations they *)
(* are made of, any of which may fail, and the node may go down between    *)
(* any two.  The index is written by one task at a time, under the store's *)
(* write lock.                                                             *)
(*                                                                         *)
(* A file is its newline-terminated lines and whether a fragment follows   *)
(* them.  A fragment is not a line; a line appended behind one is joined   *)
(* to it.  What a file started with may be damaged: lines that do not      *)
(* parse, two records for one index, a fragment.                           *)
(***************************************************************************)
EXTENDS Naturals, FiniteSets, Sequences, SequencesExt

CONSTANTS
    Kinds,      \* the kinds of file checked
    Crashes,    \* how the node goes down: "kill" or "power"
    Appended,   \* records the node may record, <<key, value>>
    Legacy,     \* records of the chunks on disk at the first start
    Damaged,    \* contents a file of an earlier process may have
    NoList,     \* there is no file
    Lost,       \* the GC list was removed, its marker was not
    Bad,        \* a line that does not parse
    Glued,      \* a fragment and a line joined
    MaxLines    \* bound on the lines of a file

Content(lines_, torn) == [lines |-> lines_, torn |-> torn]

\* What a line may be, and a file.
AnyLine ==
    Appended \cup Legacy \cup {Bad, Glued} \cup UNION {ToSet(d.lines) : d \in Damaged}
Contents == [lines : Seq(AnyLine), torn : BOOLEAN]

\* A root's records are of one form per index: what is recorded was verified, and
\* "a verified Merkle proof binds each index of a root to one leaf".  A file of an
\* earlier process may hold anything but a fragment joined to a line.
ASSUME SidecarAssumption ==
    /\ Crashes \subseteq {"kill", "power"}
    /\ NoList # Lost
    /\ Damaged \subseteq Contents /\ {NoList, Lost} \cap Contents = {}
    /\ \A d \in Damaged : Glued \notin ToSet(d.lines)
    /\ Bad # Glued /\ (Appended \cup Legacy) \cap {Bad, Glued} = {}
    /\ IsFiniteSet(Legacy)
    /\ \A r, q \in Appended : r[1] = q[1] => r = q

VARIABLES
    kind, crash, damage,  \* the file, the way down and what it began with
    list,       \* the file as a reader sees it, or NoList
    safe,       \* how many of its lines are synced
    entry,      \* its directory entry is synced
    prior,      \* the file that entry led to before, if it is not
    marker,     \* "absent", "written" or "synced": GC_PROTECTED_MARKER
    alive,      \* the store is open, or being opened
    health,     \* "none", "ok", or why the file is of no use
    loaded,     \* the records in memory
    trusted,    \* durable_sidecars has the file
    step,       \* where the open or the append under way is
    rec,        \* the record being appended
    recorded,   \* history: records whose append returned Ok
    stuck       \* history: a load could not read the file, or not replace it

svars == <<kind, crash, damage, list, safe, entry, prior, marker, alive, health, loaded,
           trusted, step, rec, recorded, stuck>>
fixed == <<kind, crash, damage>>

LinesOf(c) == IF c = NoList THEN << >> ELSE c.lines
Unusable == {"lost", "unreadable", "malformed", "io", "append"}

SidecarInit ==
    /\ kind \in Kinds /\ crash \in Crashes
    /\ damage \in Damaged \cup {NoList} \cup (IF kind = "gc" THEN {Lost} ELSE {})
    /\ list = (IF damage = Lost THEN NoList ELSE damage)
    /\ safe = Len(LinesOf(list)) /\ entry = TRUE /\ prior = NoList
    /\ marker = IF kind = "gc" /\ damage # NoList THEN "synced" ELSE "absent"
    /\ alive = FALSE /\ health = "none" /\ loaded = {} /\ trusted = FALSE
    /\ step = "down" /\ rec = (CHOOSE r \in Appended : TRUE) /\ recorded = {} /\ stuck = FALSE

\* The file does not exist for this behaviour.
SidecarOff(k, c) ==
    /\ kind = k /\ crash = c /\ damage = NoList
    /\ list = NoList /\ safe = 0 /\ entry = TRUE /\ prior = NoList /\ marker = "absent"
    /\ alive = FALSE /\ health = "none" /\ loaded = {} /\ trusted = FALSE
    /\ step = "off" /\ rec = (CHOOSE r \in Appended : TRUE) /\ recorded = {} /\ stuck = FALSE

-------------------------------------------------------------------------------
(* Loading *)

\* load_with has no use for the file.
Broken(why) ==
    /\ health' = why /\ loaded' = {}

AllParse == ToSet(list.lines) \cap {Bad, Glued} = {}

\* load_gc_protected: the list is missing although its marker is there, cannot
\* be read, has a line that does not parse, or its fragment or its marker could
\* not be dealt with.  Any of it disables deletion and every push.
LoadGcBroken ==
    /\ kind = "gc"
    /\ \/ list = NoList /\ marker # "absent" /\ Broken("lost") /\ UNCHANGED <<list, marker>>
       \/ list # NoList /\ Broken("unreadable") /\ UNCHANGED <<list, marker>>
       \/ list # NoList /\ ~AllParse /\ Broken("malformed") /\ UNCHANGED <<list, marker>>
       \/ /\ list # NoList /\ AllParse /\ (list.torn \/ marker = "absent")
          /\ Broken("io")
          /\ list' \in {list, [list EXCEPT !.torn = FALSE]}
          /\ marker' \in {marker} \cup (IF list'.torn \/ marker # "absent" THEN {} ELSE {"written"})
    /\ step' = "idle"
    /\ UNCHANGED <<safe, entry>>

\* It is read in full: a fragment is cut off and the cut synced, and a missing
\* marker is written.
LoadGc ==
    /\ kind = "gc" /\ list # NoList
    /\ AllParse
    /\ list' = [list EXCEPT !.torn = FALSE]
    /\ safe' = IF list.torn THEN Len(list.lines) ELSE safe
    /\ marker' = IF marker = "absent" THEN "synced" ELSE marker
    /\ entry' = (entry \/ marker = "absent")
    /\ loaded' = ToSet(list.lines)
    /\ health' = "ok" /\ step' = "idle"

\* Neither list nor marker: SumStore::new seeds the list next.
LoadGcFirst ==
    /\ kind = "gc" /\ list = NoList /\ marker = "absent"
    /\ step' = "seed"
    /\ UNCHANGED <<list, safe, entry, marker, health, loaded>>

\* Records of an index that has two different ones.
Conflicting(S) == {r \in S : \E q \in S : q[1] = r[1] /\ q # r}

\* The records of a keyed or private file that count.
Usable ==
    LET parsed == ToSet(LinesOf(list)) \ {Bad, Glued}
    IN IF kind = "keyed" THEN parsed \ Conflicting(parsed) ELSE parsed

\* rewrite_v2_held, rewrite_v2_proofs, rewrite_private_chunks: the usable records
\* in a synced temporary file that takes the name, and a sync of the directory.
\* Failing, it may have taken the name or not; that is only a warning.
Rewrite ==
    LET new == Content(SetToSeq(Usable), FALSE) IN
    \/ list' = new /\ safe' = Len(new.lines) /\ entry' = TRUE /\ UNCHANGED <<prior, stuck>>
    \/ list' = new /\ safe' = Len(new.lines) /\ entry' = FALSE /\ prior' = list
       /\ UNCHANGED stuck
    \/ stuck' = TRUE /\ UNCHANGED <<list, safe, entry, prior>>

\* load_v2_held_lines, load_v2_proof_lines, load_private_chunk_lines: what is
\* unusable is dropped, and the file rewritten without it.
LoadRecords ==
    /\ kind # "gc" /\ list # NoList
    /\ IF list.torn \/ ToSet(list.lines) # Usable
         THEN Rewrite
         ELSE UNCHANGED <<list, safe, entry, prior, stuck>>
    /\ loaded' = Usable
    /\ health' = "ok" /\ step' = "idle"
    /\ UNCHANGED marker

\* An unreadable file is skipped; one that is not there has no records.
LoadNothing ==
    /\ kind # "gc"
    /\ health' = IF list = NoList THEN "ok" ELSE "unreadable"
    /\ loaded' = {} /\ step' = "idle"
    /\ stuck' = (stuck \/ list # NoList)
    /\ UNCHANGED <<list, safe, entry, prior, marker>>

Load ==
    /\ step = "down"
    /\ alive' = TRUE
    /\ \/ (LoadGcBroken \/ LoadGc \/ LoadGcFirst) /\ UNCHANGED <<prior, stuck>>
       \/ LoadRecords \/ LoadNothing
    /\ UNCHANGED <<fixed, trusted, rec, recorded>>

-------------------------------------------------------------------------------
(* Seeding the GC list, in SumStore::new.  An error closes the store: see    *)
(* GoesDown.                                                                 *)

\* Mutant: the marker precedes the list.
SeedNameMarked ==
    /\ step = "seed"
    /\ list' = Content(SetToSeq(Legacy), FALSE) /\ safe' = Len(list'.lines)
    /\ entry' = FALSE /\ prior' = list
    /\ marker' = "synced"
    /\ step' = "seedSync"
    /\ UNCHANGED <<fixed, alive, health, loaded, trusted, rec, recorded, stuck>>

\* The synced temporary file takes the name of the list.
SeedName ==
    /\ step = "seed"
    /\ list' = Content(SetToSeq(Legacy), FALSE) /\ safe' = Len(list'.lines)
    /\ entry' = FALSE /\ prior' = list
    /\ step' = "seedSync"
    /\ UNCHANGED <<fixed, marker, alive, health, loaded, trusted, rec, recorded, stuck>>

\* sync_dir, then the marker is created.
SeedSync ==
    /\ step = "seedSync"
    /\ entry' = TRUE /\ marker' = "written"
    /\ step' = "seedMark"
    /\ UNCHANGED <<fixed, list, safe, prior, alive, health, loaded, trusted, rec, recorded, stuck>>

\* write_marker returned: the list is in force.
SeedMark ==
    /\ step = "seedMark"
    /\ marker' = "synced"
    /\ loaded' = Legacy /\ health' = "ok" /\ step' = "idle"
    /\ UNCHANGED <<fixed, list, safe, entry, prior, alive, trusted, rec, recorded, stuck>>

-------------------------------------------------------------------------------
(* Appending *)

\* record_v2_held_chunk, record_v2_held_index, record_v2_pushed_proof or
\* record_private_chunk_cid for r: a record that is in memory is Ok at once, a
\* GC list that is of no use and an index bound to another record are refused.
Record(r) ==
    /\ step = "idle"
    /\ \/ /\ r \in loaded
          /\ recorded' = recorded \cup {r}
          /\ UNCHANGED <<step, rec>>
       \/ /\ r \notin loaded
          /\ kind = "gc" => health = "ok"
          /\ kind = "keyed" => \A q \in loaded : q[1] # r[1]
          /\ rec' = r
          /\ step' = IF kind = "gc" THEN "write" ELSE "open"
          /\ UNCHANGED recorded
    /\ UNCHANGED <<fixed, list, safe, entry, prior, marker, alive, health, loaded, trusted, stuck>>

\* The sidecar is opened, or created.
OpenSidecar ==
    /\ step = "open"
    /\ IF list = NoList
         THEN /\ list' = Content(<< >>, FALSE) /\ safe' = 0
              /\ entry' = FALSE /\ prior' = NoList
         ELSE UNCHANGED <<list, safe, entry, prior>>
    /\ step' = IF trusted THEN "cut" ELSE "entry"
    /\ UNCHANGED <<fixed, marker, alive, health, loaded, trusted, rec, recorded, stuck>>

\* Mutant: the directory is synced only for a file this process created.
SyncEntryOfNew ==
    /\ step = "entry"
    /\ entry' = (entry \/ list.lines = << >>) /\ trusted' = TRUE
    /\ step' = "cut"
    /\ UNCHANGED <<fixed, list, safe, prior, marker, alive, health, loaded, rec, recorded, stuck>>

\* The process's first append to the file syncs the directory.
SyncEntry ==
    /\ step = "entry"
    /\ entry' = TRUE /\ trusted' = TRUE
    /\ step' = "cut"
    /\ UNCHANGED <<fixed, list, safe, prior, marker, alive, health, loaded, rec, recorded, stuck>>

\* Mutant: a fragment is left where it is.
CutNothing ==
    /\ step = "cut"
    /\ step' = "write"
    /\ UNCHANGED <<fixed, list, safe, entry, prior, marker, alive, health, loaded, trusted,
                   rec, recorded, stuck>>

\* cut_torn_tail.
CutTornTail ==
    /\ step = "cut"
    /\ list' = [list EXCEPT !.torn = FALSE]
    /\ step' = "write"
    /\ UNCHANGED <<fixed, safe, entry, prior, marker, alive, health, loaded, trusted, rec,
                   recorded, stuck>>

WriteLine ==
    /\ step = "write" /\ Len(list.lines) < MaxLines
    /\ list' = Content(Append(list.lines, IF list.torn THEN Glued ELSE rec), FALSE)
    /\ step' = "sync"
    /\ UNCHANGED <<fixed, safe, entry, prior, marker, alive, health, loaded, trusted, rec,
                   recorded, stuck>>

\* sync_data returned: the append is Ok and the record enters the memory.
SyncLine ==
    /\ step = "sync"
    /\ safe' = Len(list.lines)
    /\ loaded' = loaded \cup {rec} /\ recorded' = recorded \cup {rec}
    /\ step' = "idle"
    /\ UNCHANGED <<fixed, list, entry, prior, marker, alive, health, trusted, rec, stuck>>

\* An operation of the append fails, the write perhaps half-way.  A GC list is
\* of no use from here on.
AppendFails ==
    /\ step \in {"open", "entry", "cut", "write", "sync"}
    /\ \/ UNCHANGED list
       \/ step = "write" /\ list' = [list EXCEPT !.torn = TRUE]
    /\ health' = IF kind = "gc" THEN "append" ELSE health
    /\ step' = "idle"
    /\ UNCHANGED <<fixed, safe, entry, prior, marker, alive, loaded, trusted, rec, recorded, stuck>>

-------------------------------------------------------------------------------
(* Going down.  What a power loss leaves of a file is its synced lines, any  *)
(* of the later ones that were written before the first that is missing, and *)
(* perhaps a fragment; a name whose entry is not synced may lead to what it  *)
(* led to before.                                                            *)
Remains(c, n) ==
    {Content(SubSeq(c.lines, 1, m), torn) : m \in n..Len(c.lines), torn \in BOOLEAN}

AfterPowerLoss ==
    (IF list = NoList THEN {NoList}
     ELSE IF safe = Len(list.lines) /\ ~list.torn THEN {list} ELSE Remains(list, safe))
      \cup (IF entry THEN {} ELSE {prior})

\* An error while the store is opened ends the process too.
GoesDown ==
    /\ alive
    /\ IF crash = "kill"
         THEN UNCHANGED <<list, safe, entry, prior, marker>>
         ELSE /\ list' \in AfterPowerLoss
              /\ safe' = Len(LinesOf(list')) /\ entry' = TRUE /\ prior' = NoList
              /\ marker' \in (IF marker = "written" THEN {"absent", "synced"} ELSE {marker})
    /\ alive' = FALSE /\ health' = "none" /\ loaded' = {} /\ trusted' = FALSE
    /\ step' = "down"
    /\ UNCHANGED <<fixed, rec, recorded, stuck>>

SidecarNext ==
    \/ Load \/ SeedName \/ SeedSync \/ SeedMark
    \/ \E r \in Appended : Record(r)
    \/ OpenSidecar \/ SyncEntry \/ CutTornTail \/ WriteLine \/ SyncLine \/ AppendFails
    \/ GoesDown

SidecarSpec == SidecarInit /\ [][SidecarNext]_svars

-------------------------------------------------------------------------------
(* Properties                                                              *)

\* No record is ever joined to the fragment an earlier append left behind: a
\* fragment is cut before the next line (cut_torn_tail; "so the next line is not
\* joined to it"), and the GC list, which is not cut, takes no line after a
\* failed one until it is loaded again.
NoGluedLine == Glued \notin ToSet(LinesOf(list))

\* Two records for r's index were found, and the file was not replaced then: a
\* later load drops the index again.
Contested(r) ==
    /\ stuck /\ kind = "keyed" /\ damage # NoList
    /\ r \in Conflicting(ToSet(damage.lines) \cup {r})

\* A record whose append returned Ok is there after every failure, kill or power
\* loss, whenever the file could be loaded; so are, in the GC list, the chunks
\* of the first start.  Or else garbage collection is off.
RecordedSurvives ==
    health = "ok" =>
        /\ \A r \in recorded : r \in loaded \/ Contested(r)
        /\ kind = "gc" /\ damage = NoList => Legacy \subseteq loaded

\* Only what the program cannot help disables garbage collection and pushes for
\* good: neither an interrupted seeding nor an interrupted append is taken for a
\* list that was lost or is malformed.
BrokenByDamageOnly ==
    /\ health = "lost" => damage = Lost
    /\ health = "malformed" => damage \in Damaged /\ Bad \in ToSet(damage.lines)

\* A record file keeps what was recorded in it, and neither a failed append nor
\* an interrupted seeding makes it useless.
RecordsAreKept == NoGluedLine /\ RecordedSurvives /\ BrokenByDamageOnly
===============================================================================
