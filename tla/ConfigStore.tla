---------------------------- MODULE ConfigStore ----------------------------
(***************************************************************************)
(* The settings of the launcher on disk: AppConfig (load_resilient, save), *)
(* write_atomic, the user's autostart entry (set_enabled), and the order   *)
(* in which on_save_settings uses them.                                    *)
(*                                                                         *)
(* Each step is one file operation.  Any of them may fail, the process may *)
(* be killed after any of them, and the power may fail: then contents that *)
(* were not synced may be cut short, and directory entries that were not   *)
(* synced may be the older ones.                                           *)
(***************************************************************************)
EXTENDS Naturals

CONSTANTS
    Rest, DefaultRest,   \* the settings other than launch_at_login
    Bad,                 \* a text load refuses: no TOML, or another version
    NoFile,
    Managed, Foreign,    \* autostart entries with and without our marker
    MaxSaves, MaxFailures, MaxKills, MaxPowerCuts, MaxCorruptions

AppConfig == [login : BOOLEAN, rest : Rest]
Default == [login |-> FALSE, rest |-> DefaultRest]

Text == AppConfig \cup {Bad, Managed, Foreign}
Inode == [text : Text, synced : BOOLEAN]

ASSUME StoreAssumption ==
    /\ DefaultRest \in Rest
    /\ Bad \notin AppConfig /\ NoFile \notin AppConfig /\ Bad # NoFile
    /\ {Managed, Foreign} \cap (AppConfig \cup {Bad, NoFile}) = {}
    /\ Managed # Foreign
    /\ NoFile \notin Inode
    /\ {MaxSaves, MaxFailures, MaxKills, MaxPowerCuts, MaxCorruptions} \subseteq Nat

Temporary(t) == IF t = "config" THEN "config_tmp" ELSE "autostart_tmp"
Path == {"config", "previous", "config_tmp", "autostart", "autostart_tmp"}

\* The directory a file is in.
Directory(t) ==
    IF t = "config" THEN {"config", "previous", "config_tmp"}
    ELSE {"autostart", "autostart_tmp"}

VARIABLES
    now,      \* [Path -> what the path names: NoFile or an inode]
    old,      \* [Path -> what it named before, if the power fails now]
    pc,       \* the next file operation
    job,      \* what it belongs to: the entry, the configuration, the rollback
    next,     \* the settings being saved
    memory,   \* app_config
    saves, failures, kills, cuts, corruptions,
    committed,  \* history: the settings last reported as saved
    tried,      \* history: settings whose save has begun since and not succeeded
    late,       \* history: a directory sync has failed after its rename
    fallback    \* history: the configuration was damaged beside a valid backup

counts == <<saves, failures, kills, cuts, corruptions>>
disk == <<now, old>>
history == <<committed, tried, late, fallback>>
storeVars == <<now, old, pc, job, next, memory, counts, history>>

-----------------------------------------------------------------------------
(* Files. *)

Exists(p) == now[p] # NoFile

TextOf(p) == IF Exists(p) THEN now[p].text ELSE NoFile

\* What a text that was cut short may say to load.  Fields that are missing have
\* their defaults, so a prefix that ends with a line, or is empty, is a
\* configuration too.
CutShort(t) ==
    {Bad, Default} \cup
    (IF t \in AppConfig THEN {[t EXCEPT !.rest = DefaultRest]} ELSE {})

\* What is left of an entry after a power cut.
Survivors(i) ==
    IF i = NoFile THEN {NoFile}
    ELSE {[text |-> t, synced |-> TRUE] :
            t \in {i.text} \cup (IF i.synced THEN {} ELSE CutShort(i.text))}

\* The path p names i now; the entry itself is not synced yet.
Relink(p, i) ==
    /\ now' = [now EXCEPT ![p] = i]
    /\ old' = [old EXCEPT ![p] = @ \cup {now[p]}]

\* The file p gets new contents, in place if it exists.
Overwrite(p, t) ==
    /\ now' = [now EXCEPT ![p] = [text |-> t, synced |-> FALSE]]
    /\ old' = [old EXCEPT ![p] = IF Exists(p) THEN @ ELSE @ \cup {NoFile}]

-----------------------------------------------------------------------------
(* load and load_resilient. *)

Decodes(p) == TextOf(p) \in AppConfig

Loaded ==
    CASE Decodes("config")    -> TextOf("config")
      [] ~Exists("config")    -> Default
      [] OTHER -> IF Decodes("previous") THEN TextOf("previous") ELSE Default

StoreInit ==
    /\ \E c \in AppConfig \cup {NoFile}, e \in {NoFile, Managed, Foreign} :
        /\ now = [p \in Path |->
                    CASE p = "config" /\ c # NoFile -> [text |-> c, synced |-> TRUE]
                      [] p = "autostart" /\ e # NoFile -> [text |-> e, synced |-> TRUE]
                      [] OTHER -> NoFile]
        /\ committed = IF c = NoFile THEN Default ELSE c
        /\ (e = Managed) = committed.login
    /\ old = [p \in Path |-> {}]
    /\ pc = "down" /\ job = "none"
    /\ next = Default /\ memory = Default
    /\ saves = 0 /\ failures = 0 /\ kills = 0 /\ cuts = 0 /\ corruptions = 0
    /\ tried = {}
    /\ late = FALSE /\ fallback = FALSE

\* The interface starts.  The temporary files of an earlier process carry its
\* process number in their names, which this process may have got again.
StartUi ==
    /\ pc = "down"
    /\ pc' = "idle"
    /\ memory' = Loaded
    /\ \E reused \in BOOLEAN :
        now' = IF reused THEN now
               ELSE [p \in Path |->
                       IF p \in {"config_tmp", "autostart_tmp"} THEN NoFile ELSE now[p]]
    /\ UNCHANGED <<old, job, next, counts, history>>

-----------------------------------------------------------------------------
(* on_save_settings. *)

Changed == memory.login # next.login

\* Where set_enabled(path, exe, on) begins.
SetEnabled(on) == pc' = IF on THEN "write" ELSE "remove"

\* Where save begins: the backup is only made of a file that exists.
BeginSave == pc' = (IF Exists("config") THEN "backup" ELSE "write") /\ job' = "config"

SaveSettings ==
    /\ pc = "idle"
    /\ saves < MaxSaves
    /\ saves' = saves + 1
    /\ \E c \in AppConfig :
        /\ next' = c
        /\ tried' = tried \cup {c}
        /\ IF c.login # memory.login
           THEN SetEnabled(c.login) /\ job' = "autostart"
           ELSE BeginSave
    /\ UNCHANGED <<disk, memory, failures, kills, cuts, corruptions, committed, late, fallback>>

\* The operation that job stands for has succeeded.
Succeeds ==
    \/ /\ job = "autostart"
       /\ BeginSave
       /\ UNCHANGED <<memory, committed, tried>>
    \/ /\ job = "config"
       /\ pc' = "idle" /\ job' = "none"
       /\ memory' = next
       /\ committed' = next /\ tried' = {}
    \/ /\ job = "rollback"
       /\ pc' = "idle" /\ job' = "none"
       /\ UNCHANGED <<memory, committed, tried>>

\* Mutant: a failed save leaves the entry as it was changed.
Fails_NoRollback ==
    /\ pc' = "idle" /\ job' = "none"
    /\ UNCHANGED <<memory, committed, tried>>

\* It has failed: a failed save puts the entry back, once; the outcome of that
\* is ignored.
Fails ==
    /\ IF job = "config" /\ Changed
       THEN SetEnabled(memory.login) /\ job' = "rollback"
       ELSE pc' = "idle" /\ job' = "none"
    /\ UNCHANGED <<memory, committed, tried>>

File == IF job = "config" THEN "config" ELSE "autostart"
NewText == IF job = "config" THEN next ELSE Managed

GoOn(point) == pc' = point /\ UNCHANGED <<job, memory, committed, tried>>

Steady == UNCHANGED <<next, counts, late, fallback>>

-----------------------------------------------------------------------------
(* save: the backup. *)

\* fs::copy truncates the backup before it fills it.
TruncateBackup ==
    /\ pc = "backup"
    /\ \E t \in CutShort(TextOf("config")) : Overwrite("previous", t)
    /\ GoOn("fill")
    /\ Steady

FillBackup ==
    /\ pc = "fill"
    /\ now' = [now EXCEPT !["previous"].text = TextOf("config")]
    /\ UNCHANGED old
    /\ GoOn("sync_backup")
    /\ Steady

SyncBackup ==
    /\ pc = "sync_backup"
    /\ now' = [now EXCEPT !["previous"].synced = TRUE]
    /\ UNCHANGED old
    /\ GoOn("write")
    /\ Steady

-----------------------------------------------------------------------------
(* write_atomic, for either file. *)

\* A leftover of the same name goes first; then the new file is written.
WriteTemporary ==
    /\ pc = "write"
    /\ Relink(Temporary(File), [text |-> NewText, synced |-> FALSE])
    /\ GoOn("sync")
    /\ Steady

\* Mutant: the new file is renamed without having been synced.
SyncTemporary_Skipped ==
    /\ pc = "sync"
    /\ UNCHANGED disk
    /\ GoOn("rename")
    /\ Steady

SyncTemporary ==
    /\ pc = "sync"
    /\ now' = [now EXCEPT ![Temporary(File)].synced = TRUE]
    /\ UNCHANGED old
    /\ GoOn("rename")
    /\ Steady

Rename ==
    /\ pc = "rename"
    /\ LET t == Temporary(File)
       IN  /\ now' = [now EXCEPT ![File] = now[t], ![t] = NoFile]
           /\ old' = [old EXCEPT ![File] = @ \cup {now[File]}, ![t] = @ \cup {now[t]}]
    /\ GoOn("sync_directory")
    /\ Steady

\* Mutant: the directory is not synced after the rename.
SyncDirectory_Skipped ==
    /\ pc = "sync_directory"
    /\ UNCHANGED disk
    /\ Succeeds
    /\ Steady

SyncDirectory ==
    /\ pc = "sync_directory"
    /\ old' = [p \in Path |-> IF p \in Directory(File) THEN {} ELSE old[p]]
    /\ UNCHANGED now
    /\ Succeeds
    /\ Steady

-----------------------------------------------------------------------------
(* remove_managed_file *)

\* The entry is read first; one with our marker is then removed by its name.
FindMarker ==
    /\ pc = "remove"
    /\ TextOf("autostart") = Managed
    /\ UNCHANGED disk
    /\ GoOn("unlink")
    /\ Steady

RemoveEntry ==
    /\ pc = "unlink"
    /\ Relink("autostart", NoFile)
    /\ Succeeds
    /\ Steady

NothingToRemove ==
    /\ pc = "remove"
    /\ ~Exists("autostart")
    /\ UNCHANGED disk
    /\ Succeeds
    /\ Steady

\* An entry without our marker is refused.
RefuseForeign ==
    /\ pc = "remove"
    /\ Exists("autostart") /\ TextOf("autostart") # Managed
    /\ UNCHANGED disk
    /\ Fails
    /\ Steady

-----------------------------------------------------------------------------
(* Failures. *)

\* Mutant: nothing removes the temporary file.
OperationFails_NoGuard ==
    /\ pc \notin {"down", "idle"}
    /\ failures < MaxFailures
    /\ failures' = failures + 1
    /\ UNCHANGED disk
    /\ late' = (late \/ pc = "sync_directory")
    /\ Fails
    /\ UNCHANGED <<next, saves, kills, cuts, corruptions, fallback>>

\* The operation at pc fails and has no effect, but that the guard of
\* write_atomic removes the temporary file unless it was renamed.  A leftover
\* that could not be removed stays: the guard does not exist yet.
OperationFails ==
    /\ pc \notin {"down", "idle"}
    /\ failures < MaxFailures
    /\ failures' = failures + 1
    /\ \/ /\ pc \in {"write", "sync", "rename"} /\ Exists(Temporary(File))
          /\ Relink(Temporary(File), NoFile)
       \/ /\ pc \in {"sync", "rename"} => ~Exists(Temporary(File))
          /\ UNCHANGED disk
    /\ late' = (late \/ pc = "sync_directory")
    /\ Fails
    /\ UNCHANGED <<next, saves, kills, cuts, corruptions, fallback>>

Killed ==
    /\ pc # "down"
    /\ kills < MaxKills
    /\ kills' = kills + 1
    /\ pc' = "down" /\ job' = "none"
    /\ UNCHANGED <<disk, next, memory, saves, failures, cuts, corruptions, history>>

\* What a path may name after a power cut.
AfterCut(p) == UNION {Survivors(i) : i \in {now[p]} \cup old[p]}

PowerCut ==
    /\ cuts < MaxPowerCuts
    /\ cuts' = cuts + 1
    /\ pc' = "down" /\ job' = "none"
    /\ \E a \in AfterCut("config"), b \in AfterCut("previous"), c \in AfterCut("config_tmp"),
          d \in AfterCut("autostart"), e \in AfterCut("autostart_tmp") :
        now' = [p \in Path |->
                  CASE p = "config" -> a [] p = "previous" -> b [] p = "config_tmp" -> c
                    [] p = "autostart" -> d [] p = "autostart_tmp" -> e]
    /\ old' = [p \in Path |-> {}]
    /\ UNCHANGED <<next, memory, saves, failures, kills, corruptions, history>>

\* Somebody else damages the configuration.
Corrupted ==
    /\ pc \in {"down", "idle"}
    /\ corruptions < MaxCorruptions
    /\ corruptions' = corruptions + 1
    /\ Exists("config")
    /\ now' = [now EXCEPT !["config"] = [text |-> Bad, synced |-> TRUE]]
    /\ fallback' = Decodes("previous")
    /\ UNCHANGED <<old, pc, job, next, memory, saves, failures, kills, cuts, committed, tried, late>>

\* Somebody else puts an entry of their own in place of ours, at any moment.
EntryReplaced ==
    /\ corruptions < MaxCorruptions
    /\ corruptions' = corruptions + 1
    /\ now' = [now EXCEPT !["autostart"] = [text |-> Foreign, synced |-> TRUE]]
    /\ old' = [old EXCEPT !["autostart"] = {}]
    /\ UNCHANGED <<pc, job, next, memory, saves, failures, kills, cuts, history>>

StoreNext ==
    \/ StartUi \/ SaveSettings
    \/ TruncateBackup \/ FillBackup \/ SyncBackup
    \/ WriteTemporary \/ SyncTemporary \/ Rename \/ SyncDirectory
    \/ FindMarker \/ RemoveEntry \/ NothingToRemove \/ RefuseForeign
    \/ OperationFails \/ Killed \/ PowerCut
    \/ Corrupted \/ EntryReplaced

StoreSpec == StoreInit /\ [][StoreNext]_storeVars

-----------------------------------------------------------------------------
(* Properties. *)

Points == {"down", "idle", "backup", "fill", "sync_backup", "write", "sync",
           "rename", "sync_directory", "remove", "unlink"}

\* The variables have their types; the autostart entry and the configuration are
\* never mixed up, and a file is only renamed after it was synced.
StoreTypeOK ==
    /\ now \in [Path -> Inode \cup {NoFile}]
    /\ old \in [Path -> SUBSET (Inode \cup {NoFile})]
    /\ pc \in Points
    /\ job \in {"none", "autostart", "config", "rollback"}
    /\ next \in AppConfig /\ memory \in AppConfig
    /\ saves \in 0..MaxSaves /\ failures \in 0..MaxFailures /\ kills \in 0..MaxKills
    /\ cuts \in 0..MaxPowerCuts /\ corruptions \in 0..MaxCorruptions
    /\ committed \in AppConfig /\ tried \subseteq AppConfig
    /\ late \in BOOLEAN /\ fallback \in BOOLEAN
    /\ \A p \in {"config", "previous", "config_tmp"} :
        TextOf(p) \in AppConfig \cup {Bad, NoFile}
    /\ TextOf("autostart") \in {Managed, Foreign, NoFile}
    /\ pc = "rename" => now[Temporary(File)] \in [text : {NewText}, synced : {TRUE}]

\* Whatever is killed, cut off or fails, the next start finds the settings last
\* reported as saved, or ones the user tried to save since: never a mixture,
\* never a part, never an older choice (README.md:21, config.rs:67-79, 100-126).
SavedSettingsSurvive ==
    corruptions = 0 => Loaded \in {committed} \cup tried

\* Unless the process was killed or a directory could not be synced, one failed
\* operation leaves the autostart entry as the settings in memory say
\* (main.rs:485-505).
EntryFollowsSettings ==
    pc = "idle" /\ kills = 0 /\ cuts = 0 /\ corruptions = 0 /\ ~late /\ failures <= 1 =>
        ((TextOf("autostart") = Managed) <=> memory.login)

\* Without a crash no temporary file stays behind, whatever failed
\* (config.rs:140-146).
NoTemporaryLeft ==
    pc = "idle" /\ kills = 0 /\ cuts = 0 =>
        ~Exists("config_tmp") /\ ~Exists("autostart_tmp")

\* docs/implementation-status.md:52 and README.md:116: only entries with our marker are
\* managed, an entry of somebody else is neither overwritten nor removed.
ForeignEntryIsKept ==
    [][TextOf("autostart") = Foreign => TextOf("autostart")' = Foreign]_storeVars

\* docs/implementation-status.md:51: when the current file is damaged the last
\* valid configuration is used.  So if there was a valid backup when the
\* configuration was damaged, a later start still finds a valid one.
ValidConfigRemains ==
    fallback /\ pc = "down" => Decodes("config") \/ Decodes("previous")

=============================================================================
