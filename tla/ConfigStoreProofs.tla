------------------------- MODULE ConfigStoreProofs -------------------------
(***************************************************************************)
(* Proofs about ConfigStore, for any settings, any number of saves and any *)
(* number of failures, kills and power cuts.                               *)
(***************************************************************************)
EXTENDS ConfigStore, TLAPS

\* What a path may name, now or after a power cut.
Allowed(p) ==
    IF p = "autostart" THEN {NoFile} \cup [text : {Managed, Foreign}, synced : {TRUE}]
    ELSE IF p = "autostart_tmp" THEN {NoFile} \cup Inode
    ELSE {NoFile} \cup [text : AppConfig \cup {Bad}, synced : BOOLEAN]

DiskInv ==
    /\ now \in [Path -> Inode \cup {NoFile}]
    /\ old \in [Path -> SUBSET (Inode \cup {NoFile})]
    /\ \A p \in Path : now[p] \in Allowed(p) /\ old[p] \subseteq Allowed(p)

VarTypes ==
    /\ pc \in Points
    /\ job \in {"none", "autostart", "config", "rollback"}
    /\ next \in AppConfig /\ memory \in AppConfig
    /\ committed \in AppConfig /\ tried \subseteq AppConfig
    /\ late \in BOOLEAN /\ fallback \in BOOLEAN

CountTypes ==
    /\ saves \in 0..MaxSaves /\ failures \in 0..MaxFailures /\ kills \in 0..MaxKills
    /\ cuts \in 0..MaxPowerCuts /\ corruptions \in 0..MaxCorruptions

\* What is on the disk at each point of a save.
PhaseInv ==
    /\ pc \in {"down", "idle"} <=> job = "none"
    /\ pc \in {"backup", "fill", "sync_backup"} => job = "config" /\ Exists("config")
    /\ pc \in {"fill", "sync_backup"} => Exists("previous")
    /\ pc \in {"remove", "unlink"} => job \in {"autostart", "rollback"}
    /\ pc = "sync" => now[Temporary(File)] = [text |-> NewText, synced |-> FALSE]
    /\ pc = "rename" => now[Temporary(File)] = [text |-> NewText, synced |-> TRUE]
    /\ pc = "sync_directory" /\ job = "config" => now["config"] = [text |-> next, synced |-> TRUE]

\* The settings a start may find.
Accepted == {committed} \cup tried

GoodEntry(i) ==
    IF i = NoFile THEN Default \in Accepted ELSE i.synced = TRUE /\ i.text \in Accepted

\* Every entry the configuration may have after a power cut is complete and
\* accepted.
CommitInv ==
    corruptions = 0 =>
        /\ \A i \in {now["config"]} \cup old["config"] : GoodEntry(i)
        /\ job \in {"autostart", "config"} => next \in tried

IInv == DiskInv /\ VarTypes /\ CountTypes /\ PhaseInv /\ CommitInv

-----------------------------------------------------------------------------
(* Facts about values. *)

\* The default settings are settings.
LEMMA DefaultIsConfig == Default \in AppConfig
BY StoreAssumption DEF Default, AppConfig

\* A text that was cut short is refused or is some configuration.
LEMMA CutShortTexts == \A t : CutShort(t) \subseteq AppConfig \cup {Bad}
BY StoreAssumption, DefaultIsConfig DEF CutShort, AppConfig, Default

\* A power cut leaves of an entry something its path may name.
LEMMA SurvivorsAllowed ==
    ASSUME NEW p \in Path, NEW i \in Allowed(p), NEW j \in Survivors(i)
    PROVE  j \in Allowed(p) /\ j \in Inode \cup {NoFile}
<1>1. CASE i = NoFile
  BY <1>1 DEF Survivors, Allowed
<1>2. CASE i # NoFile
  <2>1. PICK t \in {i.text} \cup (IF i.synced THEN {} ELSE CutShort(i.text)) :
          j = [text |-> t, synced |-> TRUE]
    BY <1>2 DEF Survivors
  <2>2. CASE p = "autostart"
    BY <1>2, <2>1, <2>2 DEF Allowed, Inode, Text
  <2>3. CASE p = "autostart_tmp"
    BY <1>2, <2>1, <2>3, CutShortTexts DEF Allowed, Inode, Text
  <2>4. CASE p # "autostart" /\ p # "autostart_tmp"
    BY <1>2, <2>1, <2>4, CutShortTexts DEF Allowed, Inode, Text
  <2>. QED  BY <2>2, <2>3, <2>4
<1>. QED  BY <1>1, <1>2

\* What a path may name is an inode or nothing.
LEMMA AllowedInodes == \A p \in Path : Allowed(p) \subseteq Inode \cup {NoFile}
BY DEF Allowed, Inode, Text

\* A path may always be missing.
LEMMA AllowedNoFile == \A p \in Path : NoFile \in Allowed(p)
BY DEF Allowed

\* The temporary file of either kind of text.
LEMMA TemporaryPath ==
    ASSUME VarTypes, job # "none"
    PROVE  /\ Temporary(File) \in Path /\ File \in Path
           /\ Temporary(File) # File
           /\ Temporary(File) \in {"config_tmp", "autostart_tmp"}
           /\ [text |-> NewText, synced |-> FALSE] \in Allowed(Temporary(File))
           /\ [text |-> NewText, synced |-> TRUE] \in Allowed(Temporary(File))
           /\ [text |-> NewText, synced |-> TRUE] \in Allowed(File)
<1>1. CASE job = "config"
  BY <1>1 DEF File, NewText, Temporary, Path, Allowed, VarTypes
<1>2. CASE job # "config"
  BY <1>2 DEF File, NewText, Temporary, Path, Allowed, Inode, Text
<1>. QED  BY <1>1, <1>2

\* Entries that are allowed, and older ones that were there, keep the disk.
LEMMA DiskKept ==
    ASSUME DiskInv,
           now' \in [Path -> Inode \cup {NoFile}],
           \A p \in Path : now'[p] \in Allowed(p),
           old' \in [Path -> SUBSET (Inode \cup {NoFile})],
           \A p \in Path : old'[p] \subseteq old[p] \cup {now[p], NoFile}
    PROVE  DiskInv'
<1>1. \A p \in Path : old'[p] \subseteq Allowed(p)
  BY AllowedNoFile DEF DiskInv
<1>2. \A p \in Path : Allowed(p)' = Allowed(p)
  BY DEF Allowed
<1>. QED  BY <1>1, <1>2 DEF DiskInv

\* So does a new entry for one path.
LEMMA OneEntry ==
    ASSUME DiskInv, NEW p \in Path, NEW i \in Allowed(p),
           now' = [now EXCEPT ![p] = i],
           \/ old' = old
           \/ \E j \in {now[p], NoFile} : old' = [old EXCEPT ![p] = @ \cup {j}]
    PROVE  DiskInv'
<1>1. now' \in [Path -> Inode \cup {NoFile}] /\ \A q \in Path : now'[q] \in Allowed(q)
  BY AllowedInodes DEF DiskInv
<1>2. old' \in [Path -> SUBSET (Inode \cup {NoFile})]
  BY DEF DiskInv
<1>3. \A q \in Path : old'[q] \subseteq old[q] \cup {now[q], NoFile}
  BY DEF DiskInv
<1>. QED  BY <1>1, <1>2, <1>3, DiskKept

-----------------------------------------------------------------------------
(* The invariant holds at first. *)

\* The program starts on a disk on which all is synced and accepted.
LEMMA InitIInv == StoreInit => IInv
<1>. SUFFICES ASSUME StoreInit PROVE IInv
  OBVIOUS
<1>1. PICK c \in AppConfig \cup {NoFile}, e \in {NoFile, Managed, Foreign} :
        /\ now = [p \in Path |->
                    CASE p = "config" /\ c # NoFile -> [text |-> c, synced |-> TRUE]
                      [] p = "autostart" /\ e # NoFile -> [text |-> e, synced |-> TRUE]
                      [] OTHER -> NoFile]
        /\ committed = IF c = NoFile THEN Default ELSE c
  BY DEF StoreInit
<1>2. now["config"] = IF c = NoFile THEN NoFile ELSE [text |-> c, synced |-> TRUE]
  BY <1>1 DEF Path
<1>3. now["autostart"] = IF e = NoFile THEN NoFile ELSE [text |-> e, synced |-> TRUE]
  BY <1>1 DEF Path
<1>4. \A p \in {"previous", "config_tmp", "autostart_tmp"} : now[p] = NoFile
  BY <1>1 DEF Path
<1>5. \A p \in Path : now[p] \in Allowed(p)
  <2>1. now["config"] \in Allowed("config")
    BY <1>2 DEF Allowed
  <2>2. now["autostart"] \in Allowed("autostart")
    BY <1>3 DEF Allowed
  <2>3. \A p \in {"previous", "config_tmp", "autostart_tmp"} : now[p] \in Allowed(p)
    BY <1>4 DEF Allowed
  <2>. QED  BY <2>1, <2>2, <2>3 DEF Path
<1>6. now \in [Path -> Inode \cup {NoFile}]
  <2>1. now = [p \in Path |-> now[p]]
    BY <1>1
  <2>. QED  BY <1>5, <2>1, AllowedInodes
<1>7. DiskInv
  BY <1>5, <1>6 DEF DiskInv, StoreInit
<1>8. committed \in AppConfig
  BY <1>1, DefaultIsConfig
<1>9. VarTypes /\ CountTypes
  <2>1. VarTypes
    BY <1>8, DefaultIsConfig DEF StoreInit, VarTypes, Points
  <2>2. CountTypes
    BY StoreAssumption DEF StoreInit, CountTypes
  <2>. QED  BY <2>1, <2>2
<1>10. PhaseInv
  BY DEF StoreInit, PhaseInv
<1>11. CommitInv
  <2>1. old["config"] = {} /\ tried = {} /\ job = "none"
    BY DEF StoreInit, Path
  <2>2. CASE c = NoFile
    BY <1>1, <1>2, <2>1, <2>2 DEF CommitInv, GoodEntry, Accepted
  <2>3. CASE c # NoFile
    <3>1. now["config"] = [text |-> c, synced |-> TRUE] /\ committed = c
      BY <1>1, <1>2, <2>3
    <3>2. now["config"] # NoFile
      <4>1. now["config"] \in Inode
        BY <3>1, <2>3 DEF Inode, Text
      <4>. QED  BY <4>1, StoreAssumption
    <3>3. GoodEntry(now["config"])
      BY <3>1, <3>2 DEF GoodEntry, Accepted
    <3>. QED  BY <2>1, <3>3 DEF CommitInv
  <2>. QED  BY <2>2, <2>3
<1>. QED  BY <1>7, <1>9, <1>10, <1>11 DEF IInv

-----------------------------------------------------------------------------
(* The invariant is preserved. *)

\* An inode is something.
LEMMA InodeExists == \A t \in Text, b \in BOOLEAN : [text |-> t, synced |-> b] # NoFile
<1>. SUFFICES ASSUME NEW t \in Text, NEW b \in BOOLEAN
              PROVE  [text |-> t, synced |-> b] # NoFile
  OBVIOUS
<1>1. [text |-> t, synced |-> b] \in Inode
  BY DEF Inode
<1>. QED  BY <1>1, StoreAssumption

\* What is accepted stays so while nothing is reported as saved.
LEMMA CommitKept ==
    ASSUME CommitInv,
           now'["config"] = now["config"],
           old'["config"] \subseteq old["config"] \cup {now["config"]},
           committed' = committed, tried \subseteq tried', corruptions' = corruptions,
           job' \in {"autostart", "config"} =>
              next' \in tried' \/ (job \in {"autostart", "config"} /\ next' = next)
    PROVE  CommitInv'
<1>. SUFFICES ASSUME corruptions = 0
              PROVE  /\ \A i \in {now'["config"]} \cup old'["config"] : GoodEntry(i)'
                     /\ job' \in {"autostart", "config"} => next' \in tried'
  BY DEF CommitInv
<1>1. \A i \in {now["config"]} \cup old["config"] : GoodEntry(i)
  BY DEF CommitInv
<1>2. \A i : GoodEntry(i) => GoodEntry(i)'
  BY DEF GoodEntry, Accepted
<1>3. job \in {"autostart", "config"} => next \in tried
  BY DEF CommitInv
<1>. QED  BY <1>1, <1>2, <1>3

\* The interface starts.
LEMMA StartInv == IInv /\ StartUi => IInv'
<1>. SUFFICES ASSUME IInv, StartUi PROVE IInv'
  OBVIOUS
<1>1. /\ now'["config"] = now["config"]
      /\ now' \in [Path -> Inode \cup {NoFile}]
      /\ \A p \in Path : now'[p] \in {now[p], NoFile}
  <2>1. PICK reused \in BOOLEAN :
          now' = IF reused THEN now
                 ELSE [p \in Path |->
                       IF p \in {"config_tmp", "autostart_tmp"} THEN NoFile ELSE now[p]]
    BY DEF StartUi
  <2>2. CASE reused
    BY <2>1, <2>2 DEF IInv, DiskInv
  <2>3. CASE ~reused
    BY <2>1, <2>3 DEF IInv, DiskInv, Path
  <2>. QED  BY <2>2, <2>3
<1>2. DiskInv'
  BY <1>1, DiskKept, AllowedNoFile DEF IInv, DiskInv, StartUi
<1>3. Loaded \in AppConfig
  BY DefaultIsConfig DEF Loaded, Decodes
<1>4. VarTypes' /\ CountTypes'
  BY <1>3 DEF StartUi, IInv, VarTypes, CountTypes, Points, counts, history
<1>5. PhaseInv'
  BY DEF StartUi, IInv, PhaseInv
<1>6. CommitInv'
  BY <1>1, CommitKept DEF StartUi, IInv, counts, history, PhaseInv
<1>. QED  BY <1>2, <1>4, <1>5, <1>6 DEF IInv

\* A save begins.
LEMMA SaveInv == IInv /\ SaveSettings => IInv'
<1>. SUFFICES ASSUME IInv, SaveSettings PROVE IInv'
  OBVIOUS
<1>1. PICK c \in AppConfig :
        /\ next' = c
        /\ tried' = tried \cup {c}
        /\ IF c.login # memory.login
           THEN SetEnabled(c.login) /\ job' = "autostart"
           ELSE BeginSave
  BY DEF SaveSettings
<1>2. UNCHANGED <<now, old>>
  BY DEF SaveSettings, disk
<1>3. \/ pc' \in {"write", "remove"} /\ job' = "autostart"
      \/ pc' = "write" /\ job' = "config"
      \/ pc' = "backup" /\ job' = "config" /\ Exists("config")
  BY <1>1 DEF SetEnabled, BeginSave
<1>4. DiskInv'
  BY <1>2 DEF IInv, DiskInv, Allowed
<1>5. VarTypes'
  BY <1>1, <1>3 DEF SaveSettings, IInv, VarTypes, Points
<1>6. CountTypes'
  BY StoreAssumption DEF SaveSettings, IInv, CountTypes
<1>7. PhaseInv'
  BY <1>2, <1>3 DEF PhaseInv, Exists
<1>8. CommitInv'
  BY <1>1, <1>2, CommitKept DEF SaveSettings, IInv
<1>. QED  BY <1>4, <1>5, <1>6, <1>7, <1>8 DEF IInv

\* What follows the end of an operation: a rollback, the save, or nothing.
Follows ==
    \/ pc' = "idle" /\ job' = "none"
    \/ pc' \in {"write", "remove"} /\ job' = "rollback"
    \/ pc' = "write" /\ job' = "config" /\ job = "autostart"
    \/ pc' = "backup" /\ job' = "config" /\ Exists("config") /\ job = "autostart"

\* An operation that fails is followed by a rollback or by nothing.
LEMMA FailsFollows ==
    ASSUME Fails PROVE Follows /\ UNCHANGED <<memory, committed, tried>>
BY DEF Fails, Follows, SetEnabled

\* A change of the entry that succeeds is followed by the save or by nothing.
LEMMA SucceedsFollows ==
    ASSUME Succeeds, job # "config"
    PROVE  Follows /\ UNCHANGED <<memory, committed, tried>>
BY DEF Succeeds, Follows, BeginSave

\* What follows needs nothing of the disk but the configuration it backs up.
LEMMA FollowsPhase ==
    ASSUME Follows, Exists("config") => Exists("config")'
    PROVE  PhaseInv'
<1>1. Exists("config") => Exists("config")'
  OBVIOUS
<1>. QED  BY <1>1 DEF Follows, PhaseInv

\* Going on within an operation keeps the variables but pc.
LEMMA GoOnTypes ==
    ASSUME VarTypes, CountTypes, NEW point \in Points, GoOn(point), Steady
    PROVE  VarTypes' /\ CountTypes'
BY DEF VarTypes, CountTypes, GoOn, Steady, counts

\* The three steps of the backup touch nothing but the backup.
LEMMA BackupInv == IInv /\ (TruncateBackup \/ FillBackup \/ SyncBackup) => IInv'
<1>. SUFFICES ASSUME IInv, TruncateBackup \/ FillBackup \/ SyncBackup
              PROVE  IInv'
  OBVIOUS
<1>1. now["config"] \in [text : AppConfig \cup {Bad}, synced : BOOLEAN]
      /\ TextOf("config") \in AppConfig \cup {Bad}
  BY DEF IInv, PhaseInv, DiskInv, Allowed, Path, Exists, TextOf,
         TruncateBackup, FillBackup, SyncBackup
<1>2. \E point \in {"fill", "sync_backup", "write"} :
        GoOn(point) /\ Steady /\ (point \in {"fill", "sync_backup"} <=> pc # "sync_backup")
  BY DEF TruncateBackup, FillBackup, SyncBackup
<1>3. \E i \in Allowed("previous") :
        /\ i # NoFile
        /\ now' = [now EXCEPT !["previous"] = i]
        /\ \/ old' = old
           \/ old' = [old EXCEPT !["previous"] = @ \cup {NoFile}]
  <2>1. CASE TruncateBackup
    <3>1. PICK t \in CutShort(TextOf("config")) : Overwrite("previous", t)
      BY <2>1 DEF TruncateBackup
    <3>2. t \in AppConfig \cup {Bad}
      BY <3>1, CutShortTexts
    <3>3. [text |-> t, synced |-> FALSE] \in Allowed("previous")
          /\ [text |-> t, synced |-> FALSE] # NoFile
      BY <3>2, InodeExists DEF Allowed, Text
    <3>4. \/ old' = [old EXCEPT !["previous"] = @]
          \/ old' = [old EXCEPT !["previous"] = @ \cup {NoFile}]
      BY <3>1 DEF Overwrite
    <3>5. [old EXCEPT !["previous"] = @] = old
      BY DEF IInv, DiskInv
    <3>. QED  BY <3>1, <3>3, <3>4, <3>5 DEF Overwrite
  <2>2. CASE FillBackup \/ SyncBackup
    <3>1. now["previous"] \in [text : AppConfig \cup {Bad}, synced : BOOLEAN]
      BY <2>2 DEF IInv, PhaseInv, DiskInv, Allowed, Path, Exists, FillBackup, SyncBackup
    <3>2. CASE FillBackup
      <4>. DEFINE i == [now["previous"] EXCEPT !.text = TextOf("config")]
      <4>1. i \in [text : AppConfig \cup {Bad}, synced : BOOLEAN]
        BY <1>1, <3>1
      <4>2. i \in Allowed("previous") /\ i # NoFile
        BY <4>1, InodeExists DEF Allowed, Text
      <4>. QED  BY <3>2, <4>2 DEF FillBackup
    <3>3. CASE SyncBackup
      <4>. DEFINE i == [now["previous"] EXCEPT !.synced = TRUE]
      <4>1. i \in [text : AppConfig \cup {Bad}, synced : BOOLEAN]
        BY <3>1
      <4>2. i \in Allowed("previous") /\ i # NoFile
        BY <4>1, InodeExists DEF Allowed, Text
      <4>. QED  BY <3>3, <4>2 DEF SyncBackup
    <3>. QED  BY <2>2, <3>2, <3>3
  <2>. QED  BY <2>1, <2>2
<1>4. DiskInv'
  BY <1>3, OneEntry DEF IInv, Path
<1>5. VarTypes' /\ CountTypes'
  BY <1>2, GoOnTypes DEF IInv, Points
<1>6. now'["config"] = now["config"] /\ now'["previous"] # NoFile
      /\ old'["config"] = old["config"]
  BY <1>3 DEF IInv, DiskInv, Path
<1>7. job = "config" /\ Exists("config")
  BY DEF IInv, PhaseInv, TruncateBackup, FillBackup, SyncBackup
<1>8. PhaseInv'
  BY <1>2, <1>6, <1>7 DEF PhaseInv, GoOn, Exists
<1>9. CommitInv'
  BY <1>2, <1>6, CommitKept DEF IInv, GoOn, Steady, counts
<1>. QED  BY <1>4, <1>5, <1>8, <1>9 DEF IInv

\* The temporary file is written.
LEMMA WriteInv == IInv /\ WriteTemporary => IInv'
<1>. SUFFICES ASSUME IInv, WriteTemporary PROVE IInv'
  OBVIOUS
<1>1. job # "none"
  BY DEF IInv, PhaseInv, WriteTemporary
<1>. DEFINE t == Temporary(File)
<1>2. /\ t \in Path /\ t \in {"config_tmp", "autostart_tmp"}
      /\ [text |-> NewText, synced |-> FALSE] \in Allowed(t)
  BY <1>1, TemporaryPath DEF IInv
<1>3. /\ now' = [now EXCEPT ![t] = [text |-> NewText, synced |-> FALSE]]
      /\ old' = [old EXCEPT ![t] = @ \cup {now[t]}]
      /\ GoOn("sync") /\ Steady
  BY DEF WriteTemporary, Relink
<1>4. DiskInv'
  BY <1>2, <1>3, OneEntry DEF IInv
<1>5. VarTypes' /\ CountTypes'
  BY <1>3, GoOnTypes DEF IInv, Points
<1>6. now'["config"] = now["config"] /\ old'["config"] = old["config"]
      /\ now'[t] = [text |-> NewText, synced |-> FALSE]
  BY <1>2, <1>3 DEF IInv, DiskInv, Path
<1>7. t' = t /\ NewText' = NewText
  BY <1>3 DEF GoOn, Steady, File, NewText, Temporary
<1>8. PhaseInv'
  BY <1>1, <1>3, <1>6, <1>7 DEF PhaseInv, GoOn
<1>9. CommitInv'
  BY <1>3, <1>6, CommitKept DEF IInv, GoOn, Steady, counts
<1>. QED  BY <1>4, <1>5, <1>8, <1>9 DEF IInv

\* It is synced.
LEMMA SyncInv == IInv /\ SyncTemporary => IInv'
<1>. SUFFICES ASSUME IInv, SyncTemporary PROVE IInv'
  OBVIOUS
<1>1. job # "none"
  BY DEF IInv, PhaseInv, SyncTemporary
<1>. DEFINE t == Temporary(File)
<1>2. /\ t \in Path /\ t \in {"config_tmp", "autostart_tmp"}
      /\ [text |-> NewText, synced |-> TRUE] \in Allowed(t)
      /\ now[t] = [text |-> NewText, synced |-> FALSE]
  BY <1>1, TemporaryPath DEF IInv, PhaseInv, SyncTemporary
<1>3. /\ now' = [now EXCEPT ![t] = [text |-> NewText, synced |-> TRUE]]
      /\ old' = old
      /\ GoOn("rename") /\ Steady
  <2>1. now' = [now EXCEPT ![t] = [now[t] EXCEPT !.synced = TRUE]]
    BY DEF SyncTemporary
  <2>2. [now[t] EXCEPT !.synced = TRUE] = [text |-> NewText, synced |-> TRUE]
    <3>1. now[t] \in [text : {NewText}, synced : BOOLEAN]
      BY <1>2
    <3>. DEFINE r == [now[t] EXCEPT !.synced = TRUE]
    <3>2. r \in [text : {NewText}, synced : BOOLEAN] /\ r.text = NewText /\ r.synced = TRUE
      BY <3>1
    <3>. HIDE DEF r
    <3>3. r = [text |-> r.text, synced |-> r.synced]
      BY <3>2
    <3>4. r = [text |-> NewText, synced |-> TRUE]
      BY <3>2, <3>3
    <3>. QED  BY <3>4 DEF r
  <2>3. now' = [now EXCEPT ![t] = [text |-> NewText, synced |-> TRUE]]
    BY <2>1, <2>2
  <2>. QED  BY <2>3 DEF SyncTemporary
<1>4. DiskInv'
  BY <1>2, <1>3, OneEntry DEF IInv
<1>5. VarTypes' /\ CountTypes'
  BY <1>3, GoOnTypes DEF IInv, Points
<1>6. now'["config"] = now["config"] /\ old'["config"] = old["config"]
      /\ now'[t] = [text |-> NewText, synced |-> TRUE]
  BY <1>2, <1>3 DEF IInv, DiskInv, Path
<1>7. t' = t /\ NewText' = NewText
  BY <1>3 DEF GoOn, Steady, File, NewText, Temporary
<1>8. PhaseInv'
  BY <1>1, <1>3, <1>6, <1>7 DEF PhaseInv, GoOn
<1>9. CommitInv'
  BY <1>3, <1>6, CommitKept DEF IInv, GoOn, Steady, counts
<1>. QED  BY <1>4, <1>5, <1>8, <1>9 DEF IInv

\* It takes the place of the file: complete, and one the user asked for.
LEMMA RenameInv == IInv /\ Rename => IInv'
<1>. SUFFICES ASSUME IInv, Rename PROVE IInv'
  OBVIOUS
<1>1. job # "none"
  BY DEF IInv, PhaseInv, Rename
<1>. DEFINE t == Temporary(File)
            i == [text |-> NewText, synced |-> TRUE]
<1>2. /\ t \in Path /\ File \in Path /\ t # File /\ t \in {"config_tmp", "autostart_tmp"}
      /\ i \in Allowed(File)
      /\ now[t] = i
  BY <1>1, TemporaryPath DEF IInv, PhaseInv, Rename
<1>3. /\ now' = [now EXCEPT ![File] = i, ![t] = NoFile]
      /\ old' = [old EXCEPT ![File] = @ \cup {now[File]}, ![t] = @ \cup {i}]
      /\ GoOn("sync_directory") /\ Steady
  BY <1>2 DEF Rename
<1>4. /\ now'[File] = i /\ now'[t] = NoFile
      /\ \A p \in Path \ {File, t} : now'[p] = now[p]
      /\ old'[File] = old[File] \cup {now[File]} /\ old'[t] = old[t] \cup {i}
      /\ \A p \in Path \ {File, t} : old'[p] = old[p]
  BY <1>2, <1>3 DEF IInv, DiskInv
<1>5. \A p \in Path : now'[p] \in Allowed(p)
  BY <1>2, <1>4, AllowedNoFile DEF IInv, DiskInv
<1>6. now' \in [Path -> Inode \cup {NoFile}]
  <2>1. i \in Inode \cup {NoFile}
    BY <1>2, AllowedInodes
  <2>. QED  BY <1>2, <1>3, <2>1 DEF IInv, DiskInv
<1>7. old' \in [Path -> SUBSET (Inode \cup {NoFile})]
  <2>1. i \in Inode \cup {NoFile} /\ now[File] \in Inode \cup {NoFile}
    BY <1>2, AllowedInodes DEF IInv, DiskInv
  <2>. QED  BY <1>2, <1>3, <2>1 DEF IInv, DiskInv
<1>8. DiskInv'
  <2>1. \A p \in Path : old'[p] \subseteq old[p] \cup {now[p], NoFile}
    <3>. SUFFICES ASSUME NEW p \in Path PROVE old'[p] \subseteq old[p] \cup {now[p], NoFile}
      OBVIOUS
    <3>1. CASE p = File
      BY <1>4, <3>1
    <3>2. CASE p = t
      BY <1>2, <1>4, <3>2
    <3>3. CASE p \notin {File, t}
      BY <1>4, <3>3
    <3>. QED  BY <3>1, <3>2, <3>3
  <2>. QED  BY <1>5, <1>6, <1>7, <2>1, DiskKept DEF IInv
<1>9. VarTypes' /\ CountTypes'
  BY <1>3, GoOnTypes DEF IInv, Points
<1>10. File' = File /\ NewText' = NewText
  BY <1>3 DEF GoOn, Steady, File, NewText
<1>11. PhaseInv'
  <2>1. pc' = "sync_directory" /\ job' = job /\ job # "none" /\ next' = next
    BY <1>1, <1>3 DEF GoOn, Steady
  <2>2. job = "config" => now'["config"] = [text |-> next, synced |-> TRUE]
    BY <1>4, <1>1 DEF File, NewText
  <2>. QED  BY <2>1, <2>2 DEF PhaseInv
<1>12. CommitInv'
  <2>1. CASE job = "config"
    <3>1. File = "config" /\ NewText = next
      BY <2>1 DEF File, NewText
    <3>. SUFFICES ASSUME corruptions = 0
                  PROVE  /\ \A j \in {now'["config"]} \cup old'["config"] : GoodEntry(j)'
                         /\ job' \in {"autostart", "config"} => next' \in tried'
      BY <1>3 DEF CommitInv, Steady, counts
    <3>2. next \in tried /\ \A j \in {now["config"]} \cup old["config"] : GoodEntry(j)
      BY <2>1 DEF IInv, CommitInv
    <3>3. \A j : GoodEntry(j) => GoodEntry(j)'
      BY <1>3 DEF GoodEntry, Accepted, GoOn
    <3>4. i # NoFile
      <4>1. next \in Text
        BY DEF IInv, VarTypes, Text
      <4>. QED  BY <3>1, <4>1, InodeExists
    <3>5. GoodEntry(i)
      BY <3>1, <3>2, <3>4 DEF GoodEntry, Accepted
    <3>6. now'["config"] = i /\ old'["config"] = old["config"] \cup {now["config"]}
      BY <1>4, <3>1
    <3>7. \A j \in {now'["config"]} \cup old'["config"] : GoodEntry(j)'
      BY <3>2, <3>3, <3>5, <3>6
    <3>8. next' = next /\ tried' = tried
      BY <1>3 DEF GoOn, Steady
    <3>. QED  BY <3>2, <3>7, <3>8
  <2>2. CASE job # "config"
    <3>1. File # "config"
      BY <2>2 DEF File
    <3>. QED  BY <1>2, <1>3, <1>4, <3>1, CommitKept DEF IInv, GoOn, Steady, counts, Path
  <2>. QED  BY <2>1, <2>2
<1>. QED  BY <1>8, <1>9, <1>11, <1>12 DEF IInv

\* The directory is synced: older entries are gone for good, and the save of the
\* configuration is reported.
LEMMA SyncDirectoryInv == IInv /\ SyncDirectory => IInv'
<1>. SUFFICES ASSUME IInv, SyncDirectory PROVE IInv'
  OBVIOUS
<1>1. /\ now' = now
      /\ old' = [p \in Path |-> IF p \in Directory(File) THEN {} ELSE old[p]]
      /\ pc = "sync_directory" /\ job # "none" /\ Succeeds /\ Steady
  BY DEF IInv, PhaseInv, SyncDirectory
<1>2. DiskInv'
  BY <1>1 DEF IInv, DiskInv, Allowed
<1>3. CountTypes'
  BY <1>1 DEF IInv, CountTypes, Steady, counts
<1>4. CASE job = "config"
  <2>1. /\ pc' = "idle" /\ job' = "none" /\ memory' = next
        /\ committed' = next /\ tried' = {}
    BY <1>1, <1>4 DEF Succeeds
  <2>2. VarTypes'
    BY <1>1, <2>1 DEF IInv, VarTypes, Steady, Points
  <2>3. PhaseInv'
    BY <2>1 DEF PhaseInv
  <2>4. now'["config"] = [text |-> next, synced |-> TRUE] /\ old'["config"] = {}
    BY <1>1, <1>4 DEF IInv, PhaseInv, File, NewText, Directory, Path
  <2>5. now'["config"] # NoFile
    BY <2>4, InodeExists DEF IInv, VarTypes, Text
  <2>6. \A j : j = now'["config"] => GoodEntry(j)'
    BY <2>1, <2>4, <2>5 DEF GoodEntry, Accepted
  <2>7. CommitInv'
    BY <2>1, <2>4, <2>6 DEF CommitInv
  <2>. QED  BY <1>2, <1>3, <2>2, <2>3, <2>7 DEF IInv
<1>5. CASE job # "config"
  <2>1. Follows /\ UNCHANGED <<memory, committed, tried>>
    BY <1>1, <1>5, SucceedsFollows
  <2>2. VarTypes'
    BY <1>1, <2>1 DEF IInv, VarTypes, Steady, Points, Follows
  <2>3. PhaseInv'
    BY <1>1, <2>1, FollowsPhase DEF Exists
  <2>4. now'["config"] = now["config"] /\ old'["config"] \subseteq old["config"]
    BY <1>1 DEF Path
  <2>5. CommitInv'
    BY <1>1, <2>1, <2>4, CommitKept DEF IInv, Follows, Steady, counts
  <2>. QED  BY <1>2, <1>3, <2>2, <2>3, <2>5 DEF IInv
<1>. QED  BY <1>4, <1>5

\* Once its marker is found the entry will be removed.
LEMMA MarkerInv == IInv /\ FindMarker => IInv'
<1>. SUFFICES ASSUME IInv, FindMarker PROVE IInv'
  OBVIOUS
<1>1. UNCHANGED <<now, old, job, next, counts, committed, tried>> /\ pc' = "unlink"
  BY DEF FindMarker, GoOn, Steady, disk
<1>2. DiskInv'
  BY <1>1 DEF IInv, DiskInv, Allowed
<1>3. VarTypes' /\ CountTypes'
  BY GoOnTypes DEF IInv, FindMarker, Points
<1>4. PhaseInv'
  BY <1>1 DEF IInv, PhaseInv, FindMarker
<1>5. CommitInv'
  BY <1>1 DEF IInv, CommitInv, GoodEntry, Accepted, counts
<1>. QED  BY <1>2, <1>3, <1>4, <1>5 DEF IInv

\* The entry is removed, was not there, or is refused.
LEMMA RemoveInv == IInv /\ (RemoveEntry \/ NothingToRemove \/ RefuseForeign) => IInv'
<1>. SUFFICES ASSUME IInv, RemoveEntry \/ NothingToRemove \/ RefuseForeign
              PROVE  IInv'
  OBVIOUS
<1>1. job # "config" /\ Steady
  BY DEF IInv, PhaseInv, RemoveEntry, NothingToRemove, RefuseForeign
<1>2. Follows /\ UNCHANGED <<memory, committed, tried>>
  BY <1>1, SucceedsFollows, FailsFollows DEF RemoveEntry, NothingToRemove, RefuseForeign
<1>3. \/ now' = now /\ old' = old
      \/ /\ now' = [now EXCEPT !["autostart"] = NoFile]
         /\ old' = [old EXCEPT !["autostart"] = @ \cup {now["autostart"]}]
  BY DEF RemoveEntry, NothingToRemove, RefuseForeign, Relink, disk
<1>4. DiskInv'
  <2>1. CASE now' = now /\ old' = old
    BY <2>1 DEF IInv, DiskInv, Allowed
  <2>2. CASE /\ now' = [now EXCEPT !["autostart"] = NoFile]
             /\ old' = [old EXCEPT !["autostart"] = @ \cup {now["autostart"]}]
    BY <2>2, OneEntry, AllowedNoFile DEF IInv, Path
  <2>. QED  BY <1>3, <2>1, <2>2
<1>5. now'["config"] = now["config"] /\ old'["config"] = old["config"]
  BY <1>3 DEF IInv, DiskInv, Path
<1>6. VarTypes' /\ CountTypes'
  BY <1>1, <1>2 DEF IInv, VarTypes, CountTypes, Steady, counts, Points, Follows
<1>7. PhaseInv'
  BY <1>2, <1>5, FollowsPhase DEF Exists
<1>8. CommitInv'
  BY <1>1, <1>2, <1>5, CommitKept DEF IInv, Follows, Steady, counts
<1>. QED  BY <1>4, <1>6, <1>7, <1>8 DEF IInv

\* A failed operation leaves the disk, but for a temporary file.
LEMMA FailureInv == IInv /\ OperationFails => IInv'
<1>. SUFFICES ASSUME IInv, OperationFails PROVE IInv'
  OBVIOUS
<1>1. job # "none"
  BY DEF IInv, PhaseInv, OperationFails
<1>. DEFINE t == Temporary(File)
<1>2. t \in Path /\ t \in {"config_tmp", "autostart_tmp"}
  BY <1>1, TemporaryPath DEF IInv
<1>3. Follows /\ UNCHANGED <<memory, committed, tried>>
  BY FailsFollows DEF OperationFails
<1>4. \/ now' = now /\ old' = old
      \/ /\ now' = [now EXCEPT ![t] = NoFile]
         /\ old' = [old EXCEPT ![t] = @ \cup {now[t]}]
  BY DEF OperationFails, Relink, disk
<1>5. DiskInv'
  <2>1. CASE now' = now /\ old' = old
    BY <2>1 DEF IInv, DiskInv, Allowed
  <2>2. CASE /\ now' = [now EXCEPT ![t] = NoFile]
             /\ old' = [old EXCEPT ![t] = @ \cup {now[t]}]
    BY <1>2, <2>2, OneEntry, AllowedNoFile DEF IInv
  <2>. QED  BY <1>4, <2>1, <2>2
<1>6. now'["config"] = now["config"] /\ old'["config"] = old["config"]
  BY <1>2, <1>4 DEF IInv, DiskInv, Path
<1>7. VarTypes'
  BY <1>3 DEF IInv, VarTypes, OperationFails, Points, Follows
<1>8. CountTypes'
  BY StoreAssumption DEF IInv, CountTypes, OperationFails
<1>9. PhaseInv'
  BY <1>3, <1>6, FollowsPhase DEF Exists
<1>10. CommitInv'
  BY <1>3, <1>6, CommitKept DEF IInv, Follows, OperationFails
<1>. QED  BY <1>5, <1>7, <1>8, <1>9, <1>10 DEF IInv

\* A killed process leaves the disk as it is.
LEMMA KilledInv == IInv /\ Killed => IInv'
<1>. SUFFICES ASSUME IInv, Killed PROVE IInv'
  OBVIOUS
<1>1. DiskInv'
  BY DEF IInv, DiskInv, Allowed, Killed, disk
<1>2. VarTypes'
  BY DEF IInv, VarTypes, Killed, history, Points
<1>3. CountTypes'
  BY StoreAssumption DEF IInv, CountTypes, Killed
<1>4. PhaseInv'
  BY DEF PhaseInv, Killed
<1>5. CommitInv'
  BY CommitKept DEF IInv, Killed, disk, history
<1>. QED  BY <1>1, <1>2, <1>3, <1>4, <1>5 DEF IInv

\* After a power cut a path names what it may name then.
LEMMA PowerCutChoice ==
    ASSUME PowerCut
    PROVE  now' = [p \in Path |-> now'[p]] /\ \A p \in Path : now'[p] \in AfterCut(p)
<1>1. PICK a \in AfterCut("config"), b \in AfterCut("previous"), c \in AfterCut("config_tmp"),
           d \in AfterCut("autostart"), e \in AfterCut("autostart_tmp") :
        now' = [p \in Path |->
                  CASE p = "config" -> a [] p = "previous" -> b [] p = "config_tmp" -> c
                    [] p = "autostart" -> d [] p = "autostart_tmp" -> e]
  BY DEF PowerCut
<1>2. /\ now'["config"] = a /\ now'["previous"] = b /\ now'["config_tmp"] = c
      /\ now'["autostart"] = d /\ now'["autostart_tmp"] = e
  BY <1>1 DEF Path
<1>3. \A p \in Path : now'[p] \in AfterCut(p)
  BY <1>2 DEF Path
<1>. DEFINE G(p) == CASE p = "config" -> a [] p = "previous" -> b [] p = "config_tmp" -> c
                      [] p = "autostart" -> d [] p = "autostart_tmp" -> e
<1>4. now' = [p \in Path |-> G(p)]
  BY <1>1
<1>. HIDE DEF G
<1>5. now' = [p \in Path |-> now'[p]]
  BY <1>4
<1>. QED  BY <1>3, <1>5

\* After a power cut the configuration is one of its entries, none of which can
\* have been cut short.
LEMMA PowerCutInv == IInv /\ PowerCut => IInv'
<1>. SUFFICES ASSUME IInv, PowerCut PROVE IInv'
  OBVIOUS
<1>1. now' = [p \in Path |-> now'[p]] /\ \A p \in Path : now'[p] \in AfterCut(p)
  BY PowerCutChoice
<1>2. ASSUME NEW p \in Path
      PROVE  now'[p] \in Allowed(p) /\ now'[p] \in Inode \cup {NoFile}
  <2>1. PICK i \in {now[p]} \cup old[p] : now'[p] \in Survivors(i)
    BY <1>1 DEF AfterCut
  <2>2. i \in Allowed(p)
    BY <2>1 DEF IInv, DiskInv
  <2>. QED  BY <2>1, <2>2, SurvivorsAllowed
<1>3. now' \in [Path -> Inode \cup {NoFile}]
  BY <1>1, <1>2
<1>4. DiskInv'
  BY <1>2, <1>3, DiskKept DEF IInv, PowerCut
<1>5. VarTypes'
  BY DEF IInv, VarTypes, PowerCut, history, Points
<1>6. CountTypes'
  BY StoreAssumption DEF IInv, CountTypes, PowerCut
<1>7. PhaseInv'
  BY DEF PhaseInv, PowerCut
<1>8. CommitInv'
  <2>. SUFFICES ASSUME corruptions = 0
                PROVE  \A j : j = now'["config"] => GoodEntry(j)'
    BY DEF CommitInv, PowerCut, Path
  <2>1. PICK i \in {now["config"]} \cup old["config"] : now'["config"] \in Survivors(i)
    BY <1>1 DEF AfterCut, Path
  <2>2. GoodEntry(i)
    BY <2>1 DEF IInv, CommitInv
  <2>3. now'["config"] = i
    <3>1. CASE i = NoFile
      BY <2>1, <3>1 DEF Survivors
    <3>2. CASE i # NoFile
      <4>1. i.synced = TRUE
        BY <2>2, <3>2 DEF GoodEntry
      <4>2. i \in [text : AppConfig \cup {Bad}, synced : BOOLEAN]
        BY <2>1, <3>2 DEF IInv, DiskInv, Allowed, Path
      <4>3. Survivors(i) = {[text |-> i.text, synced |-> TRUE]}
        BY <3>2, <4>1 DEF Survivors
      <4>. QED  BY <2>1, <4>1, <4>2, <4>3
    <3>. QED  BY <3>1, <3>2
  <2>. QED  BY <2>2, <2>3 DEF GoodEntry, Accepted, PowerCut, history
<1>. QED  BY <1>4, <1>5, <1>6, <1>7, <1>8 DEF IInv

\* Damage by others ends what is promised of the configuration, no more.
LEMMA CorruptedInv == IInv /\ Corrupted => IInv'
<1>. SUFFICES ASSUME IInv, Corrupted PROVE IInv'
  OBVIOUS
<1>1. [text |-> Bad, synced |-> TRUE] \in Allowed("config")
  BY DEF Allowed
<1>2. DiskInv'
  BY <1>1, OneEntry DEF IInv, Corrupted, Path
<1>3. VarTypes'
  BY DEF IInv, VarTypes, Corrupted, Decodes
<1>4. CountTypes'
  BY StoreAssumption DEF IInv, CountTypes, Corrupted
<1>5. PhaseInv'
  BY DEF IInv, PhaseInv, Corrupted
<1>6. corruptions' # 0
  BY StoreAssumption DEF IInv, CountTypes, Corrupted
<1>7. CommitInv'
  BY <1>6 DEF CommitInv
<1>. QED  BY <1>2, <1>3, <1>4, <1>5, <1>7 DEF IInv

\* An entry of somebody else is one the entry's path may hold.
LEMMA ReplacedInv == IInv /\ EntryReplaced => IInv'
<1>. SUFFICES ASSUME IInv, EntryReplaced PROVE IInv'
  OBVIOUS
<1>1. [text |-> Foreign, synced |-> TRUE] \in Allowed("autostart")
  BY DEF Allowed
<1>2. now' \in [Path -> Inode \cup {NoFile}] /\ \A q \in Path : now'[q] \in Allowed(q)
  BY <1>1, AllowedInodes DEF IInv, DiskInv, EntryReplaced, Path
<1>3. old' \in [Path -> SUBSET (Inode \cup {NoFile})]
      /\ \A q \in Path : old'[q] \subseteq old[q]
  BY DEF IInv, DiskInv, EntryReplaced
<1>4. DiskInv'
  BY <1>2, <1>3, DiskKept DEF IInv
<1>5. VarTypes' /\ CountTypes'
  BY StoreAssumption DEF IInv, VarTypes, CountTypes, EntryReplaced, history
<1>6. PhaseInv'
  <2>1. /\ UNCHANGED <<pc, job, next>>
        /\ \A p \in Path \ {"autostart"} : now'[p] = now[p]
    BY DEF EntryReplaced, IInv, DiskInv
  <2>2. Temporary(File)' = Temporary(File) /\ NewText' = NewText
    BY <2>1 DEF Temporary, File, NewText
  <2>3. Temporary(File) \in Path \ {"autostart"}
    BY DEF Temporary, Path
  <2>4. now'["config"] = now["config"] /\ now'["previous"] = now["previous"]
        /\ now'[Temporary(File)] = now[Temporary(File)]
    BY <2>1, <2>3 DEF Path
  <2>. QED  BY <2>1, <2>2, <2>4, Zenon DEF IInv, PhaseInv, Exists
<1>7. CommitInv'
  BY StoreAssumption DEF IInv, CountTypes, CommitInv, EntryReplaced
<1>. QED  BY <1>4, <1>5, <1>6, <1>7 DEF IInv

\* Every step keeps the invariant.
LEMMA NextIInv == IInv /\ [StoreNext]_storeVars => IInv'
<1>1. ASSUME IInv, UNCHANGED storeVars PROVE IInv'
  BY ZenonT(60), <1>1 DEF storeVars, counts, history, IInv, DiskInv, VarTypes, CountTypes, PhaseInv,
              CommitInv, Allowed, Exists, File, NewText, Temporary, GoodEntry, Accepted
<1>. QED
  BY <1>1, StartInv, SaveInv, BackupInv, WriteInv, SyncInv, RenameInv,
     SyncDirectoryInv, MarkerInv, RemoveInv, FailureInv, KilledInv, PowerCutInv, CorruptedInv,
     ReplacedInv
     DEF StoreNext

-----------------------------------------------------------------------------
(* The autostart entry and the temporary files. *)

\* Between the start of the program and the end of the first rollback the entry is
\* where the operation at hand has brought it.
Scope == kills = 0 /\ cuts = 0 /\ corruptions = 0 /\ late = FALSE /\ failures \in {0, 1}

Installed == TextOf("autostart") = Managed

EntryMatches ==
    /\ pc = "down" => (Installed <=> Loaded.login)
    /\ pc = "idle" => (Installed <=> memory.login)
    /\ job = "autostart" =>
        /\ Changed
        /\ pc = "sync_directory" => Installed /\ next.login
        /\ pc # "sync_directory" =>
            (Installed <=> memory.login) /\ (pc \in {"remove", "unlink"} <=> memory.login)
    /\ job = "config" => (Installed <=> next.login)
    /\ job = "rollback" =>
        /\ failures = 1
        /\ Changed
        /\ pc = "sync_directory" => Installed /\ memory.login
        /\ pc # "sync_directory" =>
            (Installed <=> next.login) /\ (pc \in {"remove", "unlink"} <=> ~memory.login)

EntryInv == Scope => EntryMatches

\* A temporary file exists while the operation that renames it is at work.
TemporaryInv ==
    kills = 0 /\ cuts = 0 =>
        \A p \in {"config_tmp", "autostart_tmp"} :
            Exists(p) => pc \in {"sync", "rename"} /\ p = Temporary(File)

\* The entry changes by a rename, by a removal, by a power cut and by somebody else.
LEMMA EntryStays ==
    ASSUME IInv, StoreNext, ~PowerCut, ~EntryReplaced, ~RemoveEntry, Rename => job = "config"
    PROVE  /\ now'["autostart"] = now["autostart"]
           /\ old'["autostart"] \subseteq old["autostart"]
<1>1. CASE StartUi
  <2>1. PICK reused \in BOOLEAN :
          now' = IF reused THEN now
                 ELSE [p \in Path |->
                       IF p \in {"config_tmp", "autostart_tmp"} THEN NoFile ELSE now[p]]
    BY <1>1 DEF StartUi
  <2>2. now'["autostart"] = now["autostart"]
    BY <2>1 DEF Path
  <2>. QED
    BY <1>1, <2>2 DEF StartUi
<1>2. CASE SaveSettings \/ FindMarker \/ NothingToRemove \/ RefuseForeign \/ Killed
  BY <1>2 DEF SaveSettings, FindMarker, NothingToRemove, RefuseForeign, Killed, disk
<1>3. CASE TruncateBackup \/ FillBackup \/ SyncBackup
  BY <1>3 DEF TruncateBackup, FillBackup, SyncBackup, Overwrite, IInv, DiskInv, Path
<1>4. CASE WriteTemporary \/ SyncTemporary \/ OperationFails
  <2>1. job # "none"
    BY <1>4 DEF IInv, PhaseInv, WriteTemporary, SyncTemporary, OperationFails
  <2>2. Temporary(File) \in Path \ {"autostart"}
    BY <2>1, TemporaryPath DEF IInv
  <2>3. /\ \/ now' = now
           \/ \E i : now' = [now EXCEPT ![Temporary(File)] = i]
        /\ \/ old' = old
           \/ \E i : old' = [old EXCEPT ![Temporary(File)] = i]
    <3>1. CASE WriteTemporary
      BY <3>1 DEF WriteTemporary, Relink
    <3>2. CASE SyncTemporary
      BY <3>2 DEF SyncTemporary
    <3>3. CASE OperationFails
      BY <3>3 DEF OperationFails, Relink, disk
    <3>. QED
      BY <1>4, <3>1, <3>2, <3>3
  <2>. QED
    BY <2>2, <2>3 DEF IInv, DiskInv, Path
<1>5. CASE Rename
  BY <1>5 DEF Rename, File, Temporary, IInv, DiskInv, Path
<1>6. CASE SyncDirectory
  BY <1>6 DEF SyncDirectory, Path
<1>7. CASE Corrupted
  BY <1>7 DEF Corrupted, IInv, DiskInv, Path
<1>. QED
  BY <1>1, <1>2, <1>3, <1>4, <1>5, <1>6, <1>7 DEF StoreNext

\* A rename of the entry installs ours.
LEMMA RenameInstalls ==
    ASSUME IInv, Rename, job # "config"
    PROVE  now'["autostart"] = [text |-> Managed, synced |-> TRUE] /\ TextOf("autostart")' = Managed
<1>1. now[Temporary(File)] = [text |-> Managed, synced |-> TRUE] /\ File = "autostart"
  BY DEF IInv, PhaseInv, Rename, File, NewText
<1>2. now'["autostart"] = [text |-> Managed, synced |-> TRUE]
  BY <1>1 DEF Rename, IInv, DiskInv, Path, Temporary
<1>3. now'["autostart"] # NoFile
  BY <1>2, InodeExists DEF Text
<1>. QED
  BY <1>2, <1>3 DEF TextOf, Exists

\* After a removal there is no entry.
LEMMA RemoveRemoves ==
    ASSUME IInv, RemoveEntry
    PROVE  TextOf("autostart")' = NoFile
BY DEF RemoveEntry, Relink, IInv, DiskInv, Path, TextOf, Exists

\* Kills, power cuts and damage are counted, and so are failures.
LEMMA ScopeBefore ==
    ASSUME IInv, StoreNext
    PROVE  /\ kills' = 0 => kills = 0 /\ ~Killed
           /\ cuts' = 0 => cuts = 0 /\ ~PowerCut
           /\ corruptions' = 0 => corruptions = 0 /\ ~Corrupted /\ ~EntryReplaced
           /\ late' = FALSE => late = FALSE /\ (OperationFails => pc # "sync_directory")
           /\ failures' \in {0, 1} => failures \in {0, 1}
           /\ failures' \in {0, 1} /\ OperationFails => failures = 0 /\ failures' = 1
           /\ ~OperationFails => failures' = failures
<1>. USE StoreAssumption DEF IInv, CountTypes
<1>1. CASE StartUi
  BY <1>1 DEF StartUi, counts, history, Killed, PowerCut, Corrupted, EntryReplaced, OperationFails
<1>2. CASE SaveSettings
  BY <1>2 DEF SaveSettings, Killed, PowerCut, Corrupted, EntryReplaced, OperationFails
<1>3. CASE Steady
  BY <1>3 DEF Steady, counts, Killed, PowerCut, Corrupted, EntryReplaced, OperationFails
<1>4. CASE OperationFails
  <2>1. late' = (late \/ pc = "sync_directory") /\ late \in BOOLEAN
    BY <1>4 DEF OperationFails, VarTypes
  <2>2. late' = FALSE => late = FALSE /\ pc # "sync_directory"
    BY <2>1
  <2>3. failures \in Nat /\ failures' = failures + 1 /\ UNCHANGED <<kills, cuts, corruptions>>
    BY <1>4 DEF OperationFails
  <2>4. ~Killed /\ ~PowerCut /\ ~Corrupted /\ ~EntryReplaced
    BY <2>3 DEF Killed, PowerCut, Corrupted, EntryReplaced
  <2>. QED
    BY <1>4, <2>2, <2>3, <2>4
<1>5. CASE Killed
  BY <1>5 DEF Killed, history, PowerCut, Corrupted, EntryReplaced, OperationFails
<1>6. CASE PowerCut
  BY <1>6 DEF Killed, history, PowerCut, Corrupted, EntryReplaced, OperationFails
<1>7. CASE Corrupted \/ EntryReplaced
  BY <1>7 DEF Killed, history, PowerCut, Corrupted, EntryReplaced, OperationFails
<1>. QED
  BY <1>1, <1>2, <1>3, <1>4, <1>5, <1>6, <1>7
     DEF StoreNext, TruncateBackup, FillBackup, SyncBackup, WriteTemporary, SyncTemporary, Rename,
         SyncDirectory, FindMarker, RemoveEntry, NothingToRemove, RefuseForeign

\* A failure removes the temporary file of its operation, or there is none.
LEMMA FailureCleans ==
    ASSUME IInv, OperationFails
    PROVE  /\ pc \in {"sync", "rename"} => now'[Temporary(File)] = NoFile
           /\ \A p \in Path : now'[p] \in {now[p], NoFile}
<1>1. Temporary(File) \in Path
  BY TemporaryPath DEF IInv, PhaseInv, OperationFails
<1>. QED
  BY <1>1 DEF OperationFails, Relink, Exists, IInv, DiskInv, disk

\* Outside of the operation that renames it there is no temporary file.
LEMMA TemporaryKept ==
    ASSUME IInv, TemporaryInv, StoreNext
    PROVE  TemporaryInv'
<1>. DEFINE Tmp == {"config_tmp", "autostart_tmp"}
<1>. SUFFICES ASSUME kills' = 0, cuts' = 0, NEW p \in Tmp, now'[p] # NoFile
              PROVE  pc' \in {"sync", "rename"} /\ p = Temporary(File)'
  BY DEF TemporaryInv, Exists
<1>1. ~Killed /\ ~PowerCut
      /\ \A q \in Tmp : now[q] # NoFile => pc \in {"sync", "rename"} /\ q = Temporary(File)
  BY ScopeBefore DEF TemporaryInv, Exists
<1>2. CASE StartUi
  <2>1. now'[p] = now[p] \/ now'[p] = NoFile
    <3>1. PICK reused \in BOOLEAN :
            now' = IF reused THEN now
                   ELSE [q \in Path |->
                         IF q \in {"config_tmp", "autostart_tmp"} THEN NoFile ELSE now[q]]
      BY <1>2 DEF StartUi
    <3>. QED
      BY <3>1 DEF Path
  <2>. QED
    BY <1>1, <1>2, <2>1 DEF StartUi
<1>3. CASE SaveSettings \/ FindMarker \/ NothingToRemove \/ RefuseForeign \/ SyncDirectory
  BY <1>1, <1>3 DEF SaveSettings, FindMarker, NothingToRemove, RefuseForeign, SyncDirectory, disk
<1>4. CASE TruncateBackup \/ FillBackup \/ SyncBackup \/ RemoveEntry \/ Corrupted \/ EntryReplaced
  <2>1. now'[p] = now[p]
    BY <1>4 DEF TruncateBackup, FillBackup, SyncBackup, RemoveEntry, Corrupted, EntryReplaced,
                Overwrite, Relink, IInv, DiskInv, Path
  <2>2. CASE EntryReplaced
    <3>1. pc' = pc /\ Temporary(File)' = Temporary(File)
      BY <2>2 DEF EntryReplaced, Temporary, File
    <3>. QED
      BY <1>1, <2>1, <3>1
  <2>3. CASE ~EntryReplaced
    BY <1>1, <1>4, <2>1, <2>3 DEF TruncateBackup, FillBackup, SyncBackup, RemoveEntry, Corrupted
  <2>. QED
    BY <2>2, <2>3
<1>5. CASE WriteTemporary
  <2>1. Temporary(File)' = Temporary(File) /\ pc' = "sync"
    BY <1>5 DEF WriteTemporary, GoOn, File, Temporary
  <2>2. p # Temporary(File) => now'[p] = now[p]
    BY <1>5 DEF WriteTemporary, Relink, IInv, DiskInv, Path
  <2>. QED
    BY <1>1, <2>1, <2>2
<1>6. CASE SyncTemporary
  <2>1. Temporary(File)' = Temporary(File) /\ pc' = "rename"
    BY <1>6 DEF SyncTemporary, GoOn, File, Temporary
  <2>2. p # Temporary(File) => now'[p] = now[p]
    BY <1>6 DEF SyncTemporary, IInv, DiskInv, Path
  <2>. QED
    BY <1>1, <2>1, <2>2
<1>7. CASE Rename
  <2>1. File \notin Tmp /\ Temporary(File) \in Tmp
    BY DEF File, Temporary
  <2>2. p # Temporary(File) => now'[p] = now[p]
    BY <1>7, <2>1 DEF Rename, IInv, DiskInv, Path
  <2>3. now'[Temporary(File)] = NoFile
    BY <1>7, <2>1 DEF Rename, IInv, DiskInv, Path
  <2>. QED
    BY <1>1, <2>2, <2>3
<1>8. CASE OperationFails
  BY <1>1, <1>8, FailureCleans DEF Path
<1>. QED
  BY <1>1, <1>2, <1>3, <1>4, <1>5, <1>6, <1>7, <1>8 DEF StoreNext

\* In scope the steps that count something are out of the way, but for the first
\* failure.
LEMMA InScope ==
    ASSUME IInv, EntryInv, StoreNext, Scope'
    PROVE  /\ Scope /\ EntryMatches
           /\ ~Killed /\ ~PowerCut /\ ~Corrupted /\ ~EntryReplaced
           /\ OperationFails => failures = 0 /\ failures' = 1 /\ pc # "sync_directory"
           /\ ~OperationFails => failures' = failures
BY ScopeBefore DEF Scope, EntryInv

\* The entry follows the settings in memory, the operation at hand, or the rollback.
LEMMA EntryKept ==
    ASSUME IInv, EntryInv, StoreNext
    PROVE  EntryInv'
<1>. SUFFICES ASSUME Scope' PROVE EntryMatches'
  BY DEF EntryInv
<1>1. /\ EntryMatches
      /\ ~Killed /\ ~PowerCut /\ ~Corrupted /\ ~EntryReplaced
      /\ OperationFails => failures = 0 /\ failures' = 1 /\ pc # "sync_directory"
      /\ ~OperationFails => failures' = failures
  BY InScope
<1>2. ~RemoveEntry /\ (Rename => job = "config") => (Installed' <=> Installed)
  BY <1>1, EntryStays DEF Installed, TextOf, Exists
<1>3. PhaseInv /\ next.login \in BOOLEAN /\ memory.login \in BOOLEAN
  BY DEF IInv, VarTypes, AppConfig
<1>4. CASE StartUi
  <2>1. now'["config"] = now["config"] /\ now'["previous"] = now["previous"]
    <3>1. PICK reused \in BOOLEAN :
            now' = IF reused THEN now
                   ELSE [q \in Path |->
                         IF q \in {"config_tmp", "autostart_tmp"} THEN NoFile ELSE now[q]]
      BY <1>4 DEF StartUi
    <3>. QED
      BY <3>1 DEF Path
  <2>2. Installed' <=> Installed
    BY <1>2, <1>4 DEF StartUi, RemoveEntry, Rename
  <2>3. pc = "down" /\ pc' = "idle" /\ job' = job /\ memory' = Loaded
    BY <1>4 DEF StartUi
  <2>4. job = "none"
    BY <1>3, <2>3 DEF PhaseInv
  <2>. QED
    BY <1>1, <2>2, <2>3, <2>4 DEF EntryMatches
<1>5. CASE SaveSettings
  <2>1. PICK c \in AppConfig :
          /\ next' = c
          /\ IF c.login # memory.login
             THEN SetEnabled(c.login) /\ job' = "autostart"
             ELSE BeginSave
    BY <1>5 DEF SaveSettings
  <2>2. Installed' <=> memory.login
    BY <1>1, <1>2, <1>5 DEF SaveSettings, RemoveEntry, Rename, EntryMatches
  <2>3. c.login \in BOOLEAN /\ memory' = memory
    BY <1>5 DEF SaveSettings, AppConfig
  <2>4. CASE c.login # memory.login
    <3>1. job' = "autostart" /\ pc' = IF c.login THEN "write" ELSE "remove"
      BY <2>1, <2>4 DEF SetEnabled
    <3>. QED
      BY <1>3, <2>1, <2>2, <2>3, <2>4, <3>1 DEF EntryMatches, Changed
  <2>5. CASE c.login = memory.login
    <3>1. job' = "config" /\ pc' \in {"backup", "write"}
      BY <2>1, <2>5 DEF BeginSave
    <3>. QED
      BY <2>1, <2>2, <2>5, <3>1 DEF EntryMatches
  <2>. QED
    BY <2>4, <2>5
<1>6. CASE TruncateBackup \/ FillBackup \/ SyncBackup
  <2>1. /\ job = "config" /\ job' = job /\ pc' \in {"fill", "sync_backup", "write"}
        /\ next' = next /\ memory' = memory
    BY <1>3, <1>6 DEF TruncateBackup, FillBackup, SyncBackup, GoOn, Steady, PhaseInv
  <2>2. Installed' <=> Installed
    BY <1>2, <1>6 DEF TruncateBackup, FillBackup, SyncBackup, RemoveEntry, Rename
  <2>. QED
    BY <1>1, <2>1, <2>2 DEF EntryMatches
<1>7. CASE WriteTemporary \/ SyncTemporary
  <2>1. /\ job # "none" /\ job' = job /\ pc \in {"write", "sync"} /\ pc' \in {"sync", "rename"}
        /\ next' = next /\ memory' = memory /\ failures' = failures
    BY <1>3, <1>7 DEF WriteTemporary, SyncTemporary, GoOn, Steady, counts, PhaseInv
  <2>2. Installed' <=> Installed
    BY <1>2, <1>7 DEF WriteTemporary, SyncTemporary, RemoveEntry, Rename
  <2>. QED
    BY <1>1, <2>1, <2>2 DEF EntryMatches, Changed
<1>8. CASE Rename
  <2>1. /\ job # "none" /\ job' = job /\ pc = "rename" /\ pc' = "sync_directory"
        /\ next' = next /\ memory' = memory /\ failures' = failures
    BY <1>3, <1>8 DEF Rename, GoOn, Steady, counts, PhaseInv
  <2>2. CASE job = "config"
    <3>1. Installed' <=> Installed
      BY <1>2, <1>8, <2>2 DEF Rename, RemoveEntry
    <3>. QED
      BY <1>1, <2>1, <2>2, <3>1 DEF EntryMatches
  <2>3. CASE job # "config"
    <3>1. Installed'
      BY <1>8, <2>3, RenameInstalls DEF Installed
    <3>2. job \in {"autostart", "rollback"}
      BY <2>1, <2>3 DEF IInv, VarTypes
    <3>. QED
      BY <1>1, <1>3, <2>1, <3>1, <3>2 DEF EntryMatches, Changed
  <2>. QED
    BY <2>2, <2>3
<1>9. CASE SyncDirectory \/ RemoveEntry \/ NothingToRemove
  <2>1. /\ Succeeds /\ next' = next /\ failures' = failures /\ job # "none"
        /\ pc \in {"remove", "unlink"} => job \in {"autostart", "rollback"}
        /\ pc \in {"sync_directory", "remove", "unlink"}
    BY <1>3, <1>9 DEF SyncDirectory, RemoveEntry, NothingToRemove, Steady, counts, PhaseInv
  <2>2. \/ pc = "sync_directory" /\ (Installed' <=> Installed)
        \/ pc = "unlink" /\ ~Installed'
        \/ pc = "remove" /\ ~Installed /\ (Installed' <=> Installed)
    <3>1. CASE SyncDirectory
      BY <1>2, <3>1 DEF SyncDirectory, RemoveEntry, Rename
    <3>2. CASE RemoveEntry
      BY <3>2, RemoveRemoves, StoreAssumption DEF RemoveEntry, Installed
    <3>3. CASE NothingToRemove
      BY <1>2, <3>3, StoreAssumption
         DEF NothingToRemove, RemoveEntry, Rename, Installed, TextOf, Exists
    <3>. QED
      BY <1>9, <3>1, <3>2, <3>3
  <2>3. CASE job = "autostart"
    <3>1. job' = "config" /\ pc' \in {"backup", "write"}
      BY <2>1, <2>3 DEF Succeeds, BeginSave
    <3>2. Installed' <=> next.login
      BY <1>1, <1>3, <2>2, <2>3 DEF EntryMatches, Changed
    <3>. QED
      BY <2>1, <3>1, <3>2 DEF EntryMatches
  <2>4. CASE job = "config"
    <3>1. pc' = "idle" /\ job' = "none" /\ memory' = next /\ (Installed' <=> Installed)
      BY <2>1, <2>2, <2>4 DEF Succeeds
    <3>. QED
      BY <1>1, <2>4, <3>1 DEF EntryMatches
  <2>5. CASE job = "rollback"
    <3>1. pc' = "idle" /\ job' = "none" /\ memory' = memory
      BY <2>1, <2>5 DEF Succeeds
    <3>2. Installed' <=> memory.login
      BY <1>1, <1>3, <2>2, <2>5 DEF EntryMatches, Changed
    <3>. QED
      BY <3>1, <3>2 DEF EntryMatches
  <2>. QED
    BY <2>1, <2>3, <2>4, <2>5 DEF IInv, VarTypes
<1>10. CASE RefuseForeign
  \* The entry to be removed is ours in scope.
  <2>1. job \in {"autostart", "rollback"} /\ pc = "remove" /\ ~Installed
    BY <1>3, <1>10 DEF RefuseForeign, PhaseInv, Installed
  <2>. QED
    BY <1>1, <1>3, <2>1 DEF EntryMatches, Changed
<1>11. CASE OperationFails
  <2>1. /\ Fails /\ next' = next /\ memory' = memory /\ failures' = 1
        /\ job \in {"autostart", "config"} /\ pc # "sync_directory"
    <3>1. job # "none" /\ Fails /\ next' = next
      BY <1>3, <1>11 DEF OperationFails, PhaseInv
    <3>2. job # "rollback"
      BY <1>1, <1>11 DEF EntryMatches
    <3>. QED
      BY <1>1, <1>11, <3>1, <3>2 DEF IInv, VarTypes, Fails
  <2>2. Installed' <=> Installed
    <3>1. ~RemoveEntry /\ ~Rename
      BY <1>1, <1>11 DEF RemoveEntry, Rename, Steady, counts
    <3>. QED
      BY <1>2, <3>1
  <2>3. CASE job = "config" /\ Changed
    <3>1. job' = "rollback" /\ pc' = IF memory.login THEN "write" ELSE "remove"
      BY <2>1, <2>3 DEF Fails, SetEnabled
    <3>. QED
      BY <1>1, <1>3, <2>1, <2>2, <2>3, <3>1 DEF EntryMatches, Changed
  <2>4. CASE ~(job = "config" /\ Changed)
    <3>1. job' = "none" /\ pc' = "idle"
      BY <2>1, <2>4 DEF Fails
    <3>2. Installed <=> memory.login
      BY <1>1, <1>3, <2>1, <2>4 DEF EntryMatches, Changed
    <3>. QED
      BY <2>1, <2>2, <3>1, <3>2 DEF EntryMatches
  <2>. QED
    BY <2>3, <2>4
<1>12. CASE FindMarker
  <2>1. /\ job \in {"autostart", "rollback"} /\ job' = job /\ pc = "remove" /\ pc' = "unlink"
        /\ next' = next /\ memory' = memory /\ failures' = failures
    BY <1>3, <1>12 DEF FindMarker, GoOn, Steady, counts, PhaseInv
  <2>2. Installed' <=> Installed
    BY <1>2, <1>12 DEF FindMarker, RemoveEntry, Rename
  <2>. QED
    BY <1>1, <2>1, <2>2 DEF EntryMatches, Changed
<1>. QED
  BY <1>1, <1>4, <1>5, <1>6, <1>7, <1>8, <1>9, <1>10, <1>11, <1>12 DEF StoreNext

-----------------------------------------------------------------------------
(* The theorems. *)

\* The files hold what they may hold and nothing is renamed before it was synced,
\* in every behaviour.
THEOREM TypeCorrect == StoreSpec => []StoreTypeOK
<1>1. IInv => StoreTypeOK
  <2>. SUFFICES ASSUME IInv PROVE StoreTypeOK
    OBVIOUS
  <2>1. \A p \in {"config", "previous", "config_tmp"} :
          TextOf(p) \in AppConfig \cup {Bad, NoFile}
    BY DEF IInv, DiskInv, Allowed, Path, TextOf, Exists
  <2>2. TextOf("autostart") \in {Managed, Foreign, NoFile}
    BY DEF IInv, DiskInv, Allowed, Path, TextOf, Exists
  <2>3. pc = "rename" => now[Temporary(File)] \in [text : {NewText}, synced : {TRUE}]
    <3>1. [text |-> NewText, synced |-> TRUE] \in [text : {NewText}, synced : {TRUE}]
      OBVIOUS
    <3>2. pc = "rename" => now[Temporary(File)] = [text |-> NewText, synced |-> TRUE]
      BY DEF IInv, PhaseInv
    <3>. QED  BY <3>1, <3>2
  <2>. QED  BY <2>1, <2>2, <2>3 DEF StoreTypeOK, IInv, DiskInv, VarTypes, CountTypes
<1>. QED  BY <1>1, InitIInv, NextIInv, PTL DEF StoreSpec

\* Unless somebody else damages the file, every start finds the settings last
\* reported as saved, or ones whose save was begun since: for any failures, kills
\* and power cuts, between any two file operations.
THEOREM SavedSettingsAlwaysSurvive == StoreSpec => []SavedSettingsSurvive
<1>1. IInv => SavedSettingsSurvive
  <2>. SUFFICES ASSUME IInv, corruptions = 0
                PROVE  Loaded \in {committed} \cup tried
    BY DEF SavedSettingsSurvive
  <2>1. GoodEntry(now["config"])
    BY DEF IInv, CommitInv
  <2>2. CASE now["config"] = NoFile
    BY <2>1, <2>2, StoreAssumption DEF GoodEntry, Accepted, Loaded, Decodes, Exists, TextOf
  <2>3. CASE now["config"] # NoFile
    <3>1. TextOf("config") \in Accepted
      BY <2>1, <2>3 DEF GoodEntry, TextOf, Exists
    <3>2. TextOf("config") \in AppConfig
      BY <3>1 DEF Accepted, IInv, VarTypes
    <3>3. Decodes("config") /\ Exists("config")
      BY <2>3, <3>2 DEF Decodes, Exists
    <3>4. Loaded = TextOf("config")
      BY <3>3 DEF Loaded
    <3>. QED  BY <3>1, <3>4 DEF Accepted
  <2>. QED  BY <2>2, <2>3
<1>. QED  BY <1>1, InitIInv, NextIInv, PTL DEF StoreSpec

\* Without a crash no temporary file stays behind, whichever operations fail.
THEOREM NoTemporaryEverLeft == StoreSpec => []NoTemporaryLeft
<1>1. StoreInit => TemporaryInv
  BY DEF StoreInit, TemporaryInv, Path, Exists
<1>2. IInv /\ TemporaryInv /\ [StoreNext]_storeVars => TemporaryInv'
  <2>1. IInv /\ TemporaryInv /\ UNCHANGED storeVars => TemporaryInv'
    BY DEF TemporaryInv, storeVars, counts, Exists, Temporary, File
  <2>. QED
    BY <2>1, TemporaryKept
<1>3. TemporaryInv => NoTemporaryLeft
  BY DEF TemporaryInv, NoTemporaryLeft
<1>. QED
  BY <1>1, <1>2, <1>3, InitIInv, NextIInv, PTL DEF StoreSpec

\* Whatever single operation of a save fails, the entry ends as the settings in
\* memory say: as before the save, or as it asked.
THEOREM EntryAlwaysFollowsSettings == StoreSpec => []EntryFollowsSettings
<1>1. StoreInit => EntryInv
  <2>. SUFFICES ASSUME StoreInit PROVE EntryMatches
    BY DEF EntryInv
  <2>1. PICK c \in AppConfig \cup {NoFile}, e \in {NoFile, Managed, Foreign} :
          /\ now = [p \in Path |->
                      CASE p = "config" /\ c # NoFile -> [text |-> c, synced |-> TRUE]
                        [] p = "autostart" /\ e # NoFile -> [text |-> e, synced |-> TRUE]
                        [] OTHER -> NoFile]
          /\ committed = IF c = NoFile THEN Default ELSE c
          /\ (e = Managed) = committed.login
    BY DEF StoreInit
  <2>2. now["config"] = IF c = NoFile THEN NoFile ELSE [text |-> c, synced |-> TRUE]
    BY <2>1 DEF Path
  <2>3. now["autostart"] = IF e = NoFile THEN NoFile ELSE [text |-> e, synced |-> TRUE]
    BY <2>1 DEF Path
  <2>4. Loaded = committed
    <3>1. CASE c = NoFile
      BY <2>1, <2>2, <3>1, StoreAssumption DEF Loaded, Decodes, TextOf, Exists
    <3>2. CASE c # NoFile
      <4>1. now["config"] # NoFile
        BY <2>2, <3>2, InodeExists DEF Text
      <4>. QED
        BY <2>1, <2>2, <3>2, <4>1 DEF Loaded, Decodes, TextOf, Exists
    <3>. QED
      BY <3>1, <3>2
  <2>5. Installed <=> e = Managed
    <3>1. CASE e = NoFile
      BY <2>3, <3>1, StoreAssumption DEF Installed, TextOf, Exists
    <3>2. CASE e # NoFile
      <4>1. now["autostart"] # NoFile
        BY <2>3, <3>2, InodeExists DEF Text
      <4>. QED
        BY <2>3, <3>2, <4>1 DEF Installed, TextOf, Exists
    <3>. QED
      BY <3>1, <3>2
  <2>. QED
    BY <2>1, <2>4, <2>5 DEF EntryMatches, StoreInit
<1>2. IInv /\ EntryInv /\ [StoreNext]_storeVars => EntryInv'
  <2>1. IInv /\ EntryInv /\ UNCHANGED storeVars => EntryInv'
    BY DEF EntryInv, EntryMatches, Scope, Installed, Changed, Loaded, Decodes, storeVars, counts,
           history, Exists, TextOf
  <2>. QED
    BY <2>1, EntryKept
<1>3. IInv /\ EntryInv => EntryFollowsSettings
  <2>1. IInv /\ kills = 0 /\ cuts = 0 /\ corruptions = 0 /\ ~late /\ failures <= 1 => Scope
    BY StoreAssumption DEF IInv, CountTypes, VarTypes, Scope
  <2>. QED
    BY <2>1 DEF EntryInv, EntryMatches, EntryFollowsSettings, Installed
<1>. QED
  BY <1>1, <1>2, <1>3, InitIInv, NextIInv, PTL DEF StoreSpec

=============================================================================
