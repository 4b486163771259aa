---------------------------- MODULE IndexRefresh ----------------------------
(***************************************************************************)
(* The in-memory index of ruyiseekd and the monitor thread that keeps it   *)
(* up to date (apps/ruyiseekd/src/main.rs, crates/ruyiseek-index).         *)
(*                                                                         *)
(* Three parties run: the disk, which changes whenever it likes and puts   *)
(* events into the inotify queues that watch it; the main thread, which    *)
(* builds the first index, starts the monitor, and on a Shutdown request   *)
(* raises the stop flag and joins the monitor; and the monitor, which      *)
(* sleeps, polls its queue and the mount table, and rebuilds the whole     *)
(* index when something moved or five minutes went by.  The walk of the    *)
(* tree reads one directory per step and the new watcher gets one watch    *)
(* per step, so that the disk can change between any two of them.          *)
(***************************************************************************)
EXTENDS FileTree

CONSTANTS
    Home,              \* the home directory, the root that is always there
    Automatic,         \* TRUE: roots come from the mount table; FALSE: --root
    ConfiguredMax,     \* --max-entries, or AutoLimit when it is not given
    AutoLimit,
    AutoPerRoot,       \* AUTO_ENTRIES_PER_ROOT
    AutoMax,           \* AUTO_ENTRIES_MAX
    WatchLimit,        \* fs.inotify.max_user_watches, shared by all watchers
    QueueLimit,        \* fs.inotify.max_queued_events; the last is Q_OVERFLOW
    BufferEvents,      \* the events one 64 KiB read takes out of a queue
    InotifyMayFail,    \* whether inotify_init can fail
    ReadMayFail,       \* whether reading an inotify descriptor can fail
    DiscoveryMayFail,  \* whether reading the mount table can fail
    MaxChanges         \* bound on the changes of the disk in one behaviour

ASSUME RefreshAssumption ==
    /\ Home \in Root
    /\ Automatic \in BOOLEAN
    /\ ConfiguredMax \in Nat \cup {AutoLimit}
    /\ AutoPerRoot \in Nat /\ AutoMax \in Nat
    /\ WatchLimit \in Nat
    /\ QueueLimit \in Nat \ {0}
    /\ BufferEvents \in Nat \ {0}
    /\ {InotifyMayFail, ReadMayFail, DiscoveryMayFail} \subseteq BOOLEAN
    /\ MaxChanges \in Nat
    \* is_local_data_mount refuses the mount points above the home directory.
    \* Volumes below it, or below each other, are roots as any other.
    /\ Automatic => \A r \in Root : AtOrBelow(Home, r) => r = Home

VARIABLES
    present,          \* the paths that exist, as an open or a read_dir finds them
    mounted,          \* the roots, other than Home, that a volume is mounted on
    under,            \* what each of these volumes hides: the tree it is mounted over
    main,             \* where the main thread is
    monitor,          \* where the refresh monitor thread is
    stop,             \* RefreshMonitor::stop
    scan,             \* the walk in progress: build_index_state, scan
    snapshot,         \* the IndexState behind the RwLock, what clients search
    watcher,          \* the monitor's watcher
    replacement,      \* replacement_watcher, while it is built
    to_watch,         \* the directories FileWatcher::new still has to add
    refresh_pending,
    file_changed,
    fallback_due,     \* last_refresh.elapsed() >= FALLBACK_RESCAN_INTERVAL
    changes,          \* how often the disk changed, up to MaxChanges
    bridged,          \* history: see Covered below
    covered,          \* history: see Covered below
    rebuilt           \* history: the snapshot was published by the monitor

vars == <<present, mounted, under, main, monitor, stop, scan, snapshot, watcher,
          replacement, to_watch, refresh_pending, file_changed, fallback_due,
          changes, bridged, covered, rebuilt>>

disk == <<present, mounted, under, changes>>
threads == <<main, monitor, stop>>
watching == <<watcher, replacement, to_watch, refresh_pending>>
history == <<bridged, covered, rebuilt>>

-----------------------------------------------------------------------------
(* Records. *)

\* IndexState: the roots, what was read of each directory, and whether the
\* walk was cut short.
IndexState == [roots : SUBSET Root, scanned : SUBSET Dir,
               listing : [Dir -> SUBSET Path], truncated : BOOLEAN]

\* A walk in progress has directories yet to visit: the VecDeque of scan.  Its
\* order only decides what is left out when the walk is truncated, and every
\* order is allowed here.
Walk == [roots : SUBSET Root, scanned : SUBSET Dir,
         listing : [Dir -> SUBSET Path], truncated : BOOLEAN,
         pending : SUBSET Dir]

StartWalk(roots) ==
    [roots |-> roots, scanned |-> {}, listing |-> [d \in Dir |-> {}],
     truncated |-> FALSE, pending |-> roots]

ReportOf(walk) ==
    [roots |-> walk.roots, scanned |-> walk.scanned,
     listing |-> walk.listing, truncated |-> walk.truncated]

\* SearchEngine::new gets the items of every directory that was read.
Items(index) == UNION {index.listing[d] : d \in index.scanned}

\* Option<FileWatcher>: open is FALSE for None.  The queue is a number of
\* unread events: has_changes looks at nothing else.
\* hidden[r] are the watches on directories that the volume on r hides.
Watcher == [open : BOOLEAN, watched : SUBSET Dir, hidden : [Root -> SUBSET Dir],
            queue : 0..QueueLimit]

NothingHidden == [r \in Root |-> {}]
NoWatcher == [open |-> FALSE, watched |-> {}, hidden |-> NothingHidden, queue |-> 0]
NewWatcher == [open |-> TRUE, watched |-> {}, hidden |-> NothingHidden, queue |-> 0]

\* Each path is added once, so that no directory counts twice.
Watches(w) == w.watched \cup UNION {w.hidden[r] : r \in Root}

-----------------------------------------------------------------------------
(* inotify. *)

\* A change of the entry p is reported to a watch on the directory p is in,
\* and to one on p itself (DELETE_SELF, MOVE_SELF).
Hears(w, p) == \E d \in w.watched : d = p \/ p \in ChildrenOf(d)

Push(w) == [w EXCEPT !.queue = IF @ < QueueLimit THEN @ + 1 ELSE @]

Told(w, heard) == IF heard THEN Push(w) ELSE w

\* A watch follows the directory and not the path: the ones at and below a
\* path that disappears no longer watch anything that is indexed.
Detached(w, p) == [w EXCEPT !.watched = @ \ Subtree(p)]

\* The volume that is mounted on r hides the directories it is mounted over; their
\* watches stay, and hear nothing while nobody can reach what they watch.
Hide(w, r) == [w EXCEPT !.watched = @ \ Subtree(r),
                        !.hidden[r] = w.watched \cap Subtree(r)]

\* The watches on an unmounted volume end; those on what it hid are back.
Reveal(w, r) == [w EXCEPT !.watched = (@ \ Subtree(r)) \cup w.hidden[r],
                          !.hidden[r] = {}]

\* Mutant: an empty queue (EAGAIN) is taken for a failed read.
HasChanges_AgainIsError(w, answer, after) == answer = w.open /\ after = w

\* One call of has_changes on an Option<FileWatcher>: what it answers, and the
\* watcher it leaves.  It takes at most one buffer of events, and a failed
\* read counts as a change.
HasChanges(w, answer, after) ==
    \/ (~w.open \/ w.queue = 0) /\ answer = FALSE /\ after = w
    \/ /\ w.open /\ w.queue > 0
       /\ answer = TRUE
       /\ after = [w EXCEPT !.queue = IF @ > BufferEvents THEN @ - BufferEvents ELSE 0]
    \/ w.open /\ ReadMayFail /\ answer = TRUE /\ after = w

\* The watches in use: old and new watcher draw on the same allowance.
WatchesUsed == Cardinality(Watches(watcher)) + Cardinality(Watches(replacement))

-----------------------------------------------------------------------------
(* Roots and limits. *)

\* discover_default_roots: of the volumes those that read_dir opens.
Available == IF Automatic THEN {Home} \cup (mounted \ Unreadable) ELSE Root

\* What discover_default_roots may return, or what stands in for its error.
DiscoveredRoots(otherwise) ==
    {Available} \cup (IF Automatic /\ DiscoveryMayFail THEN {otherwise} ELSE {})

EntryLimit(roots) ==
    LET perRoot == AutoPerRoot * (IF roots = {} THEN 1 ELSE Cardinality(roots))
    IN  IF ConfiguredMax # AutoLimit THEN ConfiguredMax
        ELSE IF perRoot < AutoMax THEN perRoot ELSE AutoMax

-----------------------------------------------------------------------------

\* The trees that can lie below r, on the volume mounted there or under it.
Trees(r) ==
    {s \in SUBSET Subtree(r) :
        r \in s /\ \A p \in s, d \in Subtree(r) : AtOrBelow(p, d) => d \in s}

Init ==
    /\ present \in {s \in SUBSET Path : Closed(s) /\ Home \in s}
    /\ mounted \in SUBSET (IF Automatic THEN (Root \cap present) \ {Home} ELSE {})
    /\ under \in [Root -> UNION {Trees(r) : r \in Root} \cup {{}}]
    /\ \A r \in Root : IF r \in mounted THEN under[r] \in Trees(r) ELSE under[r] = {}
    /\ main = "start"
    /\ monitor = "unborn"
    /\ stop = FALSE
    /\ scan = StartWalk({})
    /\ snapshot = ReportOf(StartWalk({}))
    /\ watcher = NoWatcher
    /\ replacement = NoWatcher
    /\ to_watch = {}
    /\ refresh_pending = FALSE
    /\ file_changed = FALSE
    /\ fallback_due = FALSE
    /\ changes = 0
    /\ bridged = {}
    /\ covered = {}
    /\ rebuilt = FALSE

-----------------------------------------------------------------------------
(* The disk. *)

Changing == changes < MaxChanges /\ changes' = changes + 1

\* A file or directory is created, or a tree is moved in: p and the contents
\* it arrives with.
Appear(p, contents) ==
    /\ Changing
    /\ p \notin present
    /\ present' = present \cup {p} \cup contents
    /\ Closed(present')
    /\ watcher' = Told(watcher, Hears(watcher, p))
    /\ replacement' = Told(replacement, Hears(replacement, p))
    /\ UNCHANGED <<mounted, under, threads, scan, snapshot, to_watch, refresh_pending,
                   file_changed, fallback_due, history>>

\* The mounts in the tree at p; a busy tree is not unmounted, and neither is
\* it moved, removed or mounted over here.
MountsBelow(p) == {r \in mounted : AtOrBelow(r, p)}

\* A file is deleted, or a directory is removed or moved away with all that is
\* below it.
Vanish(p) ==
    /\ Changing
    /\ p \in present
    /\ Automatic => p # Home /\ MountsBelow(p) = {}
    /\ present' = present \ Subtree(p)
    /\ watcher' = Detached(Told(watcher, Hears(watcher, p)), p)
    /\ replacement' = Detached(Told(replacement, Hears(replacement, p)), p)
    /\ bridged' = bridged \ Subtree(p)
    /\ covered' = covered \cap Watches(watcher')
    /\ UNCHANGED <<mounted, under, threads, scan, snapshot, to_watch, refresh_pending,
                   file_changed, fallback_due, rebuilt>>

\* A volume that holds the tree is mounted on the directory r: nothing is told to
\* inotify, whatever it hides.
Mount(r, tree) ==
    /\ Automatic /\ Changing
    /\ r \in (Root \cap present) \ {Home}
    /\ MountsBelow(r) = {}
    /\ mounted' = mounted \cup {r}
    /\ under' = [under EXCEPT ![r] = present \cap Subtree(r)]
    /\ present' = (present \ Subtree(r)) \cup tree
    /\ watcher' = Hide(watcher, r)
    /\ replacement' = Hide(replacement, r)
    /\ bridged' = bridged \ Subtree(r)
    /\ UNCHANGED <<threads, scan, snapshot, to_watch, refresh_pending, file_changed,
                   fallback_due, covered, rebuilt>>

\* A volume is unmounted: every watch on it ends with IN_UNMOUNT, and what it hid
\* can be reached again.
Unmount(r) ==
    /\ Automatic /\ Changing
    /\ MountsBelow(r) = {r}
    /\ mounted' = mounted \ {r}
    /\ under' = [under EXCEPT ![r] = {}]
    /\ present' = (present \ Subtree(r)) \cup under[r]
    /\ watcher' = Reveal(Told(watcher, watcher.watched \cap Subtree(r) # {}), r)
    /\ replacement' =
         Reveal(Told(replacement, replacement.watched \cap Subtree(r) # {}), r)
    /\ bridged' = bridged \ Subtree(r)
    /\ covered' = covered \cap Watches(watcher')
    /\ UNCHANGED <<threads, scan, snapshot, to_watch, refresh_pending,
                   file_changed, fallback_due, rebuilt>>

\* Five minutes have gone by since last_refresh.
FallbackElapses ==
    /\ monitor \notin {"unborn", "start", "done"}
    /\ ~fallback_due
    /\ fallback_due' = TRUE
    /\ UNCHANGED <<disk, threads, scan, snapshot, watching, file_changed, history>>

Environment ==
    \/ \E p \in Path \ present : \E contents \in SUBSET (Subtree(p) \ {p}) : Appear(p, contents)
    \/ \E p \in present : Vanish(p)
    \/ \E r \in Root : \E tree \in Trees(r) : Mount(r, tree)
    \/ \E r \in mounted : Unmount(r)

-----------------------------------------------------------------------------
(* The walk, on whichever thread called build_index_state. *)

Scanning == main = "scan" \/ monitor = "scan"

\* read_dir fails: the directory is gone, or may not be read.
SkipDirectory(d) ==
    /\ Scanning
    /\ d \in scan.pending
    /\ d \notin present \/ d \in Unreadable
    /\ scan' = [scan EXCEPT !.pending = @ \ {d}]
    /\ UNCHANGED <<disk, threads, snapshot, watching, file_changed, fallback_due, history>>

\* Mutant: the test before each entry is `>` instead of `>=`.
Room_OneTooMany == EntryLimit(scan.roots) + 1 - Cardinality(Items(scan))

Room == EntryLimit(scan.roots) - Cardinality(Items(scan))

\* Mutant: whatever was recorded is put into the VecDeque.
Descend_IntoFiles(listed) == listed \ scan.roots

\* Mutant: is_another_root has the opposite sense.
Descend_OnlyIntoRoots(listed) == listed \cap Dir \cap scan.roots

\* The entries of a directory the walk goes on to: another root is left to the
\* walk that starts there.
Descend(listed) == (listed \cap Dir) \ scan.roots

\* No root of the walk that d is on has lost its volume.
RootsInPlace(roots, d) ==
    Automatic => \A r \in roots : AtOrBelow(d, r) => r \in {Home} \cup mounted

\* The whole directory is read.  The limit is looked at before each entry,
\* filtered or not, so a walk that is already at it cannot read one more.
ReadDirectory(d) ==
    LET listed == Listing(present, d)
    IN  /\ Scanning
        /\ d \in (scan.pending \cap present) \ Unreadable
        /\ Cardinality(listed) <= Room
        /\ Room = 0 => ChildrenOf(d) \cap present = {}
        /\ scan' = [scan EXCEPT
                      !.scanned = @ \cup {d},
                      !.listing[d] = listed,
                      !.pending = (@ \ {d}) \cup Descend(listed)]
        /\ bridged' = IF d \in watcher.watched /\ RootsInPlace(scan.roots, d)
                      THEN bridged \cup {d} ELSE bridged
        /\ UNCHANGED <<disk, threads, snapshot, watching, file_changed,
                       fallback_due, covered, rebuilt>>

\* The limit is met with an entry still to come: the walk ends, and what is
\* left in the VecDeque is never visited.
TruncateAt(d) ==
    LET entries == ChildrenOf(d) \cap present
    IN  /\ Scanning
        /\ d \in (scan.pending \cap present) \ Unreadable
        /\ \E taken \in SUBSET Listing(present, d) :
             /\ Cardinality(taken) = Room
             /\ taken # entries
             /\ scan' = [scan EXCEPT !.scanned = @ \cup {d},
                                     !.listing[d] = taken,
                                     !.pending = {},
                                     !.truncated = TRUE]
        /\ bridged' = bridged \ {d}
        /\ UNCHANGED <<disk, threads, snapshot, watching, file_changed,
                       fallback_due, covered, rebuilt>>

ScanDirectory == \E d \in scan.pending : SkipDirectory(d) \/ ReadDirectory(d) \/ TruncateAt(d)

-----------------------------------------------------------------------------
(* The main thread. *)

\* discover_roots_or_home, or the configured roots, and then the first walk.
BeginInitialScan ==
    /\ main = "start"
    /\ \E roots \in DiscoveredRoots({Home}) : scan' = StartWalk(roots)
    /\ main' = "scan"
    /\ UNCHANGED <<disk, monitor, stop, snapshot, watching, file_changed,
                   fallback_due, history>>

\* The first index is in place; the monitor thread is spawned.
FinishInitialScan ==
    /\ main = "scan"
    /\ scan.pending = {}
    /\ snapshot' = ReportOf(scan)
    /\ scan' = StartWalk({})
    /\ main' = "serve"
    /\ monitor' = "start"
    /\ UNCHANGED <<disk, stop, watching, file_changed, fallback_due, history>>

\* Mutant: drop unparks the thread without raising the flag.
BeginShutdown_NoFlag ==
    /\ main = "serve"
    /\ main' = "join"
    /\ UNCHANGED <<disk, monitor, stop, scan, snapshot, watching, file_changed,
                   fallback_due, history>>

\* serve answers a Shutdown request and the accept loop breaks; dropping the
\* RefreshMonitor raises the flag, unparks the thread and waits for it.
BeginShutdown ==
    /\ main = "serve"
    /\ stop' = TRUE
    /\ main' = "join"
    /\ UNCHANGED <<disk, monitor, scan, snapshot, watching, file_changed,
                   fallback_due, history>>

\* Mutant: the JoinHandle is dropped without join.
Join_Detached ==
    /\ main = "join"
    /\ main' = "exit"
    /\ UNCHANGED <<disk, monitor, stop, scan, snapshot, watching, file_changed,
                   fallback_due, history>>

Join ==
    /\ main = "join"
    /\ monitor = "done"
    /\ main' = "exit"
    /\ UNCHANGED <<disk, monitor, stop, scan, snapshot, watching, file_changed,
                   fallback_due, history>>

-----------------------------------------------------------------------------
(* The monitor thread. *)

\* FileWatcher::new starts, or create_file_watcher is left with None.
OpenWatcher(directories) ==
    \/ replacement' = NewWatcher /\ to_watch' = directories
    \/ InotifyMayFail /\ replacement' = NoWatcher /\ to_watch' = {}

StartMonitor ==
    /\ monitor = "start"
    /\ OpenWatcher(snapshot.scanned)
    /\ monitor' = "first_watch"
    /\ UNCHANGED <<disk, main, stop, scan, snapshot, watcher, refresh_pending,
                   file_changed, fallback_due, history>>

\* Mutant: FileWatcher::new gives up at the first directory it cannot watch.
LeftToWatch_StopAtError(d, added) == IF added THEN to_watch \ {d} ELSE {}

LeftToWatch(d, added) == to_watch \ {d}

\* inotify_add_watch: refused for a path that is gone and above the limit.
AddWatch ==
    /\ monitor \in {"first_watch", "watch"}
    /\ \E d \in to_watch :
         LET added == d \in present /\ WatchesUsed < WatchLimit
         IN  /\ to_watch' = LeftToWatch(d, added)
             /\ replacement' = IF added THEN [replacement EXCEPT !.watched = @ \cup {d}]
                               ELSE replacement
    /\ UNCHANGED <<disk, threads, scan, snapshot, watcher, refresh_pending,
                   file_changed, fallback_due, history>>

FirstWatcherReady ==
    /\ monitor = "first_watch"
    /\ to_watch = {}
    /\ watcher' = replacement
    /\ replacement' = NoWatcher
    /\ fallback_due' = FALSE
    /\ monitor' = "park"
    /\ UNCHANGED <<disk, main, stop, scan, snapshot, to_watch, refresh_pending,
                   file_changed, history>>

\* park_timeout returns, and the flag is looked at.  When the thread ends, so
\* do its watcher and the watches.
Wake ==
    /\ monitor = "park"
    /\ \/ ~stop /\ monitor' = "poll" /\ UNCHANGED watcher
       \/ stop /\ monitor' = "done" /\ watcher' = NoWatcher
    /\ UNCHANGED <<disk, main, stop, scan, snapshot, replacement, to_watch,
                   refresh_pending, file_changed, fallback_due, history>>

\* Mutant: the follow-up that was scheduled is forgotten.
FileChanged_ForgetsPending(answer, after) == HasChanges(watcher, answer, after)

\* With a follow-up pending the queue is not looked at.
FileChanged(answer, after) ==
    \/ refresh_pending /\ answer = TRUE /\ after = watcher
    \/ ~refresh_pending /\ HasChanges(watcher, answer, after)

Poll ==
    /\ monitor = "poll"
    /\ FileChanged(file_changed', watcher')
    /\ refresh_pending' = FALSE
    /\ monitor' = "decide"
    /\ UNCHANGED <<disk, main, stop, scan, snapshot, replacement, to_watch,
                   fallback_due, history>>

\* Mutant: the five minutes do not count.
RebuildDue_NoFallback(roots) == file_changed \/ roots # snapshot.roots

RebuildDue(roots) == file_changed \/ fallback_due \/ roots # snapshot.roots

\* Nothing changed: `continue`.
StayIdle ==
    /\ monitor = "decide"
    /\ ~RebuildDue(snapshot.roots)
    /\ snapshot.roots \in DiscoveredRoots(snapshot.roots)
    /\ monitor' = "park"
    /\ UNCHANGED <<disk, main, stop, scan, snapshot, watching, file_changed,
                   fallback_due, history>>

BeginRebuild ==
    /\ monitor = "decide"
    /\ \E roots \in DiscoveredRoots(snapshot.roots) :
         /\ RebuildDue(roots)
         /\ scan' = StartWalk(roots)
    /\ monitor' = "scan"
    /\ file_changed' = FALSE
    /\ bridged' = {}
    /\ UNCHANGED <<disk, main, stop, snapshot, watching, fallback_due, covered, rebuilt>>

\* The walk is over.  A stop that came meanwhile throws its result away.
FinishRebuildScan ==
    /\ monitor = "scan"
    /\ scan.pending = {}
    /\ \/ /\ stop
          /\ monitor' = "done"
          /\ watcher' = NoWatcher
          /\ UNCHANGED <<replacement, to_watch>>
       \/ /\ ~stop
          /\ OpenWatcher(scan.scanned)
          /\ monitor' = "watch"
          /\ UNCHANGED watcher
    /\ UNCHANGED <<disk, main, stop, scan, snapshot, refresh_pending,
                   file_changed, fallback_due, history>>

\* Mutant: only the new watcher is asked.
OldFollowUp_NotAsked(answer, after) == answer = FALSE /\ after = watcher

\* The first operand of the follow-up: did the old watcher see anything?
OldFollowUp(answer, after) == HasChanges(watcher, answer, after)

FollowUpOld ==
    /\ monitor = "watch"
    /\ to_watch = {}
    /\ OldFollowUp(refresh_pending', watcher')
    /\ monitor' = "follow_up"
    /\ UNCHANGED <<disk, main, stop, scan, snapshot, replacement, to_watch,
                   file_changed, fallback_due, history>>

\* The second operand, short-circuited; then the new watcher takes over.
FollowUpNew ==
    /\ monitor = "follow_up"
    /\ \/ refresh_pending /\ watcher' = replacement /\ UNCHANGED refresh_pending
       \/ ~refresh_pending /\ HasChanges(replacement, refresh_pending', watcher')
    /\ replacement' = NoWatcher
    /\ fallback_due' = FALSE
    /\ monitor' = "publish"
    /\ UNCHANGED <<disk, main, stop, scan, snapshot, to_watch, file_changed, history>>

\* *state.write() = replacement
Publish ==
    /\ monitor = "publish"
    /\ snapshot' = ReportOf(scan)
    /\ scan' = StartWalk({})
    /\ monitor' = "park"
    /\ bridged' = {}
    /\ covered' = bridged \cap watcher.watched
    /\ rebuilt' = TRUE
    /\ UNCHANGED <<disk, main, stop, watching, file_changed, fallback_due>>

-----------------------------------------------------------------------------

MainStep == BeginInitialScan \/ FinishInitialScan \/ Join

MonitorStep ==
    \/ StartMonitor \/ AddWatch \/ FirstWatcherReady
    \/ Wake \/ Poll \/ StayIdle \/ BeginRebuild
    \/ FinishRebuildScan \/ FollowUpOld \/ FollowUpNew \/ Publish

\* The process has ended; nothing moves but the disk.
Exited == main = "exit" /\ UNCHANGED vars

Next ==
    \/ Environment \/ FallbackElapses
    \/ ScanDirectory \/ MainStep \/ BeginShutdown \/ MonitorStep
    \/ Exited

\* The threads are scheduled and the clock runs.  Nothing makes the disk
\* change or a client send Shutdown.
Fairness ==
    /\ WF_vars(MainStep)
    /\ WF_vars(ScanDirectory)
    /\ WF_vars(MonitorStep)
    /\ WF_vars(FallbackElapses)

Spec == Init /\ [][Next]_vars
FairSpec == Spec /\ Fairness

-----------------------------------------------------------------------------
(* Properties. *)

\* Every variable has its type: the records of IndexState, scan and
\* FileWatcher hold directories of the tree, and each thread is at one of the
\* points of its code.
TypeOK ==
    /\ present \subseteq Path
    /\ mounted \subseteq Root /\ under \in [Root -> SUBSET Path]
    /\ main \in {"start", "scan", "serve", "join", "exit"}
    /\ monitor \in {"unborn", "start", "first_watch", "park", "poll", "decide",
                    "scan", "watch", "follow_up", "publish", "done"}
    /\ stop \in BOOLEAN
    /\ scan \in Walk
    /\ snapshot \in IndexState
    /\ watcher \in Watcher
    /\ replacement \in Watcher
    /\ to_watch \subseteq Dir
    /\ refresh_pending \in BOOLEAN
    /\ file_changed \in BOOLEAN
    /\ fallback_due \in BOOLEAN
    /\ changes \in Nat
    /\ bridged \subseteq Dir
    /\ covered \subseteq Dir
    /\ rebuilt \in BOOLEAN

\* The monitor sleeps and nothing tells it to rebuild when it wakes.
Resting == monitor = "park" /\ ~refresh_pending /\ watcher.queue = 0

\* Covered directories.  bridged holds the directories that the walk in progress
\* read in full, on the roots it was given, while the old watcher watched them;
\* covered those of the published index that the new watcher went on to watch:
\* for these, a watch was there at every moment since they were read.  A volume
\* mounted over them can hide some of them.
InSight == covered \cap watcher.watched

\* While the monitor rests, the index agrees with the disk about every covered
\* directory that is in sight: neither the short-circuited follow-up, nor the
\* switch of watchers, nor the order of draining, walking, watching and
\* publishing loses a change in one, nor does a volume that hides it and goes
\* again.  And what hides one is a volume that is no root of the index yet, so
\* that the next poll finds other roots, if it can be read
\* (spawn_refresh_monitor, discover_default_roots).
CoveredListingsAreCurrent ==
    Resting =>
        /\ \A d \in InSight : snapshot.listing[d] = Listing(present, d)
        /\ \A d \in covered \ InSight :
             \E r \in mounted \ snapshot.roots : AtOrBelow(d, r)

\* When the monitor rests and every root and directory of the index is
\* covered and in sight, the index is exactly what a walk of the disk at this
\* moment would find, however the disk changed during the rebuild (scan,
\* is_another_root, the filters, and the watch on each scanned directory).
FullCoverageIsFresh ==
    /\ Resting
    /\ snapshot.roots = Available
    /\ ~snapshot.truncated
    /\ snapshot.roots \subseteq snapshot.scanned
    /\ snapshot.scanned \subseteq InSight
    => Items(snapshot) = ItemsOf(present, Available)

\* One directory that cannot be watched costs no other its watch
\* (FileWatcher::new counts it and goes on): when the allowance is enough for
\* both watchers, a directory found in a covered one is watched itself, or what
\* a volume on it hides is.
FailedWatchSparesTheOthers ==
    Resting /\ watcher.open /\ 2 * Cardinality(Dir) <= WatchLimit =>
        \A e \in InSight, d \in snapshot.scanned \cap present :
            d \in ChildrenOf(e) => d \in Watches(watcher)

\* The index never holds more than max_entries items, and a walk is reported
\* as truncated only when it is full (scan, the test before each entry).
TruncationIsExact ==
    LET held == Cardinality(Items(snapshot))
    IN  /\ held <= EntryLimit(snapshot.roots)
        /\ snapshot.truncated => held = EntryLimit(snapshot.roots)

\* Once RefreshMonitor has been dropped the monitor does nothing any more: it
\* neither replaces the index nor touches a watcher (join in drop).
QuietAfterExit ==
    [][main = "exit" => UNCHANGED <<monitor, snapshot, watcher, replacement>>]_vars

\* What the comment in spawn_refresh_monitor says of the follow-up: an event
\* racing with the directory walk cannot leave a stale snapshot.  Here: once a
\* rebuild is published and the monitor rests, the index is right about every
\* directory that is being watched.
RacingEventLeavesNoStaleListing ==
    Resting /\ rebuilt =>
        \A d \in snapshot.scanned \cap watcher.watched :
            snapshot.listing[d] = Listing(present, d)

\* When the disk comes to rest, the index agrees with it from some moment on,
\* whatever was missed: the fallback rescan sees to it.  An index cut short by
\* its limit then names nothing that is gone.
Fresh ==
    LET current == ItemsOf(present, Available)
    IN  /\ snapshot.roots = Available
        /\ IF snapshot.truncated THEN Items(snapshot) \subseteq current
                                 ELSE Items(snapshot) = current
EventuallyFresh == <>[](stop \/ Fresh)

\* The monitor comes to rest again and again: rebuilding and re-watching never
\* keep themselves going through refresh_pending or events of their own.
RebuildsSettle == []<>(stop \/ Resting)

\* A Shutdown request ends the process, whatever the monitor was doing.
ShutdownCompletes == main = "join" ~> main = "exit"
=============================================================================
