------------------------- MODULE IndexRefreshProofs -------------------------
(***************************************************************************)
(* Proofs about IndexRefresh, for every tree, every limit and every number *)
(* of changes, of volumes mounted anywhere in the tree too: type           *)
(* correctness; that the rebuild loses no change of a directory that was   *)
(* watched while it was read and ever since; that the index is never over  *)
(* its limit; that a failed watch costs no other directory its own; and    *)
(* that an index all of which is covered is what a walk would find.        *)
(***************************************************************************)
EXTENDS IndexRefresh, FiniteSetTheorems, WellFoundedInduction, TLAPS

-----------------------------------------------------------------------------
(* Paths. *)

\* Between an entry of d and a path strictly above that entry lies d itself.
LEMMA AboveAnEntry ==
    ASSUME NEW d \in Path, NEW q \in ChildrenOf(d), NEW p \in Path,
           AtOrBelow(q, p), q # p
    PROVE  AtOrBelow(d, p)
<1>1. /\ d \in Seq(Name) /\ q \in Seq(Name) /\ p \in Seq(Name)
      /\ Len(q) = Len(d) + 1 /\ SubSeq(q, 1, Len(d)) = d
      /\ Len(p) <= Len(q) /\ SubSeq(q, 1, Len(p)) = p
  BY TreeAssumption DEF ChildrenOf, AtOrBelow
<1>2. Len(p) # Len(q)
  <2>1. SubSeq(q, 1, Len(q)) = q
    BY <1>1
  <2>. QED  BY <1>1, <2>1
<1>3. Len(p) <= Len(d)
  <2>1. Len(d) \in Nat /\ Len(p) \in Nat /\ Len(q) \in Nat
    BY <1>1
  <2>2. Len(q) = Len(d) + 1 /\ Len(p) <= Len(q)
    BY <1>1
  <2>. QED  BY <2>1, <2>2, <1>2
<1>4. SubSeq(d, 1, Len(p)) = SubSeq(q, 1, Len(p))
  BY <1>1, <1>3
<1>. QED  BY <1>1, <1>3, <1>4 DEF AtOrBelow

\* Every path is at or below itself.
LEMMA AtItself == \A p \in Path : AtOrBelow(p, p)
<1>. SUFFICES ASSUME NEW p \in Path PROVE AtOrBelow(p, p)
  OBVIOUS
<1>1. p \in Seq(Name)
  BY TreeAssumption
<1>2. SubSeq(p, 1, Len(p)) = p
  BY <1>1
<1>. QED  BY <1>1, <1>2 DEF AtOrBelow

\* What is below a path that is below another is below that other.
LEMMA AtOrBelowTransitive ==
    ASSUME NEW a \in Path, NEW b \in Path, NEW c \in Path,
           AtOrBelow(a, b), AtOrBelow(b, c)
    PROVE  AtOrBelow(a, c)
<1>1. /\ a \in Seq(Name) /\ b \in Seq(Name) /\ c \in Seq(Name)
      /\ Len(b) <= Len(a) /\ SubSeq(a, 1, Len(b)) = b
      /\ Len(c) <= Len(b) /\ SubSeq(b, 1, Len(c)) = c
  BY TreeAssumption DEF AtOrBelow
<1>2. SubSeq(a, 1, Len(c)) = SubSeq(b, 1, Len(c))
  BY <1>1
<1>. QED  BY <1>1, <1>2 DEF AtOrBelow

\* The entries d has, whether they are indexed or not.
Entries(s, d) == ChildrenOf(d) \cap s

\* A tree that grows at p only changes the entries of the directory p is in.
LEMMA EntriesAfterGrowth ==
    ASSUME NEW old \in SUBSET Path, Closed(old), NEW p \in Path \ old,
           NEW new \in SUBSET Path, old \subseteq new, new \ old \subseteq Subtree(p),
           NEW d \in old, p \notin ChildrenOf(d)
    PROVE  Entries(new, d) = Entries(old, d)
<1>1. ASSUME NEW q \in new \ old, q \in ChildrenOf(d)  PROVE FALSE
  <2>1. AtOrBelow(d, p)
    BY <1>1, AboveAnEntry DEF Subtree
  <2>. QED  BY <2>1 DEF Closed
<1>. QED  BY <1>1 DEF Entries

\* A tree that loses p, and all below, only changes the entries of the
\* directory p is in.
LEMMA EntriesAfterRemoval ==
    ASSUME NEW old \in SUBSET Path, NEW p \in Path,
           NEW d \in Path \ Subtree(p), p \notin ChildrenOf(d)
    PROVE  Entries(old \ Subtree(p), d) = Entries(old, d)
<1>1. ASSUME NEW q \in Subtree(p), q \in ChildrenOf(d)  PROVE FALSE
  <2>1. AtOrBelow(d, p)
    BY <1>1, AboveAnEntry DEF Subtree
  <2>. QED  BY <2>1 DEF Subtree
<1>. QED  BY <1>1 DEF Entries

\* Of two paths above a third, one is above the other.
LEMMA AboveOneAnother ==
    ASSUME NEW p \in Path, NEW a \in Path, NEW b \in Path,
           AtOrBelow(p, a), AtOrBelow(p, b)
    PROVE  AtOrBelow(a, b) \/ AtOrBelow(b, a)
<1>1. /\ p \in Seq(Name) /\ a \in Seq(Name) /\ b \in Seq(Name)
      /\ Len(a) <= Len(p) /\ SubSeq(p, 1, Len(a)) = a
      /\ Len(b) <= Len(p) /\ SubSeq(p, 1, Len(b)) = b
  BY TreeAssumption DEF AtOrBelow
<1>2. CASE Len(a) <= Len(b)
  <2>1. SubSeq(b, 1, Len(a)) = SubSeq(p, 1, Len(a))
    BY <1>1, <1>2
  <2>. QED  BY <1>1, <1>2, <2>1 DEF AtOrBelow
<1>3. CASE Len(b) <= Len(a)
  <2>1. SubSeq(a, 1, Len(b)) = SubSeq(p, 1, Len(b))
    BY <1>1, <1>3
  <2>. QED  BY <1>1, <1>3, <2>1 DEF AtOrBelow
<1>4. Len(a) \in Nat /\ Len(b) \in Nat
  BY <1>1
<1>. QED  BY <1>2, <1>3, <1>4

\* The entries of a directory at or below r are below r.
LEMMA EntriesAreInside ==
    ASSUME NEW r \in Path, NEW d \in Subtree(r)
    PROVE  ChildrenOf(d) \subseteq Subtree(r)
<1>. SUFFICES ASSUME NEW q \in ChildrenOf(d) PROVE q \in Subtree(r)
  OBVIOUS
<1>1. q \in Path /\ d \in Path /\ AtOrBelow(q, d) /\ AtOrBelow(d, r)
  BY DEF ChildrenOf, Subtree
<1>. QED  BY <1>1, AtOrBelowTransitive DEF Subtree

\* Of the entries of any other directory only r itself is at or below r.
LEMMA EntriesAreOutside ==
    ASSUME NEW r \in Path, NEW d \in Path \ Subtree(r), NEW q \in ChildrenOf(d),
           q \in Subtree(r)
    PROVE  q = r
<1>1. q \in Path /\ AtOrBelow(q, r) /\ ~AtOrBelow(d, r)
  BY DEF Subtree
<1>. QED  BY <1>1, AboveAnEntry

\* When the tree at r is replaced by another, whoever is not in it keeps its
\* entries, and whoever is in it gets those of the other.
LEMMA EntriesBesideReplacement ==
    ASSUME NEW old \in SUBSET Path, NEW r \in old, NEW tree \in SUBSET Subtree(r),
           r \in tree, NEW d \in Path \ Subtree(r)
    PROVE  Entries((old \ Subtree(r)) \cup tree, d) = Entries(old, d)
<1>1. r \in Path /\ \A q \in ChildrenOf(d) : q \in Subtree(r) => q = r
  BY EntriesAreOutside
<1>. QED  BY <1>1 DEF Entries

LEMMA EntriesInReplacement ==
    ASSUME NEW old \in SUBSET Path, NEW r \in Path, NEW tree \in SUBSET Subtree(r),
           NEW d \in Subtree(r)
    PROVE  /\ Entries((old \ Subtree(r)) \cup tree, d) = Entries(tree, d)
           /\ Entries(old, d) = Entries(old \cap Subtree(r), d)
<1>1. ChildrenOf(d) \subseteq Subtree(r)
  BY EntriesAreInside
<1>. QED  BY <1>1 DEF Entries

\* What is left then is a tree again.
LEMMA ClosedAfterReplacement ==
    ASSUME NEW old \in SUBSET Path, Closed(old), NEW r \in Root \cap old, NEW tree \in Trees(r)
    PROVE  Closed((old \ Subtree(r)) \cup tree)
<1>. DEFINE new == (old \ Subtree(r)) \cup tree
<1>. SUFFICES ASSUME NEW p \in new, NEW d \in Path, AtOrBelow(p, d)
              PROVE  d \in new
  BY DEF Closed
<1>1. /\ tree \subseteq Subtree(r) /\ r \in Path /\ p \in Path
      /\ \A q \in tree, e \in Subtree(r) : AtOrBelow(q, e) => e \in tree
  BY DEF Trees, Subtree
<1>2. CASE p \in old \ Subtree(r)
  <2>1. d \in old
    BY <1>2 DEF Closed
  <2>2. d \notin Subtree(r)
    BY <1>1, <1>2, AtOrBelowTransitive DEF Subtree
  <2>. QED  BY <2>1, <2>2
<1>3. CASE p \in tree
  <2>1. AtOrBelow(p, r)
    BY <1>1, <1>3 DEF Subtree
  <2>2. CASE AtOrBelow(d, r)
    BY <1>1, <1>3, <2>2 DEF Subtree
  <2>3. CASE AtOrBelow(r, d) /\ ~AtOrBelow(d, r)
    <3>1. d \in old
      BY <1>1, <2>3 DEF Closed
    <3>. QED  BY <2>3, <3>1 DEF Subtree
  <2>. QED  BY <1>1, <2>1, <2>2, <2>3, AboveOneAnother
<1>. QED  BY <1>2, <1>3

\* What is left of a tree when a path goes with all below it is a tree.
LEMMA ClosedAfterRemoval ==
    ASSUME NEW old \in SUBSET Path, Closed(old), NEW p \in Path
    PROVE  Closed(old \ Subtree(p))
<1>. SUFFICES ASSUME NEW q \in old \ Subtree(p), NEW d \in Path, AtOrBelow(q, d)
              PROVE  d \in old \ Subtree(p)
  BY DEF Closed
<1>1. d \in old
  BY DEF Closed
<1>2. d \notin Subtree(p)
  BY AtOrBelowTransitive DEF Subtree
<1>. QED  BY <1>1, <1>2

-----------------------------------------------------------------------------
(* Types. *)

\* A walk in progress has the type of its fields.
LEMMA WalkTypes ==
    /\ \A roots \in SUBSET Root : StartWalk(roots) \in Walk
    /\ \A walk \in Walk : ReportOf(walk) \in IndexState
<1>1. Root \subseteq Dir
  BY TreeAssumption
<1>. QED  BY <1>1 DEF StartWalk, ReportOf, Walk, IndexState

\* So has a watcher.
LEMMA WatcherTypes ==
    ASSUME NEW w \in Watcher
    PROVE  /\ NoWatcher \in Watcher
           /\ NewWatcher \in Watcher
           /\ \A heard : Told(w, heard) \in Watcher
           /\ \A heard, p : Detached(Told(w, heard), p) \in Watcher
           /\ \A d \in Dir : [w EXCEPT !.watched = @ \cup {d}] \in Watcher
           /\ \A r : Hide(w, r) \in Watcher
           /\ \A heard : \A r \in Root : Reveal(Told(w, heard), r) \in Watcher
<1>1. QueueLimit \in Nat \ {0}
  BY RefreshAssumption
<1>2. NoWatcher \in Watcher /\ NewWatcher \in Watcher
  BY <1>1 DEF NoWatcher, NewWatcher, NothingHidden, Watcher
<1>3. \A heard : Told(w, heard) \in Watcher
  BY <1>1 DEF Told, Push, Watcher
<1>4. \A v \in Watcher : \A p : Detached(v, p) \in Watcher
  BY DEF Detached, Watcher
<1>5. \A v \in Watcher : \A r : Hide(v, r) \in Watcher
  BY DEF Hide, Watcher
<1>6. \A v \in Watcher : \A r \in Root : Reveal(v, r) \in Watcher
  BY DEF Reveal, Watcher
<1>7. \A d \in Dir : [w EXCEPT !.watched = @ \cup {d}] \in Watcher
  BY DEF Watcher
<1>. QED  BY <1>2, <1>3, <1>4, <1>5, <1>6, <1>7

\* What has_changes answers is a Boolean, and the watcher stays a watcher.
LEMMA HasChangesTypes ==
    ASSUME NEW w \in Watcher, NEW answer, NEW after, HasChanges(w, answer, after)
    PROVE  /\ answer \in BOOLEAN
           /\ after \in Watcher
           /\ after.watched = w.watched /\ after.hidden = w.hidden
           /\ after.open = w.open
           /\ w.open /\ w.queue > 0 => answer = TRUE
<1>1. QueueLimit \in Nat /\ BufferEvents \in Nat
  BY RefreshAssumption
<1>2. w.open \in BOOLEAN /\ w.queue \in 0..QueueLimit /\ w.watched \subseteq Dir
  BY DEF Watcher
<1>3. answer = FALSE \/ answer = TRUE
  BY DEF HasChanges
<1>4. after = w \/ after = [w EXCEPT !.queue = IF @ > BufferEvents THEN @ - BufferEvents ELSE 0]
  BY DEF HasChanges
<1>5. /\ after \in Watcher /\ after.open = w.open
      /\ after.watched = w.watched /\ after.hidden = w.hidden
  BY <1>1, <1>2, <1>4 DEF Watcher
<1>6. w.open /\ w.queue > 0 => answer = TRUE
  BY <1>2 DEF HasChanges
<1>. QED  BY <1>3, <1>5, <1>6

\* The roots that can be discovered are roots.
LEMMA DiscoveredRootsAreRoots ==
    ASSUME mounted \subseteq Root, NEW otherwise \in SUBSET Root
    PROVE  DiscoveredRoots(otherwise) \subseteq SUBSET Root
BY RefreshAssumption DEF DiscoveredRoots, Available

\* The types hold at first.
LEMMA InitType == Init => TypeOK
<1>1. Home \in Root
  BY RefreshAssumption
<1>2. QueueLimit \in Nat
  BY RefreshAssumption
<1>. SUFFICES ASSUME Init PROVE TypeOK
  OBVIOUS
<1>3. scan \in Walk /\ snapshot \in IndexState
  BY WalkTypes DEF Init
<1>4. watcher \in Watcher /\ replacement \in Watcher
  BY <1>2 DEF Init, NoWatcher, NothingHidden, Watcher
<1>5. present \subseteq Path /\ mounted \subseteq Root
  BY <1>1 DEF Init
<1>6. under \in [Root -> SUBSET Path]
  <2>1. UNION {Trees(r) : r \in Root} \cup {{}} \subseteq SUBSET Path
    BY DEF Trees, Subtree
  <2>. QED  BY <2>1 DEF Init
<1>. QED  BY <1>3, <1>4, <1>5, <1>6 DEF Init, TypeOK

\* A step of the walk keeps the types.
LEMMA ScanDirectoryType ==
    ASSUME TypeOK, ScanDirectory
    PROVE  TypeOK'
<1>. USE DEF TypeOK, disk, threads, watching, history
<1>. PICK d \in scan.pending : SkipDirectory(d) \/ ReadDirectory(d) \/ TruncateAt(d)
  BY DEF ScanDirectory
<1>0. d \in Dir /\ Listing(present, d) \subseteq Path
  BY DEF Walk, Listing
<1>1. CASE SkipDirectory(d)
  <2>1. scan' \in Walk
    BY <1>1 DEF SkipDirectory, Walk
  <2>. QED  BY <1>1, <2>1 DEF SkipDirectory
<1>2. CASE ReadDirectory(d)
  <2>1. Descend(Listing(present, d)) \subseteq Dir
    BY DEF Descend
  <2>2. scan' \in Walk
    BY <1>0, <1>2, <2>1 DEF ReadDirectory, Walk
  <2>3. bridged' \subseteq Dir
    BY <1>0, <1>2 DEF ReadDirectory
  <2>. QED  BY <1>2, <2>2, <2>3 DEF ReadDirectory
<1>3. CASE TruncateAt(d)
  <2>1. PICK taken \in SUBSET Listing(present, d) :
              scan' = [scan EXCEPT !.scanned = @ \cup {d}, !.listing[d] = taken,
                                   !.pending = {}, !.truncated = TRUE]
    BY <1>3 DEF TruncateAt
  <2>2. scan' \in Walk
    BY <1>0, <2>1 DEF Walk
  <2>3. bridged' \subseteq Dir
    BY <1>3 DEF TruncateAt
  <2>. QED  BY ZenonT(60), <1>3, <2>2, <2>3 DEF TruncateAt
<1>. QED  BY <1>1, <1>2, <1>3

\* A change of the disk keeps the types.
LEMMA EnvironmentType ==
    ASSUME TypeOK, Environment
    PROVE  TypeOK'
<1>. USE DEF TypeOK, threads, watching, history
<1>0. /\ MaxChanges \in Nat
      /\ Changing => changes' \in Nat
      /\ \A p : Subtree(p) \subseteq Path
      /\ Root \subseteq Path
  BY RefreshAssumption, TreeAssumption DEF Changing, Subtree, Dir
<1>1. ASSUME NEW p \in Path \ present, NEW contents \in SUBSET (Subtree(p) \ {p}),
             Appear(p, contents)
      PROVE  TypeOK'
  <2>1. watcher' \in Watcher /\ replacement' \in Watcher
    BY <1>1, WatcherTypes DEF Appear
  <2>2. present' \subseteq Path
    BY <1>0, <1>1 DEF Appear
  <2>. QED  BY <1>0, <1>1, <2>1, <2>2 DEF Appear
<1>2. ASSUME NEW p \in present, Vanish(p)  PROVE TypeOK'
  <2>1. watcher' \in Watcher /\ replacement' \in Watcher
    BY <1>2, WatcherTypes DEF Vanish
  <2>. QED  BY <1>0, <1>2, <2>1 DEF Vanish
<1>3. ASSUME NEW r \in Root, NEW tree \in Trees(r), Mount(r, tree)
      PROVE  TypeOK'
  <2>1. watcher' \in Watcher /\ replacement' \in Watcher
    BY <1>3, WatcherTypes DEF Mount
  <2>2. present' \subseteq Path /\ under' \in [Root -> SUBSET Path]
    BY <1>0, <1>3 DEF Mount, Trees
  <2>. QED  BY <1>0, <1>3, <2>1, <2>2 DEF Mount
<1>4. ASSUME NEW r \in mounted, Unmount(r)  PROVE TypeOK'
  <2>1. watcher' \in Watcher /\ replacement' \in Watcher
    BY <1>4, WatcherTypes DEF Unmount
  <2>2. present' \subseteq Path /\ under' \in [Root -> SUBSET Path]
    BY <1>0, <1>4 DEF Unmount
  <2>. QED  BY <1>0, <1>4, <2>1, <2>2 DEF Unmount
<1>. QED  BY <1>1, <1>2, <1>3, <1>4 DEF Environment

\* A step of the main thread keeps the types.
LEMMA MainType ==
    ASSUME TypeOK, MainStep \/ BeginShutdown
    PROVE  TypeOK'
<1>. USE DEF TypeOK, disk, watching, history
<1>0. {Home} \subseteq Root
  BY RefreshAssumption
<1>1. CASE BeginInitialScan
  <2>1. scan' \in Walk
    BY <1>0, <1>1, WalkTypes, DiscoveredRootsAreRoots DEF BeginInitialScan
  <2>. QED  BY <1>1, <2>1 DEF BeginInitialScan
<1>2. CASE FinishInitialScan
  <2>1. scan' \in Walk /\ snapshot' \in IndexState
    BY <1>2, WalkTypes DEF FinishInitialScan
  <2>. QED  BY <1>2, <2>1 DEF FinishInitialScan
<1>3. CASE Join
  BY <1>3 DEF Join
<1>4. CASE BeginShutdown
  BY <1>4 DEF BeginShutdown
<1>. QED  BY <1>1, <1>2, <1>3, <1>4 DEF MainStep

\* A step of the monitor keeps the types.
LEMMA MonitorType ==
    ASSUME TypeOK, MonitorStep
    PROVE  TypeOK'
<1>. USE DEF TypeOK, disk, watching, history
<1>0. NoWatcher \in Watcher /\ NewWatcher \in Watcher
  BY WatcherTypes
<1>1. CASE StartMonitor
  BY <1>0, <1>1 DEF StartMonitor, OpenWatcher, IndexState
<1>2. CASE AddWatch
  <2>1. PICK d \in to_watch :
          /\ to_watch' = to_watch \ {d}
          /\ \/ replacement' = [replacement EXCEPT !.watched = @ \cup {d}]
             \/ replacement' = replacement
    BY <1>2 DEF AddWatch, LeftToWatch
  <2>2. replacement' \in Watcher
    BY <2>1, WatcherTypes
  <2>3. to_watch' \subseteq Dir
    BY <2>1
  <2>4. UNCHANGED <<disk, threads, scan, snapshot, watcher, refresh_pending,
                    file_changed, fallback_due, history>>
    BY <1>2 DEF AddWatch
  <2>. QED  BY <2>2, <2>3, <2>4 DEF threads
<1>3. CASE FirstWatcherReady
  BY <1>0, <1>3 DEF FirstWatcherReady
<1>4. CASE Wake
  BY <1>0, <1>4 DEF Wake
<1>5. CASE Poll
  <2>1. file_changed' \in BOOLEAN /\ watcher' \in Watcher
    BY <1>5, HasChangesTypes DEF Poll, FileChanged
  <2>. QED  BY <1>5, <2>1 DEF Poll
<1>6. CASE StayIdle
  BY <1>6 DEF StayIdle
<1>7. CASE BeginRebuild
  <2>1. scan' \in Walk
    BY <1>7, WalkTypes, DiscoveredRootsAreRoots DEF BeginRebuild, IndexState
  <2>. QED  BY <1>7, <2>1 DEF BeginRebuild
<1>8. CASE FinishRebuildScan
  BY <1>0, <1>8 DEF FinishRebuildScan, OpenWatcher, Walk
<1>9. CASE FollowUpOld
  <2>1. refresh_pending' \in BOOLEAN /\ watcher' \in Watcher
    BY <1>9, HasChangesTypes DEF FollowUpOld, OldFollowUp
  <2>. QED  BY <1>9, <2>1 DEF FollowUpOld
<1>10. CASE FollowUpNew
  <2>1. refresh_pending' \in BOOLEAN /\ watcher' \in Watcher
    BY <1>10, HasChangesTypes DEF FollowUpNew
  <2>. QED  BY <1>0, <1>10, <2>1 DEF FollowUpNew
<1>11. CASE Publish
  <2>1. scan' \in Walk /\ snapshot' \in IndexState
    BY <1>11, WalkTypes DEF Publish
  <2>. QED  BY <1>11, <2>1 DEF Publish
<1>. QED
  BY <1>1, <1>2, <1>3, <1>4, <1>5, <1>6, <1>7, <1>8, <1>9, <1>10, <1>11 DEF MonitorStep

\* Every step keeps the types: one step of the proof for each action.
LEMMA NextType == TypeOK /\ [Next]_vars => TypeOK'
<1>. SUFFICES ASSUME TypeOK, [Next]_vars PROVE TypeOK'
  OBVIOUS
<1>1. CASE FallbackElapses
  BY <1>1 DEF FallbackElapses, TypeOK, disk, threads, watching, history
<1>2. CASE UNCHANGED vars
  BY <1>2 DEF TypeOK, vars
<1>. QED
  BY <1>1, <1>2, EnvironmentType, ScanDirectoryType, MainType, MonitorType
     DEF Next, Exited

\* The records of IndexState, scan and FileWatcher hold directories and paths
\* of the tree, and the queues stay within their limit, in every behaviour.
THEOREM TypeCorrect == Spec => []TypeOK
<1>. QED  BY InitType, NextType, PTL DEF Spec

-----------------------------------------------------------------------------
(* The inductive invariant. *)

\* The trees a directory can be in: the one that can be reached, and for every
\* volume the one it is mounted over.
Top == <<>>
Layers == {Top} \cup Root
Tree(L) == IF L \in Root THEN under[L] ELSE present
Seen(w, L) == IF L \in Root THEN w.hidden[L] ELSE w.watched

\* Where the threads are with respect to each other, and what that implies.
PhaseInv ==
    /\ monitor = "unborn" <=> main \in {"start", "scan"}
    /\ monitor \in {"unborn", "start", "first_watch"} =>
         /\ covered = {} /\ bridged = {}
         /\ watcher = NoWatcher
    /\ monitor \notin {"first_watch", "watch"} => to_watch = {}
    /\ monitor \notin {"first_watch", "watch", "follow_up"} => replacement = NoWatcher
    /\ monitor = "done" => watcher = NoWatcher
    /\ main = "exit" => monitor = "done"

\* The disk holds a tree, and so does whatever a volume hides.
DiskInv ==
    /\ Closed(present)
    /\ \A r \in Root : under[r] \subseteq Subtree(r)
    /\ \A r \in mounted : Automatic /\ r \in present /\ under[r] \in Trees(r)

\* The watches of w are on what exists, no directory is in two trees for it, and
\* only a volume that is mounted hides a watch: reachable is the tree on top,
\* hides what the volumes hide, and volumes are those that are mounted.
Fits(w, reachable, hides, volumes) ==
    /\ w.watched \subseteq reachable
    /\ \A r \in Root : w.hidden[r] \subseteq hides[r]
    /\ \A r \in Root \ volumes : w.hidden[r] = {}
    /\ \A L, K \in Layers : L = K \/ Seen(w, L) \cap Seen(w, K) = {}
    /\ ~w.open => w = NoWatcher

WatchInv ==
    /\ DiskInv
    /\ Fits(watcher, present, under, mounted)
    /\ Fits(replacement, present, under, mounted)
    /\ ~replacement.open => to_watch = {}
    /\ to_watch \cap Watches(replacement) = {}

\* What index has of d is what the tree L has.
Right(index, L, d) == index.listing[d] = Listing(Tree(L), d)

\* The roots of an index that d is on are there, and what hides d is none of them.
Placed(roots, L, d) ==
    /\ RootsInPlace(roots, d)
    /\ L \in Root => \A r \in roots : AtOrBelow(d, r) => ~AtOrBelow(r, L)

\* The monitor will learn that its index may be wrong.
Known ==
    \/ monitor \in {"park", "poll"} /\ refresh_pending
    \/ monitor = "decide" /\ file_changed
    \/ watcher.queue > 0

\* No change of a covered directory is lost: at every point of the monitor's
\* code some flag or queue still knows of it.
CoverInv ==
    /\ monitor \in {"park", "poll", "decide"} =>
         /\ covered \subseteq Watches(watcher)
         /\ \A L \in Layers : \A d \in covered \cap Seen(watcher, L) :
              Placed(snapshot.roots, L, d) /\ (Right(snapshot, L, d) \/ Known)
    /\ monitor = "decide" => ~refresh_pending
    /\ monitor \in {"scan", "watch", "follow_up", "publish"} =>
         \A d \in bridged : RootsInPlace(scan.roots, d)
    /\ monitor \in {"scan", "watch"} =>
         \A d \in bridged :
            d \in watcher.watched /\ (Right(scan, Top, d) \/ watcher.queue > 0)
    /\ monitor = "follow_up" =>
         \A d \in bridged \cap replacement.watched :
            Right(scan, Top, d) \/ refresh_pending \/ replacement.queue > 0
    /\ monitor = "publish" =>
         \A d \in bridged \cap watcher.watched :
            Right(scan, Top, d) \/ refresh_pending \/ watcher.queue > 0

IndInv == TypeOK /\ PhaseInv /\ WatchInv /\ CoverInv

\* The tree on top is not the one a volume hides.
LEMMA TopIsNoRoot == Top \notin Root /\ Root \subseteq Path
BY TreeAssumption DEF Top, Dir

-----------------------------------------------------------------------------
(* What the disk does to a watcher. *)

\* A closed watcher hears nothing and stays as it is.
LEMMA ClosedWatcherIsDeaf ==
    /\ NoWatcher.watched = {} /\ Watches(NoWatcher) = {} /\ ~NoWatcher.open
    /\ \A r \in Root : NoWatcher.hidden[r] = {}
    /\ \A p : ~Hears(NoWatcher, p)
    /\ \A p : Detached(NoWatcher, p) = NoWatcher
    /\ \A r \in Root : Hide(NoWatcher, r) = NoWatcher
    /\ \A r \in Root : Reveal(NoWatcher, r) = NoWatcher
<1>1. /\ NoWatcher.watched = {} /\ NoWatcher.hidden = NothingHidden /\ ~NoWatcher.open
      /\ \A r \in Root : NothingHidden[r] = {}
  BY DEF NoWatcher, NothingHidden
<1>2. \A r \in Root : [NothingHidden EXCEPT ![r] = {}] = NothingHidden
  BY DEF NothingHidden
<1>3. \A p : ~Hears(NoWatcher, p) /\ Detached(NoWatcher, p) = NoWatcher
  BY <1>1 DEF Hears, Detached, NoWatcher
<1>4. ASSUME NEW r \in Root  PROVE Hide(NoWatcher, r) = NoWatcher
  <2>. DEFINE hidden == NoWatcher.watched \cap Subtree(r)
  <2>1. hidden = {}
    BY <1>1
  <2>. HIDE DEF hidden
  <2>2. Hide(NoWatcher, r) = [NoWatcher EXCEPT !.watched = @ \ Subtree(r),
                                               !.hidden[r] = hidden]
    BY DEF Hide, hidden
  <2>. QED  BY <1>2, <2>1, <2>2 DEF NoWatcher
<1>5. ASSUME NEW r \in Root  PROVE Reveal(NoWatcher, r) = NoWatcher
  BY <1>1, <1>2 DEF Reveal, NoWatcher
<1>. QED  BY <1>1, <1>3, <1>4, <1>5 DEF Watches

\* Telling a watcher keeps what it watches, and leaves something in its queue.
LEMMA ToldWatcher ==
    ASSUME NEW w \in Watcher, NEW heard \in BOOLEAN
    PROVE  LET v == Told(w, heard)
           IN  /\ v \in Watcher /\ v.open = w.open
               /\ v.watched = w.watched /\ v.hidden = w.hidden
               /\ heard \/ w.queue > 0 => v.queue > 0
               /\ ~heard => v = w
<1>1. QueueLimit \in Nat \ {0} /\ w.queue \in 0..QueueLimit
  BY RefreshAssumption DEF Watcher
<1>. QED  BY <1>1 DEF Told, Push, Watcher

\* Directories that vanish only cost a watcher their own watches.
LEMMA DetachedWatcher ==
    ASSUME NEW w \in Watcher, NEW p
    PROVE  LET v == Detached(w, p)
           IN  /\ v.watched = w.watched \ Subtree(p) /\ v.hidden = w.hidden
               /\ v.open = w.open /\ v.queue = w.queue
BY DEF Detached, Watcher

\* A volume hides the watches below its mount point, and gives them back.
LEMMA HiddenWatcher ==
    ASSUME NEW w \in Watcher, NEW r \in Root
    PROVE  LET v == Hide(w, r)
           IN  /\ v.watched = w.watched \ Subtree(r)
               /\ v.hidden[r] = w.watched \cap Subtree(r)
               /\ \A q \in Root \ {r} : v.hidden[q] = w.hidden[q]
               /\ v.open = w.open /\ v.queue = w.queue
BY DEF Hide, Watcher

LEMMA RevealedWatcher ==
    ASSUME NEW w \in Watcher, NEW r \in Root
    PROVE  LET v == Reveal(w, r)
           IN  /\ v.watched = (w.watched \ Subtree(r)) \cup w.hidden[r]
               /\ v.hidden[r] = {}
               /\ \A q \in Root \ {r} : v.hidden[q] = w.hidden[q]
               /\ v.open = w.open /\ v.queue = w.queue
BY DEF Reveal, Watcher

\* What a change of the disk does to a watcher that becomes v: a directory it
\* still watches has the entries it had, in whatever tree, or there is something
\* in its queue; nothing leaves the queue; and it watches no more than it did.
KeepsTelling(w, v) ==
    /\ w.queue > 0 => v.queue > 0
    /\ Watches(v) \subseteq Watches(w)
    /\ \A L, K \in Layers : \A d \in Seen(v, L) \cap Seen(w, K) :
         Entries(Tree(L)', d) = Entries(Tree(K), d) \/ v.queue > 0
    /\ \A d \in bridged' : d \in v.watched <=> d \in w.watched

\* Something that appears in a watched directory is told to its watcher.
LEMMA AppearIsTold ==
    ASSUME TypeOK, DiskInv, NEW w \in Watcher, Fits(w, present, under, mounted),
           NEW p \in Path \ present, NEW contents \in SUBSET (Subtree(p) \ {p}),
           Appear(p, contents)
    PROVE  LET v == Told(w, Hears(w, p))
           IN  v.open = w.open /\ KeepsTelling(w, v) /\ Fits(v, present', under', mounted')
<1>. DEFINE v == Told(w, Hears(w, p))
<1>1. /\ v.watched = w.watched /\ v.hidden = w.hidden /\ v.open = w.open
      /\ Hears(w, p) \/ w.queue > 0 => v.queue > 0
      /\ ~Hears(w, p) => v = w
  BY ToldWatcher DEF Hears
<1>2. /\ UNCHANGED <<mounted, under, bridged>>
      /\ present \in SUBSET Path /\ Closed(present) /\ present \subseteq present'
  BY DEF TypeOK, DiskInv, Appear, history
<1>3. ASSUME NEW d \in w.watched, ~Hears(w, p)
      PROVE  Entries(present', d) = Entries(present, d)
  <2>1. p \notin ChildrenOf(d)
    BY <1>3 DEF Hears
  <2>2. p \in Subtree(p)
    BY AtItself DEF Subtree
  <2>3. present' \ present \subseteq Subtree(p) /\ present' \in SUBSET Path /\ d \in present
    BY <1>2, <2>2 DEF Appear, Subtree, Fits
  <2>. QED  BY <1>2, <2>1, <2>3, EntriesAfterGrowth
<1>. HIDE DEF v
<1>4. \A L \in Layers : Seen(v, L) = Seen(w, L)
  BY <1>1 DEF Seen
<1>5. ASSUME NEW L \in Layers, NEW K \in Layers, NEW d \in Seen(v, L) \cap Seen(w, K),
             ~(v.queue > 0)
      PROVE  Entries(Tree(L)', d) = Entries(Tree(K), d)
  <2>1. L = K
    BY <1>4, <1>5 DEF Fits
  <2>2. CASE L \in Root
    BY <1>2, <2>1, <2>2 DEF Tree
  <2>3. CASE L \notin Root
    BY <1>1, <1>3, <1>5, <2>1, <2>3 DEF Tree, Seen
  <2>. QED  BY <2>2, <2>3
<1>6. Watches(v) = Watches(w)
  BY <1>1 DEF Watches
<1>7. KeepsTelling(w, v)
  BY <1>1, <1>5, <1>6 DEF KeepsTelling
<1>8. Fits(v, present', under', mounted')
  <2>1. ~v.open => v = NoWatcher
    BY <1>1, ClosedWatcherIsDeaf DEF Fits
  <2>. QED  BY <1>1, <1>2, <1>4, <2>1 DEF Fits
<1>. QED  BY <1>1, <1>7, <1>8 DEF v

\* So is something that vanishes from it, or with it.
LEMMA VanishIsTold ==
    ASSUME TypeOK, DiskInv, NEW w \in Watcher, Fits(w, present, under, mounted),
           NEW p \in present, Vanish(p)
    PROVE  LET v == Detached(Told(w, Hears(w, p)), p)
           IN  v.open = w.open /\ KeepsTelling(w, v) /\ Fits(v, present', under', mounted')
<1>. DEFINE v == Detached(Told(w, Hears(w, p)), p)
<1>1. /\ v.watched = w.watched \ Subtree(p) /\ v.hidden = w.hidden /\ v.open = w.open
      /\ Hears(w, p) \/ w.queue > 0 => v.queue > 0
      /\ ~Hears(w, p) => v = Detached(w, p)
  <2>1. Hears(w, p) \in BOOLEAN
    BY DEF Hears
  <2>. HIDE DEF Hears
  <2>. QED  BY <2>1, ToldWatcher, DetachedWatcher
<1>2. /\ UNCHANGED <<mounted, under>> /\ bridged' = bridged \ Subtree(p)
      /\ present \in SUBSET Path /\ present' = present \ Subtree(p)
  BY DEF TypeOK, Vanish
<1>3. ASSUME NEW d \in w.watched \ Subtree(p), ~Hears(w, p)
      PROVE  Entries(present', d) = Entries(present, d)
  <2>1. p \notin ChildrenOf(d) /\ d \in Path \ Subtree(p) /\ p \in Path
    BY <1>3 DEF Hears, TypeOK, Watcher, Dir
  <2>. QED  BY <1>2, <2>1, EntriesAfterRemoval
<1>. HIDE DEF v
<1>4. \A L \in Layers : Seen(v, L) \subseteq Seen(w, L)
  BY <1>1 DEF Seen
<1>5. ASSUME NEW L \in Layers, NEW K \in Layers, NEW d \in Seen(v, L) \cap Seen(w, K),
             ~(v.queue > 0)
      PROVE  Entries(Tree(L)', d) = Entries(Tree(K), d)
  <2>1. L = K
    BY <1>4, <1>5 DEF Fits
  <2>2. CASE L \in Root
    BY <1>2, <2>1, <2>2 DEF Tree
  <2>3. CASE L \notin Root
    BY <1>1, <1>3, <1>5, <2>1, <2>3 DEF Tree, Seen
  <2>. QED  BY <2>2, <2>3
<1>6. Watches(v) \subseteq Watches(w)
  BY <1>1 DEF Watches
<1>7. KeepsTelling(w, v)
  BY <1>1, <1>2, <1>5, <1>6 DEF KeepsTelling
<1>8. Fits(v, present', under', mounted')
  <2>1. ~v.open => v = NoWatcher
    BY <1>1, ClosedWatcherIsDeaf DEF Fits
  <2>2. v.watched \subseteq present'
    BY <1>1, <1>2 DEF Fits
  <2>3. /\ \A r \in Root : v.hidden[r] \subseteq under'[r]
        /\ \A r \in Root \ mounted' : v.hidden[r] = {}
    BY <1>1, <1>2 DEF Fits
  <2>4. \A L, K \in Layers : L = K \/ Seen(v, L) \cap Seen(v, K) = {}
    BY <1>4 DEF Fits
  <2>. QED  BY <2>1, <2>2, <2>3, <2>4 DEF Fits
<1>. QED  BY <1>1, <1>7, <1>8 DEF v

\* A volume that is mounted tells a watcher nothing, and takes nothing from it: what
\* it watched there it watches in the tree that is hidden.
LEMMA MountIsTold ==
    ASSUME TypeOK, DiskInv, NEW w \in Watcher, Fits(w, present, under, mounted),
           NEW r \in Root, NEW tree \in Trees(r), Mount(r, tree)
    PROVE  LET v == Hide(w, r)
           IN  /\ v.open = w.open /\ Watches(v) = Watches(w)
               /\ KeepsTelling(w, v) /\ Fits(v, present', under', mounted')
<1>. DEFINE v == Hide(w, r)
<1>1. /\ v.watched = w.watched \ Subtree(r) /\ v.hidden[r] = w.watched \cap Subtree(r)
      /\ \A q \in Root \ {r} : v.hidden[q] = w.hidden[q]
      /\ v.open = w.open /\ v.queue = w.queue
  BY HiddenWatcher
<1>2. /\ mounted' = mounted \cup {r} /\ bridged' = bridged \ Subtree(r)
      /\ present \in SUBSET Path /\ present' = (present \ Subtree(r)) \cup tree
      /\ under'[r] = present \cap Subtree(r)
      /\ \A q \in Root \ {r} : under'[q] = under[q]
      /\ tree \in SUBSET Subtree(r) /\ r \in tree /\ r \in present /\ r \in Path
  BY DEF TypeOK, Mount, Trees
<1>3. r \notin mounted
  <2>1. AtOrBelow(r, r)
    BY <1>2, AtItself
  <2>. QED  BY <2>1 DEF Mount, MountsBelow
<1>4. w.hidden[r] = {} /\ w.watched \subseteq Path
  BY <1>2, <1>3 DEF Fits
<1>5. ~v.open => v = NoWatcher
  BY <1>1, ClosedWatcherIsDeaf DEF Fits
<1>. HIDE DEF v
<1>6. Watches(v) = Watches(w)
  <2>1. \A q \in Root : v.hidden[q] \subseteq Watches(w) /\ w.hidden[q] \subseteq Watches(v)
    <3>. SUFFICES ASSUME NEW q \in Root
                  PROVE  v.hidden[q] \subseteq Watches(w) /\ w.hidden[q] \subseteq Watches(v)
      OBVIOUS
    <3>1. CASE q = r
      BY <1>1, <1>4, <3>1 DEF Watches
    <3>2. CASE q # r
      BY <1>1, <3>2 DEF Watches
    <3>. QED  BY <3>1, <3>2
  <2>2. v.watched \subseteq Watches(w)
    BY <1>1 DEF Watches
  <2>3. w.watched \subseteq Watches(v)
    BY <1>1 DEF Watches
  <2>. QED  BY <2>1, <2>2, <2>3 DEF Watches
<1>7. ASSUME NEW L \in Layers, NEW K \in Layers, NEW d \in Seen(v, L) \cap Seen(w, K)
      PROVE  Entries(Tree(L)', d) = Entries(Tree(K), d)
  <2>1. CASE L \in Root \ {r}
    <3>1. d \in Seen(w, L) /\ L = K
      BY <1>1, <1>7, <2>1 DEF Seen, Fits
    <3>. QED  BY <1>2, <2>1, <3>1 DEF Tree
  <2>2. CASE L \notin Root \ {r}
    <3>1. d \in w.watched /\ (L = r <=> d \in Subtree(r)) /\ L \in {Top, r}
      BY <1>1, <1>7, <2>2, TopIsNoRoot DEF Seen, Layers
    <3>2. d \in Seen(w, Top) /\ Top \in Layers
      BY <3>1, TopIsNoRoot DEF Seen, Layers
    <3>3. K = Top /\ d \in Path
      BY <1>4, <1>7, <3>1, <3>2 DEF Fits
    <3>4. CASE L = r
      <4>1. Entries(present, d) = Entries(present \cap Subtree(r), d)
        BY <1>2, <3>1, <3>3, <3>4, EntriesInReplacement
      <4>. QED  BY <1>2, <3>3, <3>4, <4>1, TopIsNoRoot DEF Tree
    <3>5. CASE L = Top
      <4>1. Entries(present', d) = Entries(present, d)
        <5>1. d \in Path \ Subtree(r)
          BY <1>2, <3>1, <3>3, <3>5, TopIsNoRoot
        <5>2. Entries((present \ Subtree(r)) \cup tree, d) = Entries(present, d)
          BY <1>2, <5>1, EntriesBesideReplacement
        <5>. QED  BY <1>2, <5>2
      <4>. QED  BY <3>3, <3>5, <4>1, TopIsNoRoot DEF Tree
    <3>. QED  BY <3>1, <3>4, <3>5
  <2>. QED  BY <2>1, <2>2
<1>8. KeepsTelling(w, v)
  <2>1. \A d \in bridged' : d \in v.watched <=> d \in w.watched
    BY <1>1, <1>2
  <2>. QED  BY <1>1, <1>6, <1>7, <2>1 DEF KeepsTelling
<1>9. Fits(v, present', under', mounted')
  <2>1. v.watched \subseteq present'
    BY <1>1, <1>2 DEF Fits
  <2>2. /\ \A q \in Root : v.hidden[q] \subseteq under'[q]
        /\ \A q \in Root \ mounted' : v.hidden[q] = {}
    BY <1>1, <1>2 DEF Fits
  <2>3. ASSUME NEW L \in Layers, NEW K \in Layers, L # K
        PROVE  Seen(v, L) \cap Seen(v, K) = {}
    <3>1. Seen(w, Top) = w.watched /\ Top \in Layers
      BY TopIsNoRoot DEF Seen, Layers
    <3>2. \A M \in Layers \ {Top, r} : Seen(v, M) = Seen(w, M) /\ M # Top
      BY <1>1 DEF Seen, Layers
    <3>3. Seen(v, Top) = w.watched \ Subtree(r) /\ Seen(v, r) = w.watched \cap Subtree(r)
      BY <1>1, TopIsNoRoot DEF Seen
    <3>4. \A M \in Layers \ {Top} : Seen(w, M) \cap w.watched = {}
      BY <3>1 DEF Fits
    <3>. QED  BY <2>3, <3>2, <3>3, <3>4 DEF Fits
  <2>. QED  BY <1>5, <2>1, <2>2, <2>3 DEF Fits
<1>. QED  BY <1>1, <1>6, <1>8, <1>9 DEF v

\* A volume that is unmounted takes its watches with it, which is told, and gives back
\* those on what it hid.
LEMMA UnmountIsTold ==
    ASSUME TypeOK, DiskInv, NEW w \in Watcher, Fits(w, present, under, mounted),
           NEW r \in mounted, Unmount(r)
    PROVE  LET v == Reveal(Told(w, w.watched \cap Subtree(r) # {}), r)
           IN  v.open = w.open /\ KeepsTelling(w, v) /\ Fits(v, present', under', mounted')
<1>. DEFINE heard == w.watched \cap Subtree(r) # {}
            u == Told(w, heard)
            v == Reveal(u, r)
<1>0. r \in Root /\ heard \in BOOLEAN
  BY DEF TypeOK
<1>1. /\ v.watched = (w.watched \ Subtree(r)) \cup w.hidden[r] /\ v.hidden[r] = {}
      /\ \A q \in Root \ {r} : v.hidden[q] = w.hidden[q]
      /\ v.open = w.open
      /\ w.queue > 0 => v.queue > 0
      /\ heard => v.queue > 0
      /\ ~heard => v = Reveal(w, r)
  <2>. HIDE DEF heard
  <2>1. /\ u \in Watcher /\ u.open = w.open /\ u.watched = w.watched
        /\ u.hidden = w.hidden /\ (heard \/ w.queue > 0 => u.queue > 0)
        /\ ~heard => u = w
    BY <1>0, ToldWatcher
  <2>. HIDE DEF u
  <2>2. /\ v.watched = (u.watched \ Subtree(r)) \cup u.hidden[r] /\ v.hidden[r] = {}
        /\ \A q \in Root \ {r} : v.hidden[q] = u.hidden[q]
        /\ v.open = u.open /\ v.queue = u.queue
    BY <1>0, <2>1, RevealedWatcher
  <2>. QED  BY <2>1, <2>2
<1>2. /\ mounted' = mounted \ {r} /\ bridged' = bridged \ Subtree(r)
      /\ present \in SUBSET Path /\ present' = (present \ Subtree(r)) \cup under[r]
      /\ \A q \in Root \ {r} : under'[q] = under[q]
      /\ under[r] \in SUBSET Subtree(r) /\ r \in under[r] /\ r \in present /\ r \in Path
      /\ w.hidden[r] \subseteq under[r]
  BY <1>0, TopIsNoRoot DEF TypeOK, Unmount, DiskInv, Trees, Fits
<1>3. ~v.open => v = NoWatcher
  <2>1. CASE ~w.open
    <3>1. w = NoWatcher /\ ~heard
      BY <2>1, ClosedWatcherIsDeaf DEF Fits
    <3>. QED  BY <1>0, <1>1, <3>1, ClosedWatcherIsDeaf
  <2>. QED  BY <1>1, <2>1
<1>. HIDE DEF v, u, heard
<1>4. /\ Seen(w, Top) = w.watched /\ Seen(w, r) = w.hidden[r]
      /\ Seen(v, Top) = v.watched /\ Seen(v, r) = {}
      /\ Top \in Layers /\ r \in Layers /\ Top # r
      /\ \A M \in Layers \ {Top, r} : Seen(v, M) = Seen(w, M) /\ M \in Root \ {r}
      /\ \A L, K \in Layers : L = K \/ Seen(w, L) \cap Seen(w, K) = {}
  BY <1>0, <1>1, TopIsNoRoot DEF Seen, Layers, Fits
<1>5. ASSUME NEW L \in Layers, NEW K \in Layers, NEW d \in Seen(v, L) \cap Seen(w, K)
      PROVE  Entries(Tree(L)', d) = Entries(Tree(K), d)
  <2>1. CASE L \in Layers \ {Top, r}
    <3>1. L = K /\ L \in Root \ {r}
      BY <1>4, <1>5, <2>1
    <3>. QED  BY <1>2, <3>1 DEF Tree
  <2>2. CASE L = Top /\ d \in w.hidden[r]
    <3>1. K = r /\ d \in Subtree(r) /\ d \in Path
      BY <1>2, <1>4, <1>5, <2>2 DEF Subtree
    <3>2. Entries(present', d) = Entries(under[r], d)
      <4>1. Entries((present \ Subtree(r)) \cup under[r], d) = Entries(under[r], d)
        <5>1. present \in SUBSET Path /\ under[r] \in SUBSET Subtree(r) /\ r \in Path
          BY <1>2
        <5>. QED  BY <3>1, <5>1, EntriesInReplacement, Zenon
      <4>2. present' = (present \ Subtree(r)) \cup under[r]
        BY <1>2
      <4>. QED  BY <4>1, <4>2, Zenon
    <3>. QED  BY <1>0, <2>2, <3>1, <3>2, TopIsNoRoot DEF Tree
  <2>3. CASE L = Top /\ d \in w.watched \ Subtree(r)
    <3>1. K = Top
      BY <1>4, <1>5, <2>3
    <3>2. d \in Path \ Subtree(r)
      BY <1>2, <2>3 DEF Fits
    <3>3. Entries((present \ Subtree(r)) \cup under[r], d) = Entries(present, d)
      BY <1>2, <3>2, EntriesBesideReplacement
    <3>. QED  BY <1>2, <2>3, <3>1, <3>3, TopIsNoRoot DEF Tree
  <2>. QED  BY <1>1, <1>4, <1>5, <2>1, <2>2, <2>3
<1>6. Watches(v) \subseteq Watches(w)
  <2>1. v.watched \subseteq Watches(w)
    BY <1>0, <1>1 DEF Watches
  <2>2. \A q \in Root : v.hidden[q] \subseteq Watches(w)
    BY <1>1 DEF Watches
  <2>. QED  BY <2>1, <2>2 DEF Watches
<1>7. KeepsTelling(w, v)
  <2>1. \A d \in bridged' : d \in v.watched <=> d \in w.watched
    BY <1>1, <1>2
  <2>. QED  BY <1>1, <1>5, <1>6, <2>1 DEF KeepsTelling
<1>8. Fits(v, present', under', mounted')
  <2>1. v.watched \subseteq present'
    BY <1>1, <1>2 DEF Fits
  <2>2. ASSUME NEW q \in Root
        PROVE  v.hidden[q] \subseteq under'[q] /\ (q \notin mounted' => v.hidden[q] = {})
    <3>1. CASE q = r
      BY <1>1, <3>1
    <3>2. CASE q # r
      BY <1>1, <1>2, <3>2 DEF Fits
    <3>. QED  BY <3>1, <3>2
  <2>3. ASSUME NEW L \in Layers, NEW K \in Layers, L # K
        PROVE  Seen(v, L) \cap Seen(v, K) = {}
    <3>1. Seen(v, Top) \subseteq Seen(w, Top) \cup Seen(w, r)
      BY <1>1, <1>4
    <3>. QED  BY <1>4, <2>3, <3>1
  <2>. QED  BY <1>3, <2>1, <2>2, <2>3 DEF Fits
<1>. QED  BY <1>1, <1>7, <1>8 DEF v, u, heard

BothKeepTelling ==
    KeepsTelling(watcher, watcher') /\ KeepsTelling(replacement, replacement')

\* What a change of the disk does to the roots: one that a directory is on, that is
\* covered or bridged afterwards, stays where it is.
PlacesKept ==
    /\ \A roots \in SUBSET Root : \A L, K \in Layers :
         \A d \in covered \cap Seen(watcher', L) \cap Seen(watcher, K) :
            Placed(roots, K, d) => Placed(roots, L, d)'
    /\ \A roots \in SUBSET Root : \A d \in bridged' :
         RootsInPlace(roots, d) => RootsInPlace(roots, d)'

\* Everything that a change of the disk has to keep.
DiskStep ==
    /\ BothKeepTelling /\ PlacesKept
    /\ DiskInv'
    /\ Fits(watcher', present', under', mounted')
    /\ Fits(replacement', present', under', mounted')
    /\ watcher'.open = watcher.open /\ replacement'.open = replacement.open
    /\ covered' \subseteq covered /\ bridged' \subseteq bridged
    /\ covered \subseteq Watches(watcher) => covered' \subseteq Watches(watcher')
    /\ UNCHANGED <<main, monitor, scan, snapshot, to_watch, refresh_pending, file_changed>>

-----------------------------------------------------------------------------
(* Preservation of the inductive invariant, one lemma per party. *)

\* The inductive invariant holds at first.
LEMMA InitInd == Init => IndInv
<1>. SUFFICES ASSUME Init PROVE IndInv
  OBVIOUS
<1>1. TypeOK
  BY InitType
<1>2. PhaseInv
  BY DEF Init, PhaseInv
<1>3. DiskInv
  <2>1. \A r \in Root : under[r] \in Trees(r) \/ under[r] = {}
    BY DEF Init
  <2>2. \A r \in mounted : Automatic /\ r \in present /\ under[r] \in Trees(r)
    BY DEF Init
  <2>3. Closed(present)
    BY DEF Init
  <2>. QED  BY <2>1, <2>2, <2>3 DEF DiskInv, Trees
<1>4. Fits(NoWatcher, present, under, mounted)
  BY ClosedWatcherIsDeaf DEF Fits, Seen, Layers
<1>5. WatchInv
  BY <1>3, <1>4, ClosedWatcherIsDeaf DEF Init, WatchInv
<1>6. CoverInv
  BY DEF Init, CoverInv
<1>. QED  BY <1>1, <1>2, <1>5, <1>6 DEF IndInv

\* When both watchers keep telling and lose no directory but with the
\* history's, the invariant of coverage survives a change of the disk.
LEMMA DiskKeepsCover ==
    ASSUME IndInv, DiskStep
    PROVE  CoverInv'
<1>. USE DEF DiskStep
<1>0. /\ CoverInv /\ snapshot.roots \in SUBSET Root /\ scan.roots \in SUBSET Root
      /\ KeepsTelling(watcher, watcher') /\ KeepsTelling(replacement, replacement')
  BY DEF IndInv, TypeOK, Walk, IndexState, BothKeepTelling
<1>1. /\ Known => Known'
      /\ Top \in Layers
      /\ \A w : Seen(w, Top) = w.watched
  BY <1>0, TopIsNoRoot DEF Known, KeepsTelling, Layers, Seen
<1>2. ASSUME NEW L \in Layers, NEW K \in Layers, NEW v, NEW w, KeepsTelling(w, v),
             NEW d \in Seen(v, L) \cap Seen(w, K)
      PROVE  Listing(Tree(L)', d) = Listing(Tree(K), d) \/ v.queue > 0
  BY <1>2 DEF KeepsTelling, Entries, Listing
<1>3. CASE monitor \in {"park", "poll", "decide"}
  <2>1. covered \subseteq Watches(watcher) /\ covered' \subseteq Watches(watcher')
    BY <1>0, <1>3 DEF CoverInv
  <2>2. ASSUME NEW L \in Layers, NEW d \in covered' \cap Seen(watcher', L)
        PROVE  /\ Placed(snapshot.roots, L, d)'
               /\ Right(snapshot, L, d)' \/ Known'
    <3>1. PICK K \in Layers : d \in Seen(watcher, K)
      BY <2>1, <2>2, TopIsNoRoot DEF Watches, Seen, Layers
    <3>2. Placed(snapshot.roots, K, d) /\ (Right(snapshot, K, d) \/ Known)
      BY <1>0, <1>3, <2>2, <3>1 DEF CoverInv
    <3>3. Placed(snapshot.roots, L, d)'
      BY <1>0, <2>2, <3>1, <3>2 DEF PlacesKept, Placed, RootsInPlace
    <3>4. Listing(Tree(L)', d) = Listing(Tree(K), d) \/ watcher'.queue > 0
      BY <1>0, <1>2, <2>2, <3>1
    <3>. QED  BY <1>1, <3>2, <3>3, <3>4 DEF Right, Known
  <2>. QED  BY <1>0, <1>3, <2>1, <2>2 DEF CoverInv
<1>4. ASSUME NEW d \in bridged', monitor \in {"scan", "watch", "follow_up", "publish"}
      PROVE  RootsInPlace(scan.roots, d)'
  BY <1>0, <1>4 DEF CoverInv, PlacesKept, RootsInPlace
<1>5. ASSUME NEW v, NEW w, KeepsTelling(w, v), NEW d \in v.watched \cap w.watched,
             Right(scan, Top, d)
      PROVE  Right(scan, Top, d)' \/ v.queue > 0
  <2>1. d \in Seen(v, Top) \cap Seen(w, Top)
    BY <1>1, <1>5
  <2>2. Listing(Tree(Top)', d) = Listing(Tree(Top), d) \/ v.queue > 0
    BY <1>1, <1>2, <1>5, <2>1
  <2>. QED  BY <1>5, <2>2 DEF Right
<1>6. CASE monitor \in {"scan", "watch"}
  <2>1. ASSUME NEW d \in bridged'
        PROVE  d \in watcher'.watched /\ (Right(scan, Top, d)' \/ watcher'.queue > 0)
    <3>1. d \in watcher.watched /\ (Right(scan, Top, d) \/ watcher.queue > 0)
      BY <1>0, <1>6 DEF CoverInv
    <3>2. d \in watcher'.watched
      BY <1>0, <3>1 DEF KeepsTelling
    <3>. QED  BY <1>0, <1>5, <3>1, <3>2 DEF KeepsTelling
  <2>. QED  BY <1>4, <1>6, <2>1 DEF CoverInv
<1>7. CASE monitor = "follow_up"
  <2>1. ASSUME NEW d \in bridged' \cap replacement'.watched
        PROVE  Right(scan, Top, d)' \/ refresh_pending \/ replacement'.queue > 0
    <3>1. d \in replacement.watched
      BY <1>0, <2>1 DEF KeepsTelling
    <3>2. Right(scan, Top, d) \/ refresh_pending \/ replacement.queue > 0
      BY <1>0, <1>7, <3>1 DEF CoverInv
    <3>. QED  BY <1>0, <1>5, <3>1, <3>2 DEF KeepsTelling
  <2>. QED  BY <1>4, <1>7, <2>1 DEF CoverInv
<1>8. CASE monitor = "publish"
  <2>1. ASSUME NEW d \in bridged' \cap watcher'.watched
        PROVE  Right(scan, Top, d)' \/ refresh_pending \/ watcher'.queue > 0
    <3>1. d \in watcher.watched
      BY <1>0, <2>1 DEF KeepsTelling
    <3>2. Right(scan, Top, d) \/ refresh_pending \/ watcher.queue > 0
      BY <1>0, <1>8, <3>1 DEF CoverInv
    <3>. QED  BY <1>0, <1>5, <3>1, <3>2 DEF KeepsTelling
  <2>. QED  BY <1>4, <1>8, <2>1 DEF CoverInv
<1>9. CASE monitor \notin {"park", "poll", "decide", "scan", "watch", "follow_up", "publish"}
  BY <1>9 DEF CoverInv
<1>. QED  BY <1>3, <1>6, <1>7, <1>8, <1>9

\* So does the rest of the invariant.
LEMMA DiskKeepsInd ==
    ASSUME IndInv, DiskStep, TypeOK'
    PROVE  IndInv'
<1>. USE DEF IndInv, DiskStep
<1>1. /\ watcher = NoWatcher => watcher' = NoWatcher
      /\ replacement = NoWatcher => replacement' = NoWatcher
  BY ClosedWatcherIsDeaf DEF Fits
<1>2. PhaseInv'
  BY <1>1 DEF PhaseInv
<1>3. to_watch' \cap Watches(replacement') = {}
  BY DEF WatchInv, BothKeepTelling, KeepsTelling
<1>4. WatchInv'
  BY <1>3 DEF WatchInv
<1>. QED  BY <1>2, <1>4, DiskKeepsCover

\* A tree that appears does all this.
LEMMA AppearStep ==
    ASSUME IndInv, NEW p \in Path \ present, NEW contents \in SUBSET (Subtree(p) \ {p}),
           Appear(p, contents)
    PROVE  DiskStep
<1>0. /\ TypeOK /\ DiskInv /\ watcher \in Watcher /\ replacement \in Watcher
      /\ Fits(watcher, present, under, mounted) /\ Fits(replacement, present, under, mounted)
  BY DEF IndInv, TypeOK, WatchInv
<1>1. /\ UNCHANGED <<mounted, under, main, monitor, scan, snapshot, to_watch,
                     refresh_pending, file_changed, covered, bridged>>
      /\ watcher' = Told(watcher, Hears(watcher, p))
      /\ replacement' = Told(replacement, Hears(replacement, p))
      /\ Closed(present') /\ present \subseteq present'
  BY DEF Appear, threads, history
<1>2. /\ watcher'.open = watcher.open /\ KeepsTelling(watcher, watcher')
      /\ Fits(watcher', present', under', mounted')
      /\ replacement'.open = replacement.open /\ KeepsTelling(replacement, replacement')
      /\ Fits(replacement', present', under', mounted')
  BY <1>0, <1>1, AppearIsTold
<1>3. DiskInv'
  BY <1>0, <1>1 DEF DiskInv
<1>4. Hears(watcher, p) \in BOOLEAN
  BY DEF Hears
<1>5. watcher'.watched = watcher.watched /\ watcher'.hidden = watcher.hidden
  BY <1>0, <1>1, <1>4, ToldWatcher
<1>6. PlacesKept
  <2>1. \A L, K \in Layers : Seen(watcher', L) \cap Seen(watcher, K) # {} => L = K
    BY <1>0, <1>5 DEF Seen, Fits
  <2>. QED  BY <1>1, <2>1 DEF PlacesKept, Placed, RootsInPlace
<1>7. Watches(watcher') = Watches(watcher)
  BY <1>5 DEF Watches
<1>. QED  BY <1>1, <1>2, <1>3, <1>6, <1>7 DEF DiskStep, BothKeepTelling

\* So does one that vanishes.
LEMMA VanishStep ==
    ASSUME IndInv, NEW p \in present, Vanish(p)
    PROVE  DiskStep
<1>0. /\ TypeOK /\ DiskInv /\ watcher \in Watcher /\ replacement \in Watcher
      /\ Fits(watcher, present, under, mounted) /\ Fits(replacement, present, under, mounted)
      /\ p \in Path /\ present \in SUBSET Path /\ mounted \subseteq Path
  BY TopIsNoRoot DEF IndInv, TypeOK, WatchInv
<1>1. /\ UNCHANGED <<mounted, under, main, monitor, scan, snapshot, to_watch,
                     refresh_pending, file_changed>>
      /\ watcher' = Detached(Told(watcher, Hears(watcher, p)), p)
      /\ replacement' = Detached(Told(replacement, Hears(replacement, p)), p)
      /\ present' = present \ Subtree(p)
      /\ bridged' = bridged \ Subtree(p) /\ covered' = covered \cap Watches(watcher')
  BY DEF Vanish, threads
<1>2. /\ watcher'.open = watcher.open /\ KeepsTelling(watcher, watcher')
      /\ Fits(watcher', present', under', mounted')
      /\ replacement'.open = replacement.open /\ KeepsTelling(replacement, replacement')
      /\ Fits(replacement', present', under', mounted')
  BY <1>0, <1>1, VanishIsTold
<1>3. DiskInv'
  <2>1. Closed(present')
    BY <1>0, <1>1, ClosedAfterRemoval DEF DiskInv
  <2>2. \A r \in mounted : r \in present'
    BY <1>0, <1>1 DEF DiskInv, Vanish, MountsBelow, Subtree
  <2>. QED  BY <1>0, <1>1, <2>1, <2>2 DEF DiskInv
<1>4. Hears(watcher, p) \in BOOLEAN
  BY DEF Hears
<1>5. watcher'.watched \subseteq watcher.watched /\ watcher'.hidden = watcher.hidden
  <2>. HIDE DEF Hears
  <2>. QED  BY <1>0, <1>1, <1>4, ToldWatcher, DetachedWatcher
<1>6. PlacesKept
  <2>1. \A L, K \in Layers : Seen(watcher', L) \cap Seen(watcher, K) # {} => L = K
    BY <1>0, <1>5 DEF Seen, Fits
  <2>. QED  BY <1>1, <2>1 DEF PlacesKept, Placed, RootsInPlace
<1>. QED  BY <1>1, <1>2, <1>3, <1>6 DEF DiskStep, BothKeepTelling

\* A volume is mounted: no root of the index lies between it and a covered directory.
LEMMA MountStep ==
    ASSUME IndInv, NEW r \in Root, NEW tree \in Trees(r), Mount(r, tree)
    PROVE  DiskStep
<1>0. /\ TypeOK /\ DiskInv /\ watcher \in Watcher /\ replacement \in Watcher
      /\ Fits(watcher, present, under, mounted) /\ Fits(replacement, present, under, mounted)
      /\ present \in SUBSET Path /\ r \in Path /\ mounted \subseteq Root
  BY TopIsNoRoot DEF IndInv, TypeOK, WatchInv
<1>1. /\ UNCHANGED <<main, monitor, scan, snapshot, to_watch, refresh_pending,
                     file_changed, covered>>
      /\ watcher' = Hide(watcher, r) /\ replacement' = Hide(replacement, r)
      /\ present' = (present \ Subtree(r)) \cup tree /\ mounted' = mounted \cup {r}
      /\ under' = [under EXCEPT ![r] = present \cap Subtree(r)]
      /\ bridged' = bridged \ Subtree(r)
      /\ Automatic /\ r # Home /\ r \in present /\ MountsBelow(r) = {}
  BY DEF Mount, threads
<1>2. /\ watcher'.open = watcher.open /\ KeepsTelling(watcher, watcher')
      /\ Fits(watcher', present', under', mounted')
      /\ replacement'.open = replacement.open /\ KeepsTelling(replacement, replacement')
      /\ Fits(replacement', present', under', mounted')
      /\ Watches(watcher') = Watches(watcher)
  BY <1>0, <1>1, MountIsTold
<1>3. /\ under'[r] = present \cap Subtree(r) /\ under'[r] \in Trees(r)
      /\ \A q \in Root \ {r} : under'[q] = under[q]
  <2>1. under'[r] = present \cap Subtree(r) /\ \A q \in Root \ {r} : under'[q] = under[q]
    BY <1>0, <1>1 DEF TypeOK
  <2>2. r \in Subtree(r)
    BY <1>0, AtItself DEF Subtree
  <2>3. \A p \in present \cap Subtree(r), d \in Subtree(r) :
          AtOrBelow(p, d) => d \in present \cap Subtree(r)
    BY <1>0 DEF DiskInv, Closed, Subtree
  <2>4. present \cap Subtree(r) \in Trees(r)
    BY <1>1, <2>2, <2>3 DEF Trees
  <2>. QED  BY <2>1, <2>4
<1>4. DiskInv'
  <2>1. Closed(present')
    BY <1>0, <1>1, ClosedAfterReplacement DEF DiskInv
  <2>2. ASSUME NEW q \in mounted \ {r}  PROVE q \in present'
    <3>1. q \notin Subtree(r) /\ q \in present
      BY <1>0, <1>1 DEF MountsBelow, Subtree, DiskInv
    <3>. QED  BY <1>1, <3>1
  <2>3. r \in present'
    BY <1>1 DEF Trees
  <2>4. \A q \in Root : under'[q] \subseteq Subtree(q)
    BY <1>0, <1>3 DEF DiskInv
  <2>5. \A q \in mounted' : Automatic /\ under'[q] \in Trees(q)
    BY <1>0, <1>1, <1>3 DEF DiskInv
  <2>. QED  BY <1>1, <2>1, <2>2, <2>3, <2>4, <2>5 DEF DiskInv
<1>5. PlacesKept
  <2>1. ASSUME NEW roots \in SUBSET Root, NEW d, RootsInPlace(roots, d)
        PROVE  RootsInPlace(roots, d)'
    BY <1>1, <2>1 DEF RootsInPlace
  <2>2. ASSUME NEW roots \in SUBSET Root, NEW d, RootsInPlace(roots, d),
               NEW q \in roots, AtOrBelow(d, q)
        PROVE  ~AtOrBelow(q, r)
    <3>1. q = Home \/ q \in mounted
      BY <1>1, <2>2 DEF RootsInPlace
    <3>2. q \in mounted => ~AtOrBelow(q, r)
      BY <1>1 DEF MountsBelow
    <3>3. ~AtOrBelow(Home, r)
      BY <1>1, RefreshAssumption
    <3>. QED  BY <3>1, <3>2, <3>3
  <2>3. ASSUME NEW L \in Layers, NEW K \in Layers,
               NEW d \in Seen(watcher', L) \cap Seen(watcher, K)
        PROVE  L = K \/ L = r \/ L \notin Root
    <3>1. watcher'.watched = watcher.watched \ Subtree(r)
          /\ \A q \in Root \ {r} : watcher'.hidden[q] = watcher.hidden[q]
      BY <1>0, <1>1, HiddenWatcher
    <3>2. CASE L \in Root \ {r}
      BY <1>0, <2>3, <3>1, <3>2 DEF Seen, Fits
    <3>. QED  BY <3>2
  <2>4. ASSUME NEW roots \in SUBSET Root, NEW L \in Layers, NEW K \in Layers,
               NEW d \in Seen(watcher', L) \cap Seen(watcher, K), Placed(roots, K, d)
        PROVE  Placed(roots, L, d)'
    <3>1. RootsInPlace(roots, d) /\ RootsInPlace(roots, d)'
      BY <2>1, <2>4 DEF Placed
    <3>. QED  BY <2>2, <2>3, <2>4, <3>1 DEF Placed
  <2>. QED  BY <2>1, <2>4 DEF PlacesKept
<1>. QED  BY <1>1, <1>2, <1>4, <1>5 DEF DiskStep, BothKeepTelling

\* A volume is unmounted: a covered directory is neither on it nor below another volume
\* that is on it.
LEMMA UnmountStep ==
    ASSUME IndInv, NEW r \in mounted, Unmount(r)
    PROVE  DiskStep
<1>0. /\ TypeOK /\ DiskInv /\ watcher \in Watcher /\ replacement \in Watcher
      /\ Fits(watcher, present, under, mounted) /\ Fits(replacement, present, under, mounted)
      /\ present \in SUBSET Path /\ r \in Root /\ r \in Path /\ mounted \subseteq Root
      /\ Root \subseteq Path
  BY TopIsNoRoot DEF IndInv, TypeOK, WatchInv
<1>. DEFINE heard(w) == w.watched \cap Subtree(r) # {}
<1>1. /\ UNCHANGED <<main, monitor, scan, snapshot, to_watch, refresh_pending, file_changed>>
      /\ watcher' = Reveal(Told(watcher, heard(watcher)), r)
      /\ replacement' = Reveal(Told(replacement, heard(replacement)), r)
      /\ present' = (present \ Subtree(r)) \cup under[r] /\ mounted' = mounted \ {r}
      /\ under' = [under EXCEPT ![r] = {}]
      /\ bridged' = bridged \ Subtree(r) /\ covered' = covered \cap Watches(watcher')
      /\ MountsBelow(r) = {r}
  BY DEF Unmount, threads
<1>2. /\ watcher'.open = watcher.open /\ KeepsTelling(watcher, watcher')
      /\ Fits(watcher', present', under', mounted')
      /\ replacement'.open = replacement.open /\ KeepsTelling(replacement, replacement')
      /\ Fits(replacement', present', under', mounted')
  BY <1>0, <1>1, UnmountIsTold
<1>3. under'[r] = {} /\ \A q \in Root \ {r} : under'[q] = under[q]
  BY <1>0, <1>1 DEF TypeOK
<1>4. \A q \in mounted : AtOrBelow(q, r) => q = r
  BY <1>1 DEF MountsBelow
<1>5. DiskInv'
  <2>1. Closed(present')
    BY <1>0, <1>1, ClosedAfterReplacement DEF DiskInv
  <2>2. ASSUME NEW q \in mounted \ {r}  PROVE q \in present'
    BY <1>0, <1>1, <1>4 DEF Subtree, DiskInv
  <2>3. \A q \in Root : under'[q] \subseteq Subtree(q)
    BY <1>0, <1>3 DEF DiskInv
  <2>4. \A q \in mounted' : Automatic /\ under'[q] \in Trees(q)
    BY <1>0, <1>1, <1>3 DEF DiskInv
  <2>. QED  BY <1>1, <2>1, <2>2, <2>3, <2>4 DEF DiskInv
<1>6. /\ watcher'.watched = (watcher.watched \ Subtree(r)) \cup watcher.hidden[r]
      /\ watcher'.hidden[r] = {}
      /\ \A q \in Root \ {r} : watcher'.hidden[q] = watcher.hidden[q]
  <2>1. heard(watcher) \in BOOLEAN
    OBVIOUS
  <2>. HIDE DEF heard
  <2>2. /\ Told(watcher, heard(watcher)) \in Watcher
        /\ Told(watcher, heard(watcher)).watched = watcher.watched
        /\ Told(watcher, heard(watcher)).hidden = watcher.hidden
    BY <1>0, <2>1, ToldWatcher
  <2>. QED  BY <1>0, <1>1, <2>2, RevealedWatcher
<1>. HIDE DEF heard
<1>7. PlacesKept
  <2>1. ASSUME NEW roots \in SUBSET Root, NEW d, RootsInPlace(roots, d),
               r \in roots => ~AtOrBelow(d, r)
        PROVE  RootsInPlace(roots, d)'
    BY <1>1, <2>1 DEF RootsInPlace
  <2>2. ASSUME NEW L \in Layers, NEW K \in Layers,
               NEW d \in Seen(watcher', L) \cap Seen(watcher, K)
        PROVE  \/ L \notin Root /\ d \notin Subtree(r) /\ d \in Path
               \/ L \notin Root /\ K = r
               \/ L \in Root \ {r} /\ L = K
    <3>1. CASE L \in Root
      BY <1>0, <1>6, <2>2, <3>1 DEF Seen, Fits
    <3>2. CASE L \notin Root
      <4>1. d \in (watcher.watched \ Subtree(r)) \cup watcher.hidden[r]
        BY <1>6, <2>2, <3>2 DEF Seen
      <4>2. CASE d \in watcher.hidden[r]
        <5>1. d \in Seen(watcher, r) /\ r \in Layers
          BY <1>0, <4>2 DEF Seen, Layers
        <5>. QED  BY <1>0, <2>2, <3>2, <5>1 DEF Fits
      <4>. QED  BY <1>0, <3>2, <4>1, <4>2 DEF Fits
    <3>. QED  BY <3>1, <3>2
  <2>3. ASSUME NEW roots \in SUBSET Root, NEW L \in Layers, NEW K \in Layers,
               NEW d \in Seen(watcher', L) \cap Seen(watcher, K), Placed(roots, K, d)
        PROVE  Placed(roots, L, d)'
    <3>1. RootsInPlace(roots, d)
      BY <2>3 DEF Placed
    <3>2. CASE L \notin Root /\ d \notin Subtree(r) /\ d \in Path
      <4>1. ~AtOrBelow(d, r)
        BY <3>2 DEF Subtree
      <4>. QED  BY <2>1, <3>1, <3>2, <4>1 DEF Placed
    <3>3. CASE L \notin Root /\ K = r
      <4>1. r \in roots => ~AtOrBelow(d, r)
        BY <1>0, <2>3, <3>3, AtItself DEF Placed
      <4>. QED  BY <2>1, <3>1, <3>3, <4>1 DEF Placed
    <3>4. CASE L \in Root \ {r} /\ L = K
      <4>1. d \in watcher.hidden[L]
        BY <2>3, <3>4 DEF Seen
      <4>2. L \in mounted /\ d \in Path /\ AtOrBelow(d, L) /\ L \in Path
        BY <1>0, <3>4, <4>1 DEF Fits, DiskInv, Subtree
      <4>3. ASSUME r \in roots, AtOrBelow(d, r)  PROVE FALSE
        <5>1. ~AtOrBelow(r, L)
          BY <2>3, <3>4, <4>3 DEF Placed
        <5>2. ~AtOrBelow(L, r)
          BY <1>4, <3>4, <4>2
        <5>. QED  BY <1>0, <4>2, <4>3, <5>1, <5>2, AboveOneAnother
      <4>. QED  BY <2>1, <2>3, <3>1, <3>4, <4>3 DEF Placed
    <3>. QED  BY <2>2, <2>3, <3>2, <3>3, <3>4
  <2>4. ASSUME NEW roots \in SUBSET Root, NEW d \in bridged', RootsInPlace(roots, d)
        PROVE  RootsInPlace(roots, d)'
    <3>1. ~AtOrBelow(d, r)
      BY <1>0, <1>1, <2>4 DEF Subtree, TypeOK, Dir
    <3>. QED  BY <2>1, <2>4, <3>1
  <2>. QED  BY <2>3, <2>4 DEF PlacesKept
<1>. QED  BY <1>1, <1>2, <1>5, <1>7 DEF DiskStep, BothKeepTelling

\* Every change of the disk keeps the invariant, and is told.
LEMMA EnvironmentInd ==
    ASSUME IndInv, Environment
    PROVE  IndInv' /\ DiskStep
<1>1. DiskStep
  BY AppearStep, VanishStep, MountStep, UnmountStep DEF Environment
<1>2. TypeOK'
  BY EnvironmentType DEF IndInv
<1>. QED  BY <1>1, <1>2, DiskKeepsInd


\* While the disk rests, so do the trees and what is said of them.
LEMMA DiskAtRest ==
    ASSUME UNCHANGED <<present, mounted, under>>
    PROVE  /\ \A L : Tree(L)' = Tree(L)
           /\ DiskInv <=> DiskInv'
BY DEF Tree, DiskInv

\* A step of the walk: the directory that is read is right at this moment, and
\* the old watcher watches it; the others are as right as they were.
LEMMA ScanDirectoryInd ==
    ASSUME IndInv, ScanDirectory
    PROVE  IndInv'
<1>. USE DEF IndInv
<1>. PICK d \in scan.pending : SkipDirectory(d) \/ ReadDirectory(d) \/ TruncateAt(d)
  BY DEF ScanDirectory
<1>0. TypeOK'
  BY ScanDirectoryType
<1>1. UNCHANGED <<present, mounted, under, main, monitor, snapshot, watcher, replacement,
                  to_watch, refresh_pending, file_changed, covered>>
  BY DEF SkipDirectory, ReadDirectory, TruncateAt, disk, threads, watching, history
<1>2. /\ d \in Dir /\ scan \in Walk
      /\ monitor \in {"unborn", "scan"}
      /\ \A L : Tree(L)' = Tree(L)
      /\ Tree(Top) = present
  BY <1>1, DiskAtRest, TopIsNoRoot
     DEF TypeOK, Walk, PhaseInv, SkipDirectory, ReadDirectory, TruncateAt, Scanning, Tree
<1>3. /\ bridged' \subseteq bridged \cup {d}
      /\ d \in bridged' /\ d \notin bridged =>
           /\ d \in watcher.watched /\ scan'.listing[d] = Listing(present, d)
           /\ RootsInPlace(scan.roots, d)
      /\ scan'.roots = scan.roots
  <2>1. CASE SkipDirectory(d)
    BY <1>2, <2>1 DEF SkipDirectory, Walk, history
  <2>2. CASE ReadDirectory(d)
    BY <1>2, <2>2 DEF ReadDirectory, Walk
  <2>3. CASE TruncateAt(d)
    BY <1>2, <2>3 DEF TruncateAt, Walk
  <2>. QED  BY <2>1, <2>2, <2>3
<1>4. PhaseInv'
  BY <1>1, <1>3, ClosedWatcherIsDeaf DEF PhaseInv
<1>5. WatchInv'
  BY <1>1, DiskAtRest DEF WatchInv
<1>6. \A e \in bridged' \cap bridged : monitor = "scan" =>
        scan'.listing[e] = Listing(present, e) \/ watcher.queue > 0
  <2>. SUFFICES ASSUME NEW e \in bridged' \cap bridged, monitor = "scan", ~(watcher.queue > 0)
                PROVE  scan'.listing[e] = Listing(present, e)
    OBVIOUS
  <2>1. scan.listing[e] = Listing(present, e) /\ e \in watcher.watched /\ e \in Dir
    BY <1>2 DEF CoverInv, Right, TypeOK
  <2>2. CASE SkipDirectory(d)
    BY <2>1, <2>2 DEF SkipDirectory
  <2>3. CASE ReadDirectory(d)
    BY <1>2, <2>1, <2>3 DEF ReadDirectory, Walk
  <2>4. CASE TruncateAt(d)
    <3>1. e # d
      BY <2>4 DEF TruncateAt
    <3>2. PICK taken \in SUBSET Listing(present, d) :
            scan' = [scan EXCEPT !.scanned = @ \cup {d}, !.listing[d] = taken,
                                 !.pending = {}, !.truncated = TRUE]
      BY <2>4 DEF TruncateAt
    <3>. QED  BY <1>2, <2>1, <3>1, <3>2 DEF Walk
  <2>. QED  BY <2>2, <2>3, <2>4
<1>7. CoverInv'
  <2>1. CASE monitor = "unborn"
    BY <1>1, <2>1 DEF CoverInv
  <2>2. CASE monitor = "scan"
    <3>1. ASSUME NEW e \in bridged'
          PROVE  /\ RootsInPlace(scan.roots, e)'
                 /\ e \in watcher'.watched
                 /\ Right(scan, Top, e)' \/ watcher'.queue > 0
      <4>1. RootsInPlace(scan.roots, e) /\ e \in watcher.watched
        BY <1>3, <2>2, <3>1 DEF CoverInv
      <4>2. scan'.listing[e] = Listing(present, e) \/ watcher.queue > 0
        BY <1>3, <1>6, <2>2, <3>1
      <4>3. RootsInPlace(scan.roots, e)'
        BY <1>1, <1>3, <4>1 DEF RootsInPlace
      <4>. QED  BY <1>1, <1>2, <4>1, <4>2, <4>3 DEF Right
    <3>. QED  BY <1>1, <2>2, <3>1 DEF CoverInv
  <2>. QED  BY <1>2, <2>1, <2>2
<1>. QED  BY <1>0, <1>4, <1>5, <1>7

\* The invariant of coverage does not look at the roots that are discovered, the
\* clock or the flag: it stays when everything it looks at stays.
LEMMA CoverAtRest ==
    ASSUME CoverInv,
           UNCHANGED <<present, mounted, under, monitor, scan, snapshot, watcher,
                       refresh_pending, file_changed, bridged, covered>>,
           UNCHANGED replacement \/ monitor # "follow_up"
    PROVE  CoverInv'
<1>1. \A L : Tree(L)' = Tree(L)
  BY DiskAtRest
<1>2. /\ \A L, d : Right(snapshot, L, d)' <=> Right(snapshot, L, d)
      /\ \A L, d : Right(scan, L, d)' <=> Right(scan, L, d)
  BY <1>1 DEF Right
<1>3. /\ \A L, d : Placed(snapshot.roots, L, d)' <=> Placed(snapshot.roots, L, d)
      /\ \A d : RootsInPlace(scan.roots, d)' <=> RootsInPlace(scan.roots, d)
  BY DEF Placed, RootsInPlace
<1>4. Known <=> Known'
  BY DEF Known
<1>5. Watches(watcher') = Watches(watcher) /\ \A L : Seen(watcher', L) = Seen(watcher, L)
  OBVIOUS
<1>. QED  BY <1>2, <1>3, <1>4, <1>5 DEF CoverInv

\* The main thread changes nothing the monitor relies on: it publishes before
\* the monitor is there, and then only raises the flag.
LEMMA MainInd ==
    ASSUME IndInv, MainStep \/ BeginShutdown
    PROVE  IndInv'
<1>. USE DEF IndInv, disk, watching, history
<1>0. TypeOK'
  BY MainType
<1>1. /\ UNCHANGED <<present, mounted, under, watcher, replacement, to_watch,
                     refresh_pending, file_changed, bridged, covered>>
      /\ \/ UNCHANGED <<monitor, snapshot>>
         \/ monitor = "unborn" /\ monitor' = "start"
      /\ monitor' # "unborn" => scan' = scan \/ monitor' = "start"
  BY DEF MainStep, BeginInitialScan, FinishInitialScan, BeginShutdown, Join, PhaseInv
<1>2. /\ monitor' = "unborn" <=> main' \in {"start", "scan"}
      /\ main' = "exit" => monitor' = "done"
  BY DEF MainStep, BeginInitialScan, FinishInitialScan, BeginShutdown, Join, PhaseInv
<1>3. PhaseInv'
  BY <1>1, <1>2 DEF PhaseInv
<1>4. WatchInv'
  BY <1>1, DiskAtRest DEF WatchInv
<1>5. CoverInv'
  <2>1. CASE monitor' \in {"unborn", "start"}
    BY <2>1 DEF CoverInv
  <2>2. CASE monitor' \notin {"unborn", "start"}
    <3>1. UNCHANGED <<monitor, snapshot, scan>>
      BY <1>1, <2>2
    <3>. QED  BY <1>1, <3>1, CoverAtRest
  <2>. QED  BY <2>1, <2>2
<1>. QED  BY <1>0, <1>3, <1>4, <1>5

\* A new watch on a directory that can be reached and has none keeps the watches in
\* the right trees.
LEMMA WatchAdded ==
    ASSUME NEW w \in Watcher, Fits(w, present, under, mounted), w.open,
           NEW d \in Dir \cap present, d \notin Watches(w)
    PROVE  LET v == [w EXCEPT !.watched = @ \cup {d}]
           IN  /\ v.open = w.open /\ v.hidden = w.hidden
               /\ v.watched = w.watched \cup {d} /\ v.queue = w.queue
               /\ Watches(v) = Watches(w) \cup {d}
               /\ Fits(v, present, under, mounted)
<1>. DEFINE v == [w EXCEPT !.watched = @ \cup {d}]
<1>1. /\ v.open = w.open /\ v.hidden = w.hidden
      /\ v.watched = w.watched \cup {d} /\ v.queue = w.queue
  BY DEF Watcher
<1>. HIDE DEF v
<1>2. Watches(v) = Watches(w) \cup {d}
  BY <1>1 DEF Watches
<1>3. \A L, K \in Layers : L = K \/ Seen(v, L) \cap Seen(v, K) = {}
  <2>1. \A r \in Root : d \notin w.hidden[r]
    BY DEF Watches
  <2>2. \A L \in Layers : Seen(v, L) = Seen(w, L) \/ L = Top
    BY <1>1 DEF Seen, Layers
  <2>3. \A L \in Layers : L = Top \/ d \notin Seen(v, L)
    BY <1>1, <2>1 DEF Seen, Layers
  <2>4. Seen(v, Top) = Seen(w, Top) \cup {d} /\ Top \in Layers
    BY <1>1, TopIsNoRoot DEF Seen, Layers
  <2>. QED  BY <2>2, <2>3, <2>4 DEF Fits
<1>4. Fits(v, present, under, mounted)
  BY <1>1, <1>3 DEF Fits
<1>. QED  BY <1>1, <1>2, <1>4 DEF v

\* Asking a watcher empties its queue, and the answer says so.
LEMMA AskedWatcher ==
    ASSUME NEW w \in Watcher, Fits(w, present, under, mounted),
           NEW answer, NEW after, HasChanges(w, answer, after)
    PROVE  /\ Fits(after, present, under, mounted)
           /\ after.watched = w.watched /\ after.hidden = w.hidden
           /\ after.open = w.open
           /\ w.queue > 0 => answer = TRUE
<1>1. /\ after.watched = w.watched /\ after.hidden = w.hidden /\ after.open = w.open
      /\ w.open /\ w.queue > 0 => answer = TRUE
  BY HasChangesTypes
<1>2. ~w.open => after = w /\ w = NoWatcher
  BY DEF HasChanges, Fits
<1>3. w.queue > 0 => w.open
  BY <1>2 DEF NoWatcher
<1>4. Watches(after) = Watches(w) /\ \A L : Seen(after, L) = Seen(w, L)
  BY <1>1 DEF Watches, Seen
<1>5. Fits(after, present, under, mounted)
  BY <1>1, <1>2, <1>4 DEF Fits
<1>. QED  BY <1>1, <1>3, <1>4, <1>5

\* A step of the monitor keeps the invariant.
LEMMA MonitorInd ==
    ASSUME IndInv, MonitorStep
    PROVE  IndInv'
<1>. USE DEF IndInv, history
<1>0. /\ TypeOK'
      /\ UNCHANGED <<present, mounted, under, main>>
      /\ watcher \in Watcher /\ replacement \in Watcher
      /\ Fits(watcher, present, under, mounted) /\ Fits(replacement, present, under, mounted)
  <2>1. UNCHANGED <<present, mounted, under, main>>
    BY DEF MonitorStep, StartMonitor, AddWatch, FirstWatcherReady, Wake, Poll, StayIdle,
       BeginRebuild, FinishRebuildScan, FollowUpOld, FollowUpNew, Publish, threads, disk
  <2>. QED  BY <2>1, MonitorType DEF TypeOK, WatchInv
<1>1. /\ NoWatcher.watched = {} /\ ~NoWatcher.open
      /\ NewWatcher.watched = {} /\ NewWatcher.open
      /\ Watches(NoWatcher) = {} /\ Watches(NewWatcher) = {}
      /\ Fits(NoWatcher, present, under, mounted) /\ Fits(NewWatcher, present, under, mounted)
  <2>1. /\ NewWatcher.watched = {} /\ NewWatcher.open
        /\ \A r \in Root : NewWatcher.hidden[r] = {}
    BY DEF NewWatcher, NothingHidden
  <2>2. \A L \in Layers : Seen(NoWatcher, L) = {} /\ Seen(NewWatcher, L) = {}
    BY <2>1, ClosedWatcherIsDeaf DEF Seen
  <2>. QED  BY <2>1, <2>2, ClosedWatcherIsDeaf DEF Watches, Fits
<1>2. (\A L : Tree(L)' = Tree(L)) /\ (DiskInv <=> DiskInv') /\ DiskInv
  BY <1>0, DiskAtRest DEF WatchInv
<1>3. /\ Fits(watcher', present, under, mounted) /\ Fits(replacement', present, under, mounted)
      /\ ~replacement'.open => to_watch' = {}
      /\ to_watch' \cap Watches(replacement') = {}
      => WatchInv'
  BY <1>0, <1>2 DEF WatchInv
<1>4. CASE StartMonitor
  <2>1. PhaseInv'
    BY <1>0, <1>4 DEF StartMonitor, PhaseInv
  <2>2. WatchInv'
    BY <1>0, <1>1, <1>3, <1>4 DEF StartMonitor, OpenWatcher, WatchInv
  <2>3. CoverInv'
    BY <1>4 DEF StartMonitor, CoverInv
  <2>. QED  BY <1>0, <2>1, <2>2, <2>3
<1>5. CASE AddWatch
  <2>1. PICK d \in to_watch :
          /\ to_watch' = to_watch \ {d}
          /\ \/ d \in present /\ replacement' = [replacement EXCEPT !.watched = @ \cup {d}]
             \/ replacement' = replacement
    BY <1>5 DEF AddWatch, LeftToWatch
  <2>2. /\ monitor \in {"first_watch", "watch"}
        /\ UNCHANGED <<monitor, scan, snapshot, watcher, refresh_pending, file_changed,
                       bridged, covered>>
    BY <1>5 DEF AddWatch, threads
  <2>3. /\ replacement'.open = replacement.open
        /\ Fits(replacement', present, under, mounted)
        /\ Watches(replacement') \subseteq Watches(replacement) \cup {d}
    <3>1. d \in Dir /\ replacement.open /\ d \notin Watches(replacement)
      BY <2>1 DEF TypeOK, WatchInv
    <3>2. CASE d \in present /\ replacement' = [replacement EXCEPT !.watched = @ \cup {d}]
      BY <1>0, <3>1, <3>2, WatchAdded
    <3>3. CASE replacement' = replacement
      BY <1>0, <3>3
    <3>. QED  BY <2>1, <3>2, <3>3
  <2>4. PhaseInv'
    BY <1>0, <2>2 DEF PhaseInv
  <2>5. WatchInv'
    BY <1>0, <1>3, <2>1, <2>2, <2>3 DEF WatchInv
  <2>6. CoverInv'
    BY <1>0, <2>2, CoverAtRest
  <2>. QED  BY <1>0, <2>4, <2>5, <2>6
<1>6. CASE FirstWatcherReady
  <2>1. PhaseInv'
    BY <1>0, <1>6 DEF FirstWatcherReady, PhaseInv
  <2>2. WatchInv'
    BY <1>0, <1>1, <1>3, <1>6 DEF FirstWatcherReady
  <2>3. CoverInv'
    BY <1>6 DEF FirstWatcherReady, CoverInv, PhaseInv
  <2>. QED  BY <1>0, <2>1, <2>2, <2>3
<1>7. CASE Wake
  <2>1. PhaseInv'
    BY <1>0, <1>7 DEF Wake, PhaseInv
  <2>2. WatchInv'
    BY <1>0, <1>1, <1>3, <1>7 DEF Wake, WatchInv
  <2>3. CoverInv'
    <3>1. CASE monitor' = "done"
      BY <3>1 DEF CoverInv
    <3>2. CASE monitor' # "done"
      <4>1. /\ monitor = "park" /\ monitor' = "poll"
            /\ UNCHANGED <<scan, snapshot, watcher, replacement, refresh_pending,
                           file_changed, bridged, covered>>
        BY <1>7, <3>2 DEF Wake
      <4>2. Known <=> Known'
        BY <4>1 DEF Known
      <4>3. \A L, d : /\ Right(snapshot, L, d)' <=> Right(snapshot, L, d)
                      /\ Placed(snapshot.roots, L, d)' <=> Placed(snapshot.roots, L, d)
        BY <1>0, <1>2, <4>1 DEF Right, Placed, RootsInPlace
      <4>. QED  BY <4>1, <4>2, <4>3 DEF CoverInv
    <3>. QED  BY <3>1, <3>2
  <2>. QED  BY <1>0, <2>1, <2>2, <2>3
<1>8. CASE Poll
  <2>1. /\ monitor = "poll" /\ monitor' = "decide" /\ refresh_pending' = FALSE
        /\ UNCHANGED <<scan, snapshot, replacement, to_watch, bridged, covered>>
    BY <1>8 DEF Poll
  <2>2. /\ Fits(watcher', present, under, mounted)
        /\ watcher'.watched = watcher.watched /\ watcher'.hidden = watcher.hidden
        /\ refresh_pending \/ watcher.queue > 0 => file_changed' = TRUE
    <3>1. CASE refresh_pending /\ file_changed' = TRUE /\ watcher' = watcher
      BY <1>0, <3>1
    <3>2. CASE ~refresh_pending /\ HasChanges(watcher, file_changed', watcher')
      <4>1. /\ Fits(watcher', present, under, mounted)
            /\ watcher'.watched = watcher.watched /\ watcher'.hidden = watcher.hidden
            /\ watcher.queue > 0 => file_changed' = TRUE
        BY <1>0, <3>2, AskedWatcher
      <4>. QED  BY <3>2, <4>1
    <3>. QED  BY <1>8, <3>1, <3>2 DEF Poll, FileChanged
  <2>3. PhaseInv'
    BY <1>0, <2>1 DEF PhaseInv
  <2>4. WatchInv'
    BY <1>0, <1>3, <2>1, <2>2 DEF WatchInv
  <2>5. Known => Known'
    BY <2>1, <2>2 DEF Known
  <2>6. \A L, d : /\ Right(snapshot, L, d)' <=> Right(snapshot, L, d)
                  /\ Placed(snapshot.roots, L, d)' <=> Placed(snapshot.roots, L, d)
    BY <1>0, <1>2, <2>1 DEF Right, Placed, RootsInPlace
  <2>7. Watches(watcher') = Watches(watcher) /\ \A L : Seen(watcher', L) = Seen(watcher, L)
    BY <2>2 DEF Watches, Seen
  <2>8. CoverInv'
    BY <2>1, <2>2, <2>5, <2>6, <2>7 DEF CoverInv
  <2>. QED  BY <1>0, <2>3, <2>4, <2>8
<1>9. CASE StayIdle
  <2>1. /\ monitor = "decide" /\ monitor' = "park" /\ ~file_changed
        /\ UNCHANGED <<scan, snapshot, watcher, replacement, to_watch, refresh_pending,
                       file_changed, bridged, covered>>
    BY <1>9 DEF StayIdle, RebuildDue, watching
  <2>2. PhaseInv'
    BY <1>0, <2>1 DEF PhaseInv
  <2>3. WatchInv'
    BY <1>0, <1>3, <2>1 DEF WatchInv
  <2>4. Known => Known'
    BY <2>1 DEF Known
  <2>5. \A L, d : /\ Right(snapshot, L, d)' <=> Right(snapshot, L, d)
                  /\ Placed(snapshot.roots, L, d)' <=> Placed(snapshot.roots, L, d)
    BY <1>0, <1>2, <2>1 DEF Right, Placed, RootsInPlace
  <2>6. CoverInv'
    BY <2>1, <2>4, <2>5 DEF CoverInv
  <2>. QED  BY <1>0, <2>2, <2>3, <2>6
<1>10. CASE BeginRebuild
  <2>1. UNCHANGED <<watcher, replacement, to_watch>>
    BY <1>10 DEF BeginRebuild, watching
  <2>2. PhaseInv'
    BY <1>0, <1>10, <2>1 DEF BeginRebuild, PhaseInv
  <2>3. WatchInv'
    BY <1>0, <1>3, <2>1 DEF WatchInv
  <2>4. CoverInv'
    BY <1>10 DEF BeginRebuild, CoverInv
  <2>. QED  BY <1>0, <2>2, <2>3, <2>4
<1>11. CASE FinishRebuildScan
  <2>1. PhaseInv'
    BY <1>0, <1>11 DEF FinishRebuildScan, PhaseInv
  <2>2. WatchInv'
    BY <1>0, <1>1, <1>3, <1>11 DEF FinishRebuildScan, OpenWatcher, WatchInv
  <2>3. CoverInv'
    <3>1. CASE monitor' = "done"
      BY <3>1 DEF CoverInv
    <3>2. CASE monitor' # "done"
      <4>1. /\ monitor = "scan" /\ monitor' = "watch"
            /\ UNCHANGED <<scan, snapshot, watcher, bridged, covered>>
        BY <1>11, <3>2 DEF FinishRebuildScan
      <4>2. \A L, d : /\ Right(scan, L, d)' <=> Right(scan, L, d)
                      /\ RootsInPlace(scan.roots, d)' <=> RootsInPlace(scan.roots, d)
        BY <1>0, <1>2, <4>1 DEF Right, RootsInPlace
      <4>. QED  BY <4>1, <4>2 DEF CoverInv
    <3>. QED  BY <3>1, <3>2
  <2>. QED  BY <1>0, <2>1, <2>2, <2>3
<1>12. CASE FollowUpOld
  <2>1. /\ monitor = "watch" /\ monitor' = "follow_up"
        /\ UNCHANGED <<scan, snapshot, replacement, to_watch, bridged, covered>>
        /\ HasChanges(watcher, refresh_pending', watcher')
    BY <1>12 DEF FollowUpOld, OldFollowUp
  <2>2. /\ Fits(watcher', present, under, mounted)
        /\ watcher.queue > 0 => refresh_pending' = TRUE
    BY <1>0, <2>1, AskedWatcher
  <2>3. PhaseInv'
    BY <1>0, <1>12 DEF FollowUpOld, PhaseInv
  <2>4. WatchInv'
    BY <1>0, <1>3, <2>1, <2>2 DEF WatchInv
  <2>5. \A L, d : /\ Right(scan, L, d)' <=> Right(scan, L, d)
                  /\ RootsInPlace(scan.roots, d)' <=> RootsInPlace(scan.roots, d)
    BY <1>0, <1>2, <2>1 DEF Right, RootsInPlace
  <2>6. CoverInv'
    BY <2>1, <2>2, <2>5 DEF CoverInv
  <2>. QED  BY <1>0, <2>3, <2>4, <2>6
<1>13. CASE FollowUpNew
  <2>1. /\ monitor = "follow_up" /\ monitor' = "publish" /\ replacement' = NoWatcher
        /\ UNCHANGED <<scan, snapshot, to_watch, bridged, covered>>
    BY <1>13 DEF FollowUpNew
  <2>2. /\ Fits(watcher', present, under, mounted)
        /\ watcher'.watched = replacement.watched
        /\ refresh_pending => refresh_pending'
        /\ replacement.queue > 0 => refresh_pending' = TRUE \/ watcher'.queue > 0
    <3>1. CASE refresh_pending /\ watcher' = replacement /\ UNCHANGED refresh_pending
      BY <1>0, <3>1
    <3>2. CASE ~refresh_pending /\ HasChanges(replacement, refresh_pending', watcher')
      <4>1. /\ Fits(watcher', present, under, mounted)
            /\ watcher'.watched = replacement.watched
            /\ replacement.queue > 0 => refresh_pending' = TRUE
        BY <1>0, <3>2, AskedWatcher
      <4>. QED  BY <3>2, <4>1
    <3>. QED  BY <1>13, <3>1, <3>2 DEF FollowUpNew
  <2>3. PhaseInv'
    BY <1>0, <2>1 DEF PhaseInv
  <2>4. WatchInv'
    BY <1>0, <1>1, <1>3, <2>1, <2>2 DEF PhaseInv
  <2>5. \A L, d : /\ Right(scan, L, d)' <=> Right(scan, L, d)
                  /\ RootsInPlace(scan.roots, d)' <=> RootsInPlace(scan.roots, d)
    BY <1>0, <1>2, <2>1 DEF Right, RootsInPlace
  <2>6. CoverInv'
    BY <2>1, <2>2, <2>5 DEF CoverInv
  <2>. QED  BY <1>0, <2>3, <2>4, <2>6
<1>14. CASE Publish
  <2>1. /\ monitor = "publish" /\ monitor' = "park"
        /\ UNCHANGED <<watcher, replacement, to_watch, refresh_pending, file_changed>>
        /\ covered' = bridged \cap watcher.watched
    BY <1>14 DEF Publish, watching
  <2>2. PhaseInv'
    BY <1>0, <2>1 DEF PhaseInv
  <2>3. WatchInv'
    BY <1>0, <1>3, <2>1 DEF WatchInv
  <2>4. snapshot'.listing = scan.listing /\ snapshot'.roots = scan.roots
    BY <1>14 DEF Publish, ReportOf
  <2>5. ASSUME NEW L \in Layers, NEW d \in covered' \cap Seen(watcher, L)
        PROVE  /\ Placed(snapshot.roots, L, d)'
               /\ Right(snapshot, L, d)' \/ refresh_pending \/ watcher.queue > 0
    <3>1. L = Top
      <4>1. d \in Seen(watcher, Top) /\ Top \in Layers
        BY <2>1, <2>5, TopIsNoRoot DEF Seen, Layers
      <4>. QED  BY <1>0, <2>5, <4>1 DEF Fits
    <3>2. RootsInPlace(scan.roots, d) /\ (Right(scan, Top, d) \/ refresh_pending
                                             \/ watcher.queue > 0)
      BY <2>1, <2>5 DEF CoverInv
    <3>3. Placed(snapshot.roots, L, d)'
      BY <1>0, <2>4, <3>1, <3>2, TopIsNoRoot DEF Placed, RootsInPlace
    <3>. QED  BY <1>2, <2>4, <3>1, <3>2, <3>3 DEF Right
  <2>6. covered' \subseteq Watches(watcher)
    BY <2>1 DEF Watches
  <2>7. CoverInv'
    BY <2>1, <2>5, <2>6 DEF CoverInv, Known
  <2>. QED  BY <1>0, <2>2, <2>3, <2>7
<1>. QED
  BY <1>4, <1>5, <1>6, <1>7, <1>8, <1>9, <1>10, <1>11, <1>12, <1>13, <1>14 DEF MonitorStep

\* Every step keeps it: whoever knows of a change hands it on.
LEMMA NextInd == IndInv /\ [Next]_vars => IndInv'
<1>. SUFFICES ASSUME IndInv, [Next]_vars PROVE IndInv'
  OBVIOUS
<1>1. CASE FallbackElapses \/ UNCHANGED vars
  <2>1. TypeOK'
    BY NextType DEF IndInv
  <2>2. UNCHANGED <<present, mounted, under, main, monitor, scan, snapshot, watcher,
                    replacement, to_watch, refresh_pending, file_changed, bridged, covered>>
    BY <1>1 DEF FallbackElapses, vars, disk, threads, watching, history
  <2>3. PhaseInv' /\ WatchInv'
    BY <2>2, DiskAtRest DEF IndInv, PhaseInv, WatchInv
  <2>4. CoverInv'
    BY <2>2, CoverAtRest DEF IndInv
  <2>. QED  BY <2>1, <2>3, <2>4 DEF IndInv
<1>. QED
  BY <1>1, EnvironmentInd, ScanDirectoryInd, MainInd, MonitorInd DEF Next, Exited

\* In every behaviour, each change of a covered directory since it was read is still
\* known to a watcher, to a flag of the monitor or to the walk in progress, and a
\* volume that hides one is no root of the index.
THEOREM Inductive == Spec => []IndInv
<1>. QED  BY InitInd, NextInd, PTL DEF Spec

-----------------------------------------------------------------------------

\* Whatever the tree, the volumes mounted in it, the limits and the failures, no
\* change of a covered directory goes unnoticed: when the monitor rests, what the
\* index says of it is what the disk has, or a new volume hides it.
THEOREM CoveredListingsAreAlwaysCurrent == Spec => []CoveredListingsAreCurrent
<1>1. IndInv => CoveredListingsAreCurrent
  <2>. SUFFICES ASSUME IndInv, Resting
                PROVE  /\ \A d \in InSight : snapshot.listing[d] = Listing(present, d)
                       /\ \A d \in covered \ InSight :
                            \E r \in mounted \ snapshot.roots : AtOrBelow(d, r)
    BY DEF CoveredListingsAreCurrent
  <2>1. ~Known /\ CoverInv /\ monitor = "park" /\ covered \subseteq Watches(watcher)
    BY DEF IndInv, Resting, Known, CoverInv
  <2>2. ASSUME NEW d \in InSight  PROVE snapshot.listing[d] = Listing(present, d)
    <3>1. d \in covered \cap Seen(watcher, Top) /\ Top \in Layers /\ Tree(Top) = present
      BY <2>2, TopIsNoRoot DEF InSight, Seen, Layers, Tree
    <3>. QED  BY <2>1, <3>1 DEF CoverInv, Right
  <2>3. ASSUME NEW d \in covered \ InSight
        PROVE  \E r \in mounted \ snapshot.roots : AtOrBelow(d, r)
    <3>1. PICK r \in Root : d \in watcher.hidden[r]
      BY <2>1, <2>3 DEF Watches, InSight
    <3>2. r \in mounted /\ d \in under[r] /\ under[r] \subseteq Subtree(r)
      BY <3>1 DEF IndInv, WatchInv, Fits, DiskInv
    <3>3. Placed(snapshot.roots, r, d)
      <4>1. d \in covered \cap Seen(watcher, r) /\ r \in Layers
        BY <2>3, <3>1 DEF Seen, Layers
      <4>. QED  BY <2>1, <4>1 DEF CoverInv
    <3>4. AtOrBelow(d, r) /\ AtOrBelow(r, r)
      BY <3>1, <3>2, AtItself, TopIsNoRoot DEF Subtree
    <3>. QED  BY <3>1, <3>2, <3>3, <3>4 DEF Placed
  <2>. QED  BY <2>2, <2>3
<1>. QED  BY <1>1, Inductive, PTL

\* After Shutdown the joined monitor is gone: no step of anyone changes the
\* index or a watcher any more.
THEOREM QuietAfterExitHolds == Spec => QuietAfterExit
<1>1. IndInv /\ [Next]_vars =>
        (main = "exit" => UNCHANGED <<monitor, snapshot, watcher, replacement>>)
  <2>. SUFFICES ASSUME IndInv, [Next]_vars, main = "exit"
                PROVE  UNCHANGED <<monitor, snapshot, watcher, replacement>>
    OBVIOUS
  <2>. USE DEF threads, watching
  <2>1. monitor = "done" /\ watcher = NoWatcher /\ replacement = NoWatcher
    BY DEF IndInv, PhaseInv
  <2>2. CASE Environment
    <3>1. ASSUME NEW p, NEW contents, Appear(p, contents)
          PROVE  UNCHANGED <<monitor, snapshot, watcher, replacement>>
      BY <2>1, <3>1, ClosedWatcherIsDeaf DEF Appear, Told
    <3>2. ASSUME NEW p, Vanish(p)
          PROVE  UNCHANGED <<monitor, snapshot, watcher, replacement>>
      BY <2>1, <3>2, ClosedWatcherIsDeaf DEF Vanish, Told
    <3>3. ASSUME NEW r \in Root, NEW tree, Mount(r, tree)
          PROVE  UNCHANGED <<monitor, snapshot, watcher, replacement>>
      BY <2>1, <3>3, ClosedWatcherIsDeaf DEF Mount
    <3>4. ASSUME NEW r \in mounted, Unmount(r)
          PROVE  UNCHANGED <<monitor, snapshot, watcher, replacement>>
      <4>1. r \in Root
        BY DEF IndInv, TypeOK
      <4>2. NoWatcher.watched \cap Subtree(r) = {}
        BY ClosedWatcherIsDeaf
      <4>3. watcher' = Reveal(NoWatcher, r) /\ replacement' = Reveal(NoWatcher, r)
        BY <2>1, <3>4, <4>2 DEF Unmount, Told
      <4>. QED  BY <2>1, <3>4, <4>1, <4>3, ClosedWatcherIsDeaf DEF Unmount
    <3>. QED  BY <2>2, <3>1, <3>2, <3>3, <3>4 DEF Environment
  <2>3. CASE FallbackElapses
    BY <2>3 DEF FallbackElapses
  <2>4. CASE ScanDirectory
    BY <2>1, <2>4 DEF ScanDirectory, SkipDirectory, ReadDirectory, TruncateAt, Scanning
  <2>5. CASE MainStep \/ BeginShutdown
    BY <2>5 DEF MainStep, BeginInitialScan, FinishInitialScan, Join, BeginShutdown
  <2>6. CASE MonitorStep
    BY <2>1, <2>6 DEF MonitorStep, StartMonitor, AddWatch, FirstWatcherReady, Wake, Poll,
       StayIdle, BeginRebuild, FinishRebuildScan, FollowUpOld, FollowUpNew, Publish
  <2>7. CASE UNCHANGED vars
    BY <2>7 DEF vars
  <2>. QED  BY <2>2, <2>3, <2>4, <2>5, <2>6, <2>7 DEF Next, Exited
<1>. QED  BY <1>1, Inductive, PTL DEF Spec, QuietAfterExit
-----------------------------------------------------------------------------
(* What the walk has done.  w is a Walk or an IndexState; pending are the  *)
(* directories yet to visit, none for an IndexState.                       *)

\* d lies below one of the roots, and everything between them could be walked.
Chain(w, d) ==
    \E r \in w.roots :
        /\ AtOrBelow(d, r)
        /\ r = d \/ r \notin Unreadable
        /\ \A q \in Subtree(r) \ {r} :
             AtOrBelow(d, q) => q \in Indexable /\ (q = d \/ q \notin Unreadable)

\* No directory is visited twice, and one that is no root was found in another.
Shape(w, pending) ==
    /\ pending \cap w.scanned = {}
    /\ w.scanned \cap Unreadable = {}
    /\ w.truncated => pending = {}
    /\ \A d \in Dir : w.listing[d] \subseteq ChildrenOf(d) \cap Indexable
    /\ \A d \in w.scanned \cup pending :
         /\ d \in w.roots \/ \E e \in w.scanned : d \in w.listing[e]
         /\ Chain(w, d)

WithinLimit(w) ==
    /\ Cardinality(Items(w)) <= EntryLimit(w.roots)
    /\ w.truncated => Cardinality(Items(w)) = EntryLimit(w.roots)

WalkInv ==
    /\ Shape(scan, scan.pending) /\ Shape(snapshot, {})
    /\ WithinLimit(scan) /\ WithinLimit(snapshot)
    /\ monitor \in {"watch", "follow_up", "publish"} => scan.pending = {}

\* The limit is a number.
LEMMA LimitIsANumber ==
    ASSUME NEW roots \in SUBSET Root
    PROVE  EntryLimit(roots) \in Nat
<1>1. IsFiniteSet(roots)
  <2>1. roots \in SUBSET Path
    BY TreeAssumption DEF Dir
  <2>. QED  BY <2>1, TreeAssumption, FS_Subset
<1>2. Cardinality(roots) \in Nat
  BY <1>1, FS_CardinalityType
<1>3. AutoPerRoot \in Nat /\ AutoMax \in Nat
  BY RefreshAssumption
<1>. DEFINE factor == IF roots = {} THEN 1 ELSE Cardinality(roots)
<1>4. factor \in Nat
  BY <1>2
<1>. HIDE DEF factor
<1>5. AutoPerRoot * factor \in Nat
  BY <1>3, <1>4
<1>6. ConfiguredMax # AutoLimit => ConfiguredMax \in Nat
  BY RefreshAssumption
<1>. QED  BY <1>3, <1>5, <1>6 DEF EntryLimit, factor

\* An entry is in one directory only.
LEMMA OneParent ==
    ASSUME NEW d \in Path, NEW e \in Path, NEW p \in ChildrenOf(d) \cap ChildrenOf(e)
    PROVE  d = e
<1>1. /\ d \in Seq(Name) /\ e \in Seq(Name) /\ p \in Seq(Name)
      /\ Len(p) = Len(d) + 1 /\ SubSeq(p, 1, Len(d)) = d
      /\ Len(p) = Len(e) + 1 /\ SubSeq(p, 1, Len(e)) = e
  BY TreeAssumption DEF ChildrenOf, AtOrBelow
<1>2. Len(d) = Len(e)
  <2>1. Len(d) \in Nat /\ Len(e) \in Nat
    BY <1>1
  <2>2. Len(d) + 1 = Len(e) + 1
    BY <1>1
  <2>. QED  BY <2>1, <2>2
<1>. QED  BY <1>1, <1>2

\* A directory is not an entry of itself.
LEMMA NotItsOwnEntry ==
    ASSUME NEW d \in Path
    PROVE  d \notin ChildrenOf(d)
<1>1. Len(d) \in Nat
  BY TreeAssumption
<1>. QED  BY <1>1 DEF ChildrenOf

\* Two paths at or below each other are one.
LEMMA AtOrBelowBoth ==
    ASSUME NEW a \in Path, NEW b \in Path, AtOrBelow(a, b), AtOrBelow(b, a)
    PROVE  a = b
<1>1. /\ a \in Seq(Name) /\ b \in Seq(Name)
      /\ Len(a) <= Len(b) /\ Len(b) <= Len(a) /\ SubSeq(a, 1, Len(b)) = b
  BY TreeAssumption DEF AtOrBelow
<1>2. Len(a) = Len(b)
  <2>1. Len(a) \in Nat /\ Len(b) \in Nat
    BY <1>1
  <2>. QED  BY <1>1, <2>1
<1>3. SubSeq(a, 1, Len(a)) = a
  BY <1>1
<1>. QED  BY <1>1, <1>2, <1>3

\* A walk that has just been started.
LEMMA StartShape ==
    ASSUME NEW roots \in SUBSET Root
    PROVE  LET w == StartWalk(roots)
           IN  /\ Shape(w, w.pending) /\ WithinLimit(w)
               /\ roots = {} => Shape(ReportOf(w), {}) /\ WithinLimit(ReportOf(w))
<1>. DEFINE w == StartWalk(roots)
<1>1. /\ w.roots = roots /\ w.scanned = {} /\ w.truncated = FALSE /\ w.pending = roots
      /\ w.listing = [d \in Dir |-> {}]
  BY DEF StartWalk
<1>2. /\ ReportOf(w).roots = roots /\ ReportOf(w).scanned = {}
      /\ ReportOf(w).truncated = FALSE /\ ReportOf(w).listing = [d \in Dir |-> {}]
  BY <1>1 DEF ReportOf
<1>3. Items(w) = {} /\ Items(ReportOf(w)) = {}
  BY <1>1, <1>2 DEF Items
<1>4. ASSUME NEW d \in roots  PROVE Chain(w, d)
  <2>1. d \in Path /\ Root \subseteq Path
    BY TreeAssumption DEF Dir
  <2>2. AtOrBelow(d, d)
    BY <2>1, AtItself
  <2>3. \A q \in Subtree(d) \ {d} : ~AtOrBelow(d, q)
    BY <2>1, AtOrBelowBoth DEF Subtree
  <2>. QED  BY <1>1, <2>2, <2>3 DEF Chain
<1>5. 0 <= EntryLimit(roots)
  BY LimitIsANumber
<1>6. Cardinality({}) = 0
  BY FS_EmptySet
<1>. HIDE DEF w
<1>7. Shape(w, w.pending)
  BY <1>1, <1>4 DEF Shape
<1>8. WithinLimit(w) /\ WithinLimit(ReportOf(w))
  BY <1>1, <1>2, <1>3, <1>5, <1>6 DEF WithinLimit
<1>9. roots = {} => Shape(ReportOf(w), {})
  BY <1>2 DEF Shape
<1>. QED  BY <1>7, <1>8, <1>9 DEF w

\* A walk that is over is reported as it is.
LEMMA ReportShape ==
    ASSUME NEW w, Shape(w, {}), WithinLimit(w)
    PROVE  Shape(ReportOf(w), {}) /\ WithinLimit(ReportOf(w))
<1>1. /\ ReportOf(w).roots = w.roots /\ ReportOf(w).scanned = w.scanned
      /\ ReportOf(w).truncated = w.truncated /\ ReportOf(w).listing = w.listing
  BY DEF ReportOf
<1>2. Items(ReportOf(w)) = Items(w)
  BY <1>1 DEF Items
<1>. QED  BY <1>1, <1>2 DEF Shape, WithinLimit, Chain
\* What one reading of the directory d makes of the walk: w is the walk after it, with
\* the entries taken and the directories pending.
ReadTo(w, d, taken, pending) ==
    /\ d \in scan.pending /\ d \notin Unreadable
    /\ taken \subseteq Listing(present, d)
    /\ w.roots = scan.roots
    /\ w.scanned = scan.scanned \cup {d}
    /\ w.listing = [scan.listing EXCEPT ![d] = taken]
    /\ pending \subseteq (scan.pending \ {d}) \cup ((taken \cap Dir) \ scan.roots)
    /\ w.truncated => pending = {}

\* The walk is in shape after it.
LEMMA ReadKeepsShape ==
    ASSUME TypeOK, Shape(scan, scan.pending), NEW w, NEW d, NEW taken, NEW pending,
           ReadTo(w, d, taken, pending)
    PROVE  Shape(w, pending)
<1>1. /\ scan \in Walk /\ d \in scan.pending /\ d \in Dir /\ d \in Path
      /\ scan.pending \subseteq Dir /\ scan.scanned \subseteq Dir /\ scan.roots \subseteq Dir
      /\ scan.listing \in [Dir -> SUBSET Path] /\ d \notin scan.scanned
  BY TreeAssumption DEF TypeOK, Walk, ReadTo, Dir, Shape
<1>2. /\ w.listing[d] = taken
      /\ \A e \in Dir \ {d} : w.listing[e] = scan.listing[e]
  BY <1>1 DEF ReadTo
<1>3. taken \subseteq ChildrenOf(d) \cap Indexable
  BY DEF ReadTo, Listing
<1>4. \A e \in Dir : w.listing[e] \subseteq ChildrenOf(e) \cap Indexable
  BY <1>2, <1>3 DEF Shape
<1>5. \A e \in Dir : scan.listing[e] \subseteq ChildrenOf(e)
  BY DEF Shape
<1>6. pending \cap w.scanned = {}
  <2>. SUFFICES ASSUME NEW c \in pending, c \in w.scanned PROVE FALSE
    OBVIOUS
  <2>1. CASE c \in scan.pending \ {d}
    BY <2>1 DEF Shape, ReadTo
  <2>2. CASE c \in (taken \cap Dir) \ scan.roots
    <3>1. c \in ChildrenOf(d) /\ c \in Path
      BY <1>3, <2>2 DEF Dir
    <3>2. c # d
      BY <1>1, <3>1, NotItsOwnEntry
    <3>3. c \in scan.scanned
      BY <3>2 DEF ReadTo
    <3>4. PICK e \in scan.scanned : c \in scan.listing[e]
      BY <2>2, <3>3 DEF Shape
    <3>5. c \in ChildrenOf(e) /\ e \in Path
      BY <1>1, <1>5, <3>4 DEF Dir
    <3>6. e = d
      BY <1>1, <3>1, <3>5, OneParent
    <3>. QED  BY <1>1, <3>4, <3>6
  <2>. QED  BY <2>1, <2>2 DEF ReadTo
<1>7. w.scanned \cap Unreadable = {}
  BY DEF Shape, ReadTo
<1>8. ASSUME NEW c \in w.scanned \cup pending
      PROVE  c \in w.roots \/ \E e \in w.scanned : c \in w.listing[e]
  <2>1. CASE c \in scan.scanned \cup scan.pending
    <3>1. c \in scan.roots \/ \E e \in scan.scanned : c \in scan.listing[e]
      BY <2>1 DEF Shape
    <3>2. \A e \in scan.scanned : e \in w.scanned /\ w.listing[e] = scan.listing[e]
      BY <1>1, <1>2 DEF ReadTo
    <3>. QED  BY <3>1, <3>2 DEF ReadTo
  <2>2. CASE c \in taken
    BY <1>2, <2>2 DEF ReadTo
  <2>. QED  BY <1>1, <2>1, <2>2 DEF ReadTo
<1>9. ASSUME NEW c \in scan.scanned \cup scan.pending
      PROVE  Chain(w, c)
  <2>1. Chain(scan, c)
    BY DEF Shape
  <2>. QED  BY <2>1 DEF Chain, ReadTo
<1>10. ASSUME NEW c \in taken
       PROVE  Chain(w, c)
  <2>1. Chain(scan, d)
    BY <1>1 DEF Shape
  <2>2. PICK r \in scan.roots :
          /\ AtOrBelow(d, r)
          /\ r = d \/ r \notin Unreadable
          /\ \A q \in Subtree(r) \ {r} :
               AtOrBelow(d, q) => q \in Indexable /\ (q = d \/ q \notin Unreadable)
    BY <2>1 DEF Chain
  <2>3. c \in ChildrenOf(d) /\ c \in Indexable /\ c \in Path /\ r \in Path /\ d \notin Unreadable
    BY <1>1, <1>3 DEF Indexable, Dir, ReadTo
  <2>4. AtOrBelow(c, d)
    BY <2>3 DEF ChildrenOf
  <2>5. AtOrBelow(c, r)
    BY <1>1, <2>2, <2>3, <2>4, AtOrBelowTransitive
  <2>6. ASSUME NEW q \in Subtree(r) \ {r}, AtOrBelow(c, q)
        PROVE  q \in Indexable /\ (q = c \/ q \notin Unreadable)
    <3>1. CASE q = c
      BY <2>3, <3>1
    <3>2. CASE q # c
      <4>1. AtOrBelow(d, q)
        BY <1>1, <2>3, <2>6, <3>2, AboveAnEntry DEF Subtree
      <4>. QED  BY <2>2, <2>3, <2>6, <4>1
    <3>. QED  BY <3>1, <3>2
  <2>. QED  BY <2>2, <2>3, <2>5, <2>6 DEF Chain, ReadTo
<1>11. w.scanned \cup pending \subseteq scan.scanned \cup scan.pending \cup taken
  BY <1>1 DEF ReadTo
<1>12. w.truncated => pending = {}
  BY DEF ReadTo
<1>. QED  BY <1>4, <1>6, <1>7, <1>8, <1>9, <1>10, <1>11, <1>12 DEF Shape

\* It adds as many items as it takes entries.
LEMMA ReadAddsItems ==
    ASSUME TypeOK, Shape(scan, scan.pending), NEW w, NEW d, NEW taken, NEW pending,
           ReadTo(w, d, taken, pending)
    PROVE  /\ Cardinality(Items(w)) = Cardinality(Items(scan)) + Cardinality(taken)
           /\ Cardinality(Items(scan)) \in Nat /\ Cardinality(taken) \in Nat
<1>1. /\ scan \in Walk /\ d \in Dir /\ d \in Path /\ d \notin scan.scanned
      /\ scan.scanned \subseteq Dir /\ scan.listing \in [Dir -> SUBSET Path]
      /\ taken \subseteq ChildrenOf(d) /\ taken \subseteq Path
  BY DEF TypeOK, Walk, ReadTo, Dir, Shape, Listing, ChildrenOf
<1>2. /\ w.listing[d] = taken
      /\ \A e \in scan.scanned : w.listing[e] = scan.listing[e]
      /\ w.scanned = scan.scanned \cup {d}
  BY <1>1 DEF ReadTo
<1>3. Items(w) = Items(scan) \cup taken
  BY <1>2 DEF Items
<1>4. Items(scan) \cap taken = {}
  <2>. SUFFICES ASSUME NEW p \in taken, NEW e \in scan.scanned, p \in scan.listing[e]
                PROVE  FALSE
    BY DEF Items
  <2>1. e \in Path /\ p \in ChildrenOf(e) /\ p \in ChildrenOf(d)
    BY <1>1 DEF Shape, Dir
  <2>2. e = d
    BY <1>1, <2>1, OneParent
  <2>. QED  BY <1>1, <2>2
<1>5. Items(scan) \subseteq Path
  BY <1>1 DEF Items
<1>6. IsFiniteSet(Path)
  BY TreeAssumption
<1>7. IsFiniteSet(Items(scan)) /\ IsFiniteSet(taken)
  BY <1>1, <1>5, <1>6, FS_Subset
<1>8. Cardinality(Items(scan)) \in Nat /\ Cardinality(taken) \in Nat
  BY <1>7, FS_CardinalityType
<1>9. Cardinality(Items(scan) \cap taken) = 0
  BY <1>4, FS_EmptySet
<1>10. Cardinality(Items(scan) \cup taken)
         = Cardinality(Items(scan)) + Cardinality(taken) - Cardinality(Items(scan) \cap taken)
  BY <1>7, FS_Union
<1>. QED  BY <1>3, <1>8, <1>9, <1>10

\* The walk stays in shape and within its limit, whatever directory is next.
LEMMA ScanDirectoryKeepsWalk ==
    ASSUME TypeOK, WalkInv, ScanDirectory
    PROVE  Shape(scan', scan'.pending) /\ WithinLimit(scan')
<1>. PICK d \in scan.pending : SkipDirectory(d) \/ ReadDirectory(d) \/ TruncateAt(d)
  BY DEF ScanDirectory
<1>1. scan \in Walk /\ scan.roots \in SUBSET Root
  BY DEF TypeOK, Walk
<1>2. Shape(scan, scan.pending) /\ WithinLimit(scan)
  BY DEF WalkInv
<1>3. EntryLimit(scan.roots) \in Nat
  BY <1>1, LimitIsANumber
<1>4. CASE SkipDirectory(d)
  <2>1. /\ scan'.pending = scan.pending \ {d}
        /\ UNCHANGED <<scan.roots, scan.scanned, scan.listing, scan.truncated>>
    BY <1>1, <1>4 DEF SkipDirectory, Walk
  <2>. QED  BY <1>2, <2>1 DEF Shape, WithinLimit, Items, Chain
<1>5. CASE ReadDirectory(d)
  <2>. DEFINE taken == Listing(present, d)
  <2>1. /\ ReadTo(scan', d, taken, scan'.pending)
        /\ scan'.truncated = scan.truncated /\ scan'.roots = scan.roots
        /\ Cardinality(taken) <= EntryLimit(scan.roots) - Cardinality(Items(scan))
    <3>1. /\ scan'.roots = scan.roots /\ scan'.scanned = scan.scanned \cup {d}
          /\ scan'.listing = [scan.listing EXCEPT ![d] = taken]
          /\ scan'.pending = (scan.pending \ {d}) \cup Descend(taken)
          /\ scan'.truncated = scan.truncated
          /\ d \notin Unreadable
      BY <1>1, <1>5 DEF ReadDirectory, Walk
    <3>2. ~scan.truncated
      BY <1>2 DEF Shape
    <3>. QED  BY <1>5, <3>1, <3>2 DEF ReadTo, Descend, ReadDirectory, Room
  <2>. HIDE DEF taken
  <2>2. ~scan.truncated
    BY <1>2 DEF Shape
  <2>3. Shape(scan', scan'.pending)
    BY <1>2, <2>1, ReadKeepsShape
  <2>4. /\ Cardinality(Items(scan')) = Cardinality(Items(scan)) + Cardinality(taken)
        /\ Cardinality(Items(scan)) \in Nat /\ Cardinality(taken) \in Nat
    BY <1>2, <2>1, ReadAddsItems
  <2>5. Cardinality(Items(scan')) <= EntryLimit(scan.roots)
    BY <1>3, <2>1, <2>4
  <2>. QED  BY <2>1, <2>2, <2>3, <2>5 DEF WithinLimit
<1>6. CASE TruncateAt(d)
  <2>1. PICK taken \in SUBSET Listing(present, d) :
          /\ Cardinality(taken) = Room
          /\ scan' = [scan EXCEPT !.scanned = @ \cup {d}, !.listing[d] = taken,
                                  !.pending = {}, !.truncated = TRUE]
    BY <1>6 DEF TruncateAt
  <2>2. /\ ReadTo(scan', d, taken, scan'.pending)
        /\ scan'.roots = scan.roots
        /\ Cardinality(taken) = EntryLimit(scan.roots) - Cardinality(Items(scan))
    <3>1. /\ scan'.roots = scan.roots /\ scan'.scanned = scan.scanned \cup {d}
          /\ scan'.listing = [scan.listing EXCEPT ![d] = taken]
          /\ scan'.pending = {} /\ d \notin Unreadable
      BY <1>1, <1>6, <2>1 DEF TruncateAt, Walk
    <3>. QED  BY <2>1, <3>1 DEF ReadTo, Room
  <2>3. Shape(scan', scan'.pending)
    BY <1>2, <2>2, ReadKeepsShape
  <2>4. /\ Cardinality(Items(scan')) = Cardinality(Items(scan)) + Cardinality(taken)
        /\ Cardinality(Items(scan)) \in Nat /\ Cardinality(taken) \in Nat
    BY <1>2, <2>2, ReadAddsItems
  <2>5. Cardinality(Items(scan')) = EntryLimit(scan.roots)
    BY <1>3, <2>2, <2>4
  <2>. QED  BY <1>3, <2>2, <2>3, <2>5 DEF WithinLimit
<1>. QED  BY <1>4, <1>5, <1>6

\* The walk and the index have their shape and limit at first, and after every step.
LEMMA InitWalk == Init => WalkInv
<1>. SUFFICES ASSUME Init PROVE WalkInv
  OBVIOUS
<1>1. /\ scan = StartWalk({}) /\ snapshot = ReportOf(StartWalk({}))
      /\ monitor = "unborn" /\ {} \in SUBSET Root
  BY DEF Init
<1>. QED  BY <1>1, StartShape DEF WalkInv

LEMMA NextWalk == IndInv /\ WalkInv /\ [Next]_vars => WalkInv'
<1>. SUFFICES ASSUME IndInv, WalkInv, [Next]_vars PROVE WalkInv'
  OBVIOUS
<1>0. TypeOK /\ PhaseInv /\ mounted \subseteq Root /\ snapshot.roots \in SUBSET Root
  BY DEF IndInv, TypeOK, IndexState
<1>1. CASE /\ UNCHANGED <<scan, snapshot>>
           /\ monitor' \in {"watch", "follow_up", "publish"} =>
                monitor \in {"watch", "follow_up", "publish"}
  BY <1>1 DEF WalkInv, Shape, WithinLimit, Chain, Items
<1>2. CASE ScanDirectory
  <2>1. monitor \in {"unborn", "scan"} /\ UNCHANGED <<monitor, snapshot>>
    BY <1>0, <1>2 DEF ScanDirectory, SkipDirectory, ReadDirectory, TruncateAt, Scanning,
                      PhaseInv, threads
  <2>. QED
    BY <1>0, <1>2, <2>1, ScanDirectoryKeepsWalk DEF WalkInv, Shape, WithinLimit, Chain, Items
<1>3. CASE BeginInitialScan \/ BeginRebuild
  <2>1. \E roots \in SUBSET Root : scan' = StartWalk(roots)
    BY <1>0, <1>3, DiscoveredRootsAreRoots, RefreshAssumption DEF BeginInitialScan, BeginRebuild
  <2>2. snapshot' = snapshot /\ monitor' \notin {"watch", "follow_up", "publish"}
    BY <1>0, <1>3 DEF BeginInitialScan, BeginRebuild, PhaseInv
  <2>. QED  BY <2>1, <2>2, StartShape DEF WalkInv
<1>4. CASE FinishInitialScan \/ Publish
  <2>1. /\ scan.pending = {} /\ snapshot' = ReportOf(scan) /\ scan' = StartWalk({})
        /\ monitor' \notin {"watch", "follow_up", "publish"}
    BY <1>4 DEF FinishInitialScan, Publish, WalkInv
  <2>2. {} \in SUBSET Root
    OBVIOUS
  <2>3. Shape(ReportOf(scan), {}) /\ WithinLimit(ReportOf(scan))
    BY <2>1, ReportShape DEF WalkInv
  <2>. QED  BY <2>1, <2>2, <2>3, StartShape DEF WalkInv
<1>5. CASE FinishRebuildScan
  BY <1>5 DEF FinishRebuildScan, WalkInv, Shape, WithinLimit, Chain, Items
<1>. QED
  BY <1>1, <1>2, <1>3, <1>4, <1>5
     DEF Next, vars, Exited, Environment, Appear, Vanish, Mount, Unmount, FallbackElapses,
         MainStep, Join, BeginShutdown, MonitorStep, StartMonitor, AddWatch, FirstWatcherReady,
         Wake, Poll, StayIdle, FollowUpOld, FollowUpNew, threads

\* The index is never over its limit, and said to be truncated only when it is at it,
\* for every tree, every limit and however the disk changes under the walk.
THEOREM TruncationIsAlwaysExact == Spec => []TruncationIsExact
<1>1. Init => IndInv /\ WalkInv
  BY InitInd, InitWalk
<1>2. IndInv /\ WalkInv /\ [Next]_vars => (IndInv /\ WalkInv)'
  BY NextInd, NextWalk
<1>3. IndInv /\ WalkInv => TruncationIsExact
  BY DEF WalkInv, WithinLimit, TruncationIsExact
<1>. QED  BY <1>1, <1>2, <1>3, PTL DEF Spec

-----------------------------------------------------------------------------
(* What follows from a directory that is covered: the directories found in *)
(* it were entered, and they are watched too.                              *)

\* The allowance is enough for both watchers.
Plenty == 2 * Cardinality(Dir) <= WatchLimit

Entered(w, pending, e) ==
    ~w.truncated =>
        \A d \in (w.listing[e] \cap Dir) \ (w.roots \cup Unreadable) : d \in w.scanned \cup pending

\* A mount point is followed by the watch on the directory that is hidden there.
Follows(w) == w.watched \cup {r \in Root : r \in w.hidden[r]}
FollowsIn(w, L) == IF L \in Root THEN w.hidden[L] ELSE Follows(w)

Followed(tree, index, follows, e) ==
    Plenty => \A d \in index.scanned \cap tree : d \in ChildrenOf(e) => d \in follows

\* As CoverInv: it is so, or some flag or queue knows that it may not be.
FollowInv ==
    /\ monitor \in {"park", "poll", "decide"} =>
         \A L \in Layers : \A e \in covered \cap Seen(watcher, L) :
            \/ Entered(snapshot, {}, e) /\ Followed(Tree(L), snapshot, FollowsIn(watcher, L), e)
            \/ Known
    /\ monitor = "scan" =>
         \A e \in bridged : Entered(scan, scan.pending, e) \/ watcher.queue > 0
    /\ monitor = "watch" =>
         \A e \in bridged :
            \/ /\ Entered(scan, {}, e)
               /\ replacement.open =>
                    \/ Followed(present, scan, to_watch \cup Follows(replacement), e)
                    \/ replacement.queue > 0
            \/ watcher.queue > 0
    /\ monitor = "follow_up" =>
         \A e \in bridged \cap replacement.watched :
            \/ Entered(scan, {}, e) /\ Followed(present, scan, Follows(replacement), e)
            \/ refresh_pending \/ replacement.queue > 0
    /\ monitor = "publish" =>
         \A e \in bridged \cap watcher.watched :
            \/ Entered(scan, {}, e) /\ Followed(present, scan, Follows(watcher), e)
            \/ refresh_pending \/ watcher.queue > 0

\* What a change of the disk does to a watcher that becomes v: of the entries of a
\* directory that it watches, or that is bridged, it follows those it followed, or there
\* is something in its queue.
KeepsFollowing(w, v) ==
    /\ \A L, K \in Layers : \A e \in Seen(v, L) \cap Seen(w, K) :
         \A d \in ChildrenOf(e) \cap Tree(L)' \cap FollowsIn(w, K) :
            d \in FollowsIn(v, L) \/ v.queue > 0
    /\ \A e \in bridged' : \A d \in ChildrenOf(e) \cap present' \cap Follows(w) :
         d \in Follows(v) \/ v.queue > 0

\* Nothing that appears changes what is followed.
LEMMA AppearFollows ==
    ASSUME NEW w \in Watcher, Fits(w, present, under, mounted), NEW p
    PROVE  KeepsFollowing(w, Told(w, Hears(w, p)))
<1>. DEFINE v == Told(w, Hears(w, p))
<1>1. v.watched = w.watched /\ v.hidden = w.hidden
  <2>1. Hears(w, p) \in BOOLEAN
    BY DEF Hears
  <2>. HIDE DEF Hears
  <2>. QED  BY <2>1, ToldWatcher
<1>. HIDE DEF v
<1>2. \A L : FollowsIn(v, L) = FollowsIn(w, L) /\ Seen(v, L) = Seen(w, L)
  BY <1>1 DEF FollowsIn, Follows, Seen
<1>3. Follows(v) = Follows(w)
  BY <1>1 DEF Follows
<1>4. \A L, K \in Layers : Seen(v, L) \cap Seen(w, K) # {} => L = K
  BY <1>2 DEF Fits
<1>5. KeepsFollowing(w, v)
  BY <1>2, <1>3, <1>4 DEF KeepsFollowing
<1>. QED  BY <1>5 DEF v

\* What vanishes is no entry of anything any more.
LEMMA VanishFollows ==
    ASSUME NEW w \in Watcher, Fits(w, present, under, mounted), NEW p \in present, Vanish(p)
    PROVE  KeepsFollowing(w, Detached(Told(w, Hears(w, p)), p))
<1>. DEFINE v == Detached(Told(w, Hears(w, p)), p)
<1>1. v.watched = w.watched \ Subtree(p) /\ v.hidden = w.hidden
  <2>1. Hears(w, p) \in BOOLEAN
    BY DEF Hears
  <2>. HIDE DEF Hears
  <2>. QED  BY <2>1, ToldWatcher, DetachedWatcher
<1>2. present' = present \ Subtree(p)
  BY DEF Vanish
<1>. HIDE DEF v
<1>3. \A d \in present' : d \in Follows(w) => d \in Follows(v)
  BY <1>1, <1>2 DEF Follows
<1>4. ASSUME NEW L \in Layers, NEW K \in Layers, NEW e \in Seen(v, L) \cap Seen(w, K)
      PROVE  L = K
  <2>1. Seen(v, L) \subseteq Seen(w, L)
    BY <1>1 DEF Seen
  <2>. QED  BY <1>4, <2>1 DEF Fits
<1>5. \A L : \A d \in Tree(L)' \cap FollowsIn(w, L) : d \in FollowsIn(v, L)
  BY <1>1, <1>3 DEF FollowsIn, Tree
<1>6. KeepsFollowing(w, v)
  BY <1>3, <1>4, <1>5 DEF KeepsFollowing
<1>. QED  BY <1>6 DEF v

\* A volume that is mounted hides no followed entry but its mount point, and that is
\* followed there.
LEMMA MountFollows ==
    ASSUME TypeOK, DiskInv, NEW w \in Watcher, Fits(w, present, under, mounted),
           NEW r \in Root, NEW tree \in Trees(r), Mount(r, tree)
    PROVE  KeepsFollowing(w, Hide(w, r))
<1>. DEFINE v == Hide(w, r)
<1>1. /\ v.watched = w.watched \ Subtree(r) /\ v.hidden[r] = w.watched \cap Subtree(r)
      /\ \A q \in Root \ {r} : v.hidden[q] = w.hidden[q]
  BY HiddenWatcher
<1>2. /\ bridged' = bridged \ Subtree(r) /\ r \in Path /\ present \in SUBSET Path
      /\ w.watched \subseteq Path /\ bridged \subseteq Path
      /\ \A q \in mounted : ~AtOrBelow(q, r)
      /\ \A q \in Root : w.hidden[q] # {} => q \in mounted
  BY TopIsNoRoot DEF TypeOK, Mount, MountsBelow, Fits, Dir
<1>3. w.hidden[r] = {}
  BY <1>2, AtItself
<1>. HIDE DEF v
<1>4. ASSUME NEW e \in Path \ Subtree(r), NEW d \in ChildrenOf(e) \cap Follows(w)
      PROVE  d \in Follows(v)
  <2>1. CASE d \in w.watched /\ d \notin Subtree(r)
    BY <1>1, <2>1 DEF Follows
  <2>2. CASE d \in w.watched /\ d \in Subtree(r)
    <3>1. d = r
      BY <1>2, <1>4, <2>2, EntriesAreOutside
    <3>. QED  BY <1>1, <2>2, <3>1 DEF Follows
  <2>3. CASE d \in Root /\ d \in w.hidden[d]
    BY <1>1, <1>3, <2>3 DEF Follows
  <2>. QED  BY <1>4, <2>1, <2>2, <2>3 DEF Follows
<1>5. ASSUME NEW e \in Subtree(r), NEW d \in ChildrenOf(e) \cap Follows(w)
      PROVE  d \in v.hidden[r]
  <2>1. d \in Subtree(r)
    BY <1>2, <1>5, EntriesAreInside
  <2>2. ~(d \in Root /\ d \in w.hidden[d])
    BY <1>2, <2>1 DEF Subtree
  <2>. QED  BY <1>1, <1>5, <2>1, <2>2 DEF Follows
<1>6. ASSUME NEW L \in Layers, NEW K \in Layers, NEW e \in Seen(v, L) \cap Seen(w, K),
             NEW d \in ChildrenOf(e) \cap FollowsIn(w, K)
      PROVE  d \in FollowsIn(v, L)
  <2>1. CASE L \in Root \ {r}
    <3>1. e \in Seen(w, L) /\ L = K
      BY <1>1, <1>6, <2>1 DEF Seen, Fits
    <3>. QED  BY <1>1, <1>6, <2>1, <3>1 DEF FollowsIn
  <2>2. CASE L \notin Root \ {r}
    <3>1. e \in w.watched /\ (L = r <=> e \in Subtree(r)) /\ L \in {Top, r}
      BY <1>1, <1>6, <2>2, TopIsNoRoot DEF Seen, Layers
    <3>2. e \in Seen(w, Top) /\ Top \in Layers
      BY <3>1, TopIsNoRoot DEF Seen, Layers
    <3>3. K = Top
      BY <1>6, <3>2 DEF Fits
    <3>4. d \in Follows(w)
      BY <1>6, <3>3, TopIsNoRoot DEF FollowsIn
    <3>5. CASE L = r
      BY <1>5, <1>6, <3>1, <3>4, <3>5 DEF FollowsIn
    <3>6. CASE L = Top
      <4>1. e \in Path \ Subtree(r)
        BY <1>2, <3>1, <3>6, TopIsNoRoot
      <4>. QED  BY <1>4, <1>6, <3>4, <3>6, <4>1, TopIsNoRoot DEF FollowsIn
    <3>. QED  BY <3>1, <3>5, <3>6
  <2>. QED  BY <2>1, <2>2
<1>7. \A e \in bridged' : e \in Path \ Subtree(r)
  BY <1>2
<1>8. KeepsFollowing(w, v)
  BY <1>4, <1>6, <1>7 DEF KeepsFollowing
<1>. QED  BY <1>8 DEF v

\* A volume that is unmounted with a watched directory on it tells of it; what is
\* followed in the tree it hid is followed there.
LEMMA UnmountFollows ==
    ASSUME TypeOK, DiskInv, NEW w \in Watcher, Fits(w, present, under, mounted),
           NEW r \in mounted, Unmount(r)
    PROVE  KeepsFollowing(w, Reveal(Told(w, w.watched \cap Subtree(r) # {}), r))
<1>. DEFINE heard == w.watched \cap Subtree(r) # {}
            u == Told(w, heard)
            v == Reveal(u, r)
<1>0. r \in Root /\ heard \in BOOLEAN
  BY DEF TypeOK
<1>1. /\ v.watched = (w.watched \ Subtree(r)) \cup w.hidden[r] /\ v.hidden[r] = {}
      /\ \A q \in Root \ {r} : v.hidden[q] = w.hidden[q]
      /\ heard => v.queue > 0
  <2>. HIDE DEF heard
  <2>1. /\ u \in Watcher /\ u.watched = w.watched
        /\ u.hidden = w.hidden /\ (heard => u.queue > 0)
    BY <1>0, ToldWatcher
  <2>. HIDE DEF u
  <2>. QED  BY <1>0, <2>1, RevealedWatcher
<1>. HIDE DEF v, u
<1>2. ASSUME ~(v.queue > 0)  PROVE \A d \in Follows(w) : d \in Follows(v)
  <2>1. v.watched = w.watched \cup w.hidden[r]
    BY <1>1, <1>2
  <2>. QED  BY <1>1, <2>1 DEF Follows
<1>. HIDE DEF heard
<1>3. /\ Seen(w, Top) = w.watched /\ Seen(w, r) = w.hidden[r]
      /\ Seen(v, Top) = v.watched /\ Seen(v, r) = {}
      /\ Top \in Layers /\ r \in Layers /\ Top # r
      /\ \A M \in Layers \ {Top, r} : Seen(v, M) = Seen(w, M) /\ M \in Root \ {r}
      /\ \A L, K \in Layers : L = K \/ Seen(w, L) \cap Seen(w, K) = {}
  BY <1>0, <1>1, TopIsNoRoot DEF Seen, Layers, Fits
<1>4. ASSUME NEW L \in Layers, NEW K \in Layers, NEW e \in Seen(v, L) \cap Seen(w, K),
             NEW d \in FollowsIn(w, K), ~(v.queue > 0)
      PROVE  d \in FollowsIn(v, L)
  <2>1. CASE L \in Layers \ {Top, r}
    <3>1. L = K /\ L \in Root \ {r}
      BY <1>3, <1>4, <2>1
    <3>. QED  BY <1>1, <1>4, <3>1 DEF FollowsIn
  <2>2. CASE L = Top /\ e \in w.hidden[r]
    <3>1. K = r
      BY <1>3, <1>4, <2>2
    <3>2. d \in v.watched
      BY <1>0, <1>1, <1>4, <3>1 DEF FollowsIn
    <3>. QED  BY <2>2, <3>2, TopIsNoRoot DEF FollowsIn, Follows
  <2>3. CASE L = Top /\ e \in w.watched \ Subtree(r)
    <3>1. K = Top
      BY <1>3, <1>4, <2>3
    <3>. QED  BY <1>2, <1>4, <2>3, <3>1, TopIsNoRoot DEF FollowsIn
  <2>. QED  BY <1>1, <1>3, <1>4, <2>1, <2>2, <2>3
<1>5. KeepsFollowing(w, v)
  BY <1>2, <1>4 DEF KeepsFollowing
<1>. QED  BY <1>5 DEF v, u, heard

\* Both watchers keep following.
LEMMA EnvironmentFollows ==
    ASSUME IndInv, Environment
    PROVE  KeepsFollowing(watcher, watcher') /\ KeepsFollowing(replacement, replacement')
<1>1. /\ TypeOK /\ DiskInv /\ watcher \in Watcher /\ replacement \in Watcher
      /\ Fits(watcher, present, under, mounted) /\ Fits(replacement, present, under, mounted)
  BY DEF IndInv, TypeOK, WatchInv
<1>2. ASSUME NEW p, NEW contents, Appear(p, contents)
      PROVE  KeepsFollowing(watcher, watcher') /\ KeepsFollowing(replacement, replacement')
  <2>1. /\ watcher' = Told(watcher, Hears(watcher, p))
        /\ replacement' = Told(replacement, Hears(replacement, p))
    BY <1>2 DEF Appear
  <2>. QED  BY <1>1, <2>1, AppearFollows
<1>3. ASSUME NEW p \in present, Vanish(p)
      PROVE  KeepsFollowing(watcher, watcher') /\ KeepsFollowing(replacement, replacement')
  <2>1. /\ watcher' = Detached(Told(watcher, Hears(watcher, p)), p)
        /\ replacement' = Detached(Told(replacement, Hears(replacement, p)), p)
    BY <1>3 DEF Vanish
  <2>. QED  BY <1>1, <1>3, <2>1, VanishFollows
<1>4. ASSUME NEW r \in Root, NEW tree \in Trees(r), Mount(r, tree)
      PROVE  KeepsFollowing(watcher, watcher') /\ KeepsFollowing(replacement, replacement')
  <2>1. watcher' = Hide(watcher, r) /\ replacement' = Hide(replacement, r)
    BY <1>4 DEF Mount
  <2>. QED  BY <1>1, <1>4, <2>1, MountFollows
<1>5. ASSUME NEW r \in mounted, Unmount(r)
      PROVE  KeepsFollowing(watcher, watcher') /\ KeepsFollowing(replacement, replacement')
  <2>1. /\ watcher' = Reveal(Told(watcher, watcher.watched \cap Subtree(r) # {}), r)
        /\ replacement' = Reveal(Told(replacement, replacement.watched \cap Subtree(r) # {}), r)
    BY <1>5 DEF Unmount
  <2>. QED  BY <1>1, <1>5, <2>1, UnmountFollows
<1>. QED  BY <1>2, <1>3, <1>4, <1>5 DEF Environment

\* What is followed of a directory e stays followed when whoever watches e, and
\* whoever follows, has nothing in its queue.
LEMMA FollowedIsKept ==
    ASSUME NEW w, NEW v, KeepsTelling(w, v), KeepsFollowing(w, v), ~(v.queue > 0),
           NEW L \in Layers, NEW K \in Layers, NEW e \in Seen(v, L) \cap Seen(w, K),
           NEW index, Followed(Tree(K), index, FollowsIn(w, K), e)
    PROVE  Followed(Tree(L)', index, FollowsIn(v, L), e)
<1>. SUFFICES ASSUME Plenty, NEW d \in index.scanned \cap Tree(L)', d \in ChildrenOf(e)
              PROVE  d \in FollowsIn(v, L)
  BY DEF Followed
<1>1. d \in Tree(K)
  BY DEF KeepsTelling, Entries
<1>2. d \in FollowsIn(w, K)
  BY <1>1 DEF Followed
<1>. QED  BY <1>2 DEF KeepsFollowing

\* A change of the disk is told wherever it may matter.
LEMMA EnvironmentFollow ==
    ASSUME IndInv, FollowInv, Environment
    PROVE  FollowInv'
<1>1. DiskStep /\ CoverInv /\ CoverInv'
  BY EnvironmentInd DEF IndInv
<1>2. /\ UNCHANGED <<monitor, scan, snapshot, to_watch, refresh_pending, file_changed>>
      /\ covered' \subseteq covered /\ bridged' \subseteq bridged
      /\ replacement'.open = replacement.open
      /\ KeepsTelling(watcher, watcher') /\ KeepsTelling(replacement, replacement')
      /\ KeepsFollowing(watcher, watcher') /\ KeepsFollowing(replacement, replacement')
      /\ watcher.queue > 0 => watcher'.queue > 0
      /\ replacement.queue > 0 => replacement'.queue > 0
  BY <1>1, EnvironmentFollows DEF DiskStep, BothKeepTelling, KeepsTelling
<1>3. /\ Top \in Layers /\ Tree(Top) = present /\ Tree(Top)' = present'
      /\ \A w : Seen(w, Top) = w.watched /\ FollowsIn(w, Top) = Follows(w)
  BY TopIsNoRoot DEF Layers, Tree, Seen, FollowsIn
<1>4. Known => Known'
  BY <1>2 DEF Known
<1>5. CASE monitor \in {"park", "poll", "decide"}
  <2>1. ASSUME NEW L \in Layers, NEW e \in covered' \cap Seen(watcher', L)
        PROVE  \/ /\ Entered(snapshot', {}, e)
                  /\ Followed(Tree(L)', snapshot', FollowsIn(watcher', L), e)
               \/ Known'
    <3>1. PICK K \in Layers : e \in Seen(watcher, K)
      <4>1. e \in Watches(watcher)
        BY <1>1, <1>2, <1>5, <2>1 DEF CoverInv
      <4>. QED  BY <4>1, TopIsNoRoot DEF Watches, Seen, Layers
    <3>2. \/ /\ Entered(snapshot, {}, e)
             /\ Followed(Tree(K), snapshot, FollowsIn(watcher, K), e)
          \/ Known
      BY <1>2, <1>5, <2>1, <3>1 DEF FollowInv
    <3>3. CASE Entered(snapshot, {}, e) /\ Followed(Tree(K), snapshot, FollowsIn(watcher, K), e)
      <4>1. CASE ~(watcher'.queue > 0)
        <5>1. Followed(Tree(L)', snapshot, FollowsIn(watcher', L), e)
          BY <1>2, <2>1, <3>1, <3>3, <4>1, FollowedIsKept
        <5>. QED  BY <1>2, <3>3, <5>1
      <4>2. CASE watcher'.queue > 0
        BY <4>2 DEF Known
      <4>. QED  BY <4>1, <4>2
    <3>. QED  BY <1>4, <3>2, <3>3
  <2>. QED  BY <1>2, <1>5, <2>1 DEF FollowInv
<1>6. CASE monitor = "scan"
  BY <1>2, <1>6 DEF FollowInv
<1>7. CASE monitor = "watch"
  <2>1. ASSUME NEW e \in bridged', ~(watcher'.queue > 0), ~(replacement'.queue > 0),
               Followed(present, scan, to_watch \cup Follows(replacement), e)
        PROVE  Followed(present', scan, to_watch \cup Follows(replacement'), e)
    <3>. SUFFICES ASSUME Plenty, NEW d \in scan.scanned \cap present', d \in ChildrenOf(e)
                  PROVE  d \in to_watch \cup Follows(replacement')
      BY DEF Followed
    <3>1. e \in watcher.watched /\ e \in watcher'.watched
      BY <1>1, <1>2, <1>7, <2>1 DEF CoverInv, KeepsTelling
    <3>2. Entries(Tree(Top)', e) = Entries(Tree(Top), e)
      BY <1>2, <1>3, <2>1, <3>1 DEF KeepsTelling
    <3>3. d \in present
      BY <1>3, <3>2 DEF Entries
    <3>4. d \in to_watch \cup Follows(replacement)
      BY <2>1, <3>3 DEF Followed
    <3>. QED  BY <1>2, <2>1, <3>4 DEF KeepsFollowing
  <2>2. \A e \in bridged :
            \/ /\ Entered(scan, {}, e)
               /\ replacement.open =>
                    \/ Followed(present, scan, to_watch \cup Follows(replacement), e)
                    \/ replacement.queue > 0
            \/ watcher.queue > 0
    BY <1>7 DEF FollowInv
  <2>3. \A e \in bridged' :
            \/ /\ Entered(scan, {}, e)
               /\ replacement'.open =>
                    \/ Followed(present', scan, to_watch \cup Follows(replacement'), e)
                    \/ replacement'.queue > 0
            \/ watcher'.queue > 0
    BY <1>2, <2>1, <2>2
  <2>. QED  BY <1>2, <1>7, <2>3 DEF FollowInv
<1>8. ASSUME NEW w, NEW v, KeepsTelling(w, v), KeepsFollowing(w, v), ~(v.queue > 0),
             NEW e \in v.watched \cap w.watched, Followed(present, scan, Follows(w), e)
      PROVE  Followed(present', scan, Follows(v), e)
  <2>1. e \in Seen(v, Top) \cap Seen(w, Top)
    BY <1>3, <1>8
  <2>2. Followed(Tree(Top), scan, FollowsIn(w, Top), e)
    BY <1>3, <1>8
  <2>3. Followed(Tree(Top)', scan, FollowsIn(v, Top), e)
    BY <1>3, <1>8, <2>1, <2>2, FollowedIsKept
  <2>. QED  BY <1>3, <2>3
<1>9. CASE monitor = "follow_up"
  <2>1. ASSUME NEW e \in bridged' \cap replacement'.watched
        PROVE  \/ Entered(scan, {}, e) /\ Followed(present', scan, Follows(replacement'), e)
               \/ refresh_pending \/ replacement'.queue > 0
    <3>1. e \in bridged \cap replacement.watched
      BY <1>2, <2>1 DEF KeepsTelling
    <3>2. \/ Entered(scan, {}, e) /\ Followed(present, scan, Follows(replacement), e)
          \/ refresh_pending \/ replacement.queue > 0
      BY <1>9, <3>1 DEF FollowInv
    <3>. QED  BY <1>2, <1>8, <2>1, <3>1, <3>2
  <2>. QED  BY <1>2, <1>9, <2>1 DEF FollowInv
<1>10. CASE monitor = "publish"
  <2>1. ASSUME NEW e \in bridged' \cap watcher'.watched
        PROVE  \/ Entered(scan, {}, e) /\ Followed(present', scan, Follows(watcher'), e)
               \/ refresh_pending \/ watcher'.queue > 0
    <3>1. e \in bridged \cap watcher.watched
      BY <1>2, <2>1 DEF KeepsTelling
    <3>2. \/ Entered(scan, {}, e) /\ Followed(present, scan, Follows(watcher), e)
          \/ refresh_pending \/ watcher.queue > 0
      BY <1>10, <3>1 DEF FollowInv
    <3>. QED  BY <1>2, <1>8, <2>1, <3>1, <3>2
  <2>. QED  BY <1>2, <1>10, <2>1 DEF FollowInv
<1>. QED  BY <1>2, <1>5, <1>6, <1>7, <1>9, <1>10 DEF FollowInv

\* A directory that is entered leaves pending for scanned; one that is gone was in the
\* listing of a directory that has changed since, of which the old watcher knows.
LEMMA ScanDirectoryFollow ==
    ASSUME IndInv, WalkInv, FollowInv, ScanDirectory
    PROVE  FollowInv'
<1>. PICK d \in scan.pending : SkipDirectory(d) \/ ReadDirectory(d) \/ TruncateAt(d)
  BY DEF ScanDirectory
<1>1. /\ UNCHANGED <<present, monitor, snapshot, watcher, replacement, to_watch,
                     refresh_pending, file_changed, covered>>
      /\ monitor \in {"unborn", "scan"}
  BY DEF SkipDirectory, ReadDirectory, TruncateAt, disk, threads, watching, IndInv, PhaseInv,
         Scanning, history
<1>2. /\ scan \in Walk /\ bridged \subseteq Dir
      /\ \A e \in Dir : scan.listing[e] \subseteq ChildrenOf(e)
  BY DEF IndInv, TypeOK, WalkInv, Shape
<1>3. CASE monitor = "unborn"
  BY <1>1, <1>3 DEF FollowInv
<1>4. CASE monitor = "scan"
  <2>1. SUFFICES ASSUME NEW e \in bridged', ~(watcher.queue > 0)
                 PROVE  Entered(scan', scan'.pending, e)
    BY <1>1, <1>4 DEF FollowInv
  <2>2. e \in bridged => /\ Entered(scan, scan.pending, e)
                         /\ scan.listing[e] = Listing(present, e)
    BY <1>4, <2>1, TopIsNoRoot DEF FollowInv, IndInv, CoverInv, Right, Tree
  <2>3. CASE SkipDirectory(d)
    <3>1. e \in bridged /\ scan' = [scan EXCEPT !.pending = @ \ {d}]
      BY <2>1, <2>3 DEF SkipDirectory, history
    <3>2. d \notin present \/ d \in Unreadable
      BY <2>3 DEF SkipDirectory
    <3>3. d \notin scan.listing[e] \/ d \in Unreadable
      BY <2>2, <3>1, <3>2 DEF Listing
    <3>. QED  BY <1>2, <2>2, <3>1, <3>3 DEF Entered, Walk
  <2>4. CASE ReadDirectory(d)
    <3>1. /\ scan'.scanned = scan.scanned \cup {d}
          /\ scan'.listing = [scan.listing EXCEPT ![d] = Listing(present, d)]
          /\ scan'.pending = (scan.pending \ {d}) \cup Descend(Listing(present, d))
          /\ scan'.truncated = scan.truncated /\ scan'.roots = scan.roots
          /\ scan.listing \in [Dir -> SUBSET Path]
      BY <1>2, <2>4 DEF ReadDirectory, Walk
    <3>2. CASE e = d
      <4>1. d \in Dir
        BY <1>2 DEF Walk
      <4>. QED  BY <3>1, <3>2, <4>1 DEF Entered, Descend
    <3>3. CASE e # d
      <4>1. e \in bridged /\ e \in Dir
        BY <1>2, <2>1, <2>4, <3>3 DEF ReadDirectory
      <4>. QED  BY <2>2, <3>1, <3>3, <4>1 DEF Entered
    <3>. QED  BY <3>2, <3>3
  <2>5. CASE TruncateAt(d)
    <3>1. scan'.truncated = TRUE
      BY <1>2, <2>5 DEF TruncateAt, Walk
    <3>. QED  BY <3>1 DEF Entered
  <2>. QED  BY <2>3, <2>4, <2>5
<1>. QED  BY <1>1, <1>3, <1>4

\* As CoverAtRest.
LEMMA FollowAtRest ==
    ASSUME FollowInv,
           UNCHANGED <<present, mounted, under, monitor, scan, snapshot, watcher, replacement,
                       to_watch, refresh_pending, file_changed, bridged, covered>>
    PROVE  FollowInv'
<1>1. \A L : Tree(L)' = Tree(L)
  BY DiskAtRest
<1>2. Known <=> Known'
  BY DEF Known
<1>. QED  BY <1>1, <1>2 DEF FollowInv

\* The main thread does nothing the monitor relies on.
LEMMA MainFollow ==
    ASSUME IndInv, FollowInv, MainStep \/ BeginShutdown
    PROVE  FollowInv'
<1>1. /\ UNCHANGED <<present, mounted, under, watcher, replacement, to_watch, refresh_pending,
                     file_changed, bridged, covered>>
      /\ \/ monitor' \in {"unborn", "start"}
         \/ UNCHANGED <<monitor, snapshot, scan>>
  BY DEF MainStep, BeginInitialScan, FinishInitialScan, BeginShutdown, Join, IndInv, PhaseInv,
         disk, watching, history
<1>2. CASE monitor' \in {"unborn", "start"}
  BY <1>2 DEF FollowInv
<1>3. CASE UNCHANGED <<monitor, snapshot, scan>>
  BY <1>1, <1>3, FollowAtRest
<1>. QED  BY <1>1, <1>2, <1>3

\* With an allowance for both watchers, a watch is refused only for what is gone.
LEMMA PlentyAddsAll ==
    ASSUME TypeOK, Plenty, NEW d \in Dir, d \notin Watches(replacement)
    PROVE  WatchesUsed < WatchLimit
<1>1. Watches(watcher) \subseteq Dir /\ Watches(replacement) \subseteq Dir
  <2>1. \A w \in Watcher : w.watched \subseteq Dir /\ \A r \in Root : w.hidden[r] \subseteq Dir
    BY DEF Watcher
  <2>. QED  BY <2>1 DEF TypeOK, Watches
<1>2. IsFiniteSet(Dir)
  BY TreeAssumption, FS_Subset DEF Dir
<1>3. /\ IsFiniteSet(Watches(watcher)) /\ IsFiniteSet(Watches(replacement))
      /\ Cardinality(Watches(watcher)) \in Nat /\ Cardinality(Watches(replacement)) \in Nat
      /\ Cardinality(Dir) \in Nat
  BY <1>1, <1>2, FS_Subset, FS_CardinalityType
<1>4. Cardinality(Watches(watcher)) <= Cardinality(Dir)
  BY <1>1, <1>2, FS_Subset
<1>5. Cardinality(Watches(replacement) \cup {d}) = Cardinality(Watches(replacement)) + 1
  BY <1>3, FS_AddElement
<1>6. Watches(replacement) \cup {d} \subseteq Dir
  BY <1>1
<1>7. Cardinality(Watches(replacement) \cup {d}) <= Cardinality(Dir)
  BY <1>2, <1>6, FS_Subset
<1>8. WatchLimit \in Nat
  BY RefreshAssumption
<1>. QED  BY <1>3, <1>4, <1>5, <1>7, <1>8 DEF Plenty, WatchesUsed

\* One more directory of those to watch: it is watched, or gone.
LEMMA AddWatchFollow ==
    ASSUME IndInv, FollowInv, AddWatch
    PROVE  FollowInv'
<1>1. PICK d \in to_watch :
        /\ to_watch' = to_watch \ {d}
        /\ IF d \in present /\ WatchesUsed < WatchLimit
           THEN replacement' = [replacement EXCEPT !.watched = @ \cup {d}]
           ELSE replacement' = replacement
  BY DEF AddWatch, LeftToWatch
<1>2. /\ monitor \in {"first_watch", "watch"}
      /\ UNCHANGED <<present, monitor, scan, watcher, bridged>>
  BY DEF AddWatch, threads, disk, history
<1>3. /\ replacement \in Watcher /\ d \in Dir /\ TypeOK /\ d \notin Watches(replacement)
  BY DEF IndInv, TypeOK, WatchInv
<1>4. /\ replacement'.open = replacement.open /\ replacement'.queue = replacement.queue
      /\ replacement'.hidden = replacement.hidden
      /\ IF d \in present /\ WatchesUsed < WatchLimit
         THEN replacement'.watched = replacement.watched \cup {d}
         ELSE replacement'.watched = replacement.watched
  <2>1. CASE d \in present /\ WatchesUsed < WatchLimit
    <3>1. replacement' = [replacement EXCEPT !.watched = @ \cup {d}]
      BY <1>1, <2>1
    <3>. QED  BY <1>3, <2>1, <3>1 DEF Watcher
  <2>2. CASE ~(d \in present /\ WatchesUsed < WatchLimit)
    <3>1. replacement' = replacement
      BY <1>1, <2>2
    <3>. QED  BY <2>2, <3>1
  <2>. QED  BY <2>1, <2>2
<1>5. CASE monitor = "first_watch"
  BY <1>2, <1>5 DEF FollowInv
<1>6. CASE monitor = "watch"
  <2>. DEFINE old == to_watch \cup Follows(replacement)
              new == to_watch' \cup Follows(replacement')
  <2>1. ASSUME Plenty, NEW c \in old \cap present  PROVE c \in new
    <3>1. CASE c # d \/ c \in Follows(replacement)
      BY <1>1, <1>4, <2>1, <3>1 DEF Follows
    <3>2. CASE c = d /\ c \notin Follows(replacement)
      <4>1. d \in present /\ WatchesUsed < WatchLimit
        BY <1>3, <2>1, <3>2, PlentyAddsAll
      <4>. QED  BY <1>4, <3>2, <4>1 DEF Follows
    <3>. QED  BY <3>1, <3>2
  <2>. HIDE DEF old, new
  <2>2. \A e : Followed(present, scan, old, e) => Followed(present, scan, new, e)
    BY <2>1 DEF Followed
  <2>3. \A e \in bridged :
           \/ /\ Entered(scan, {}, e)
              /\ replacement.open => \/ Followed(present, scan, old, e)
                                     \/ replacement.queue > 0
           \/ watcher.queue > 0
    BY <1>6 DEF FollowInv, old
  <2>4. \A e \in bridged' :
           \/ /\ Entered(scan', {}, e)
              /\ replacement'.open => \/ Followed(present', scan', new, e)
                                      \/ replacement'.queue > 0
           \/ watcher'.queue > 0
    BY <1>2, <1>4, <2>2, <2>3
  <2>. QED  BY <1>2, <1>6, <2>4 DEF FollowInv, new
<1>. QED  BY <1>2, <1>5, <1>6

\* A step of the monitor hands on what it knows.
LEMMA MonitorFollow ==
    ASSUME IndInv, WalkInv, FollowInv, MonitorStep
    PROVE  FollowInv'
<1>. USE DEF history
<1>0. /\ UNCHANGED <<present, mounted, under>>
      /\ watcher \in Watcher /\ replacement \in Watcher
      /\ Fits(watcher, present, under, mounted) /\ Fits(replacement, present, under, mounted)
      /\ PhaseInv /\ CoverInv
      /\ refresh_pending \in BOOLEAN /\ file_changed \in BOOLEAN
  <2>1. UNCHANGED <<present, mounted, under>>
    BY DEF MonitorStep, StartMonitor, AddWatch, FirstWatcherReady, Wake, Poll, StayIdle,
       BeginRebuild, FinishRebuildScan, FollowUpOld, FollowUpNew, Publish, disk
  <2>. QED  BY <2>1 DEF IndInv, TypeOK, WatchInv
<1>1. \A L : Tree(L)' = Tree(L)
  BY <1>0, DiskAtRest
<1>2. CASE StartMonitor
  BY <1>2 DEF StartMonitor, FollowInv
<1>3. CASE FirstWatcherReady
  BY <1>0, <1>3 DEF FirstWatcherReady, FollowInv, PhaseInv
<1>4. CASE Wake
  <2>1. CASE monitor' = "done"
    BY <2>1 DEF FollowInv
  <2>2. CASE monitor' # "done"
    <3>1. /\ monitor = "park" /\ monitor' = "poll"
          /\ UNCHANGED <<snapshot, watcher, refresh_pending, file_changed, covered>>
      BY <1>4, <2>2 DEF Wake
    <3>2. Known <=> Known'
      BY <3>1 DEF Known
    <3>. QED  BY <1>1, <3>1, <3>2 DEF FollowInv
  <2>. QED  BY <2>1, <2>2
<1>5. CASE Poll
  <2>1. /\ monitor = "poll" /\ monitor' = "decide" /\ UNCHANGED <<snapshot, covered>>
    BY <1>5 DEF Poll
  <2>2. /\ watcher'.watched = watcher.watched /\ watcher'.hidden = watcher.hidden
        /\ refresh_pending \/ watcher.queue > 0 => file_changed' = TRUE
    <3>1. CASE refresh_pending /\ file_changed' = TRUE /\ watcher' = watcher
      BY <3>1
    <3>2. CASE ~refresh_pending /\ HasChanges(watcher, file_changed', watcher')
      <4>1. /\ watcher'.watched = watcher.watched /\ watcher'.hidden = watcher.hidden
            /\ watcher.queue > 0 => file_changed' = TRUE
        BY <1>0, <3>2, AskedWatcher
      <4>. QED  BY <3>2, <4>1
    <3>. QED  BY <1>5, <3>1, <3>2 DEF Poll, FileChanged
  <2>3. \A L : /\ Seen(watcher', L) = Seen(watcher, L)
               /\ FollowsIn(watcher', L) = FollowsIn(watcher, L)
    BY <2>2 DEF Seen, FollowsIn, Follows
  <2>4. Known => Known'
    BY <2>1, <2>2 DEF Known
  <2>. QED  BY <1>1, <2>1, <2>3, <2>4 DEF FollowInv
<1>6. CASE StayIdle
  <2>1. /\ monitor = "decide" /\ monitor' = "park" /\ ~file_changed
        /\ UNCHANGED <<snapshot, watcher, refresh_pending, file_changed, covered>>
    BY <1>6 DEF StayIdle, RebuildDue, watching
  <2>2. Known => Known'
    BY <2>1 DEF Known
  <2>. QED  BY <1>1, <2>1, <2>2 DEF FollowInv
<1>7. CASE BeginRebuild
  BY <1>7 DEF BeginRebuild, FollowInv
<1>8. CASE FinishRebuildScan
  <2>1. CASE monitor' = "done"
    BY <2>1 DEF FollowInv
  <2>2. CASE monitor' = "watch"
    <3>1. /\ monitor = "scan" /\ scan.pending = {}
          /\ UNCHANGED <<scan, watcher, bridged>>
          /\ replacement'.open => to_watch' = scan.scanned
      BY <1>8, <2>2 DEF FinishRebuildScan, OpenWatcher, NoWatcher, NewWatcher
    <3>2. \A e \in bridged : Entered(scan, {}, e) \/ watcher.queue > 0
      BY <3>1 DEF FollowInv
    <3>3. replacement'.open =>
            \A e : Followed(present, scan, to_watch' \cup Follows(replacement'), e)
      BY <3>1 DEF Followed
    <3>. QED  BY <1>0, <2>2, <3>1, <3>2, <3>3 DEF FollowInv
  <2>. QED  BY <1>8, <2>1, <2>2 DEF FinishRebuildScan
<1>9. CASE FollowUpOld
  <2>1. /\ monitor = "watch" /\ monitor' = "follow_up" /\ to_watch = {}
        /\ UNCHANGED <<scan, replacement, bridged>>
        /\ HasChanges(watcher, refresh_pending', watcher')
    BY <1>9 DEF FollowUpOld, OldFollowUp
  <2>2. watcher.queue > 0 => refresh_pending' = TRUE
    BY <1>0, <2>1, AskedWatcher
  <2>3. ASSUME NEW e \in bridged \cap replacement.watched
        PROVE  \/ Entered(scan, {}, e) /\ Followed(present, scan, Follows(replacement), e)
               \/ refresh_pending' \/ replacement.queue > 0
    <3>1. replacement.open
      BY <1>0, <2>3, ClosedWatcherIsDeaf DEF Fits
    <3>2. to_watch \cup Follows(replacement) = Follows(replacement)
      BY <2>1
    <3>3. \/ /\ Entered(scan, {}, e)
             /\ replacement.open => \/ Followed(present, scan, Follows(replacement), e)
                                    \/ replacement.queue > 0
          \/ watcher.queue > 0
      BY <2>1, <2>3, <3>2 DEF FollowInv
    <3>. QED  BY <2>2, <3>1, <3>3
  <2>. QED  BY <1>0, <2>1, <2>3 DEF FollowInv
<1>10. CASE FollowUpNew
  <2>1. /\ watcher'.watched = replacement.watched /\ watcher'.hidden = replacement.hidden
        /\ refresh_pending => refresh_pending'
        /\ replacement.queue > 0 => refresh_pending' = TRUE \/ watcher'.queue > 0
    <3>1. CASE refresh_pending /\ watcher' = replacement /\ UNCHANGED refresh_pending
      BY <3>1
    <3>2. CASE ~refresh_pending /\ HasChanges(replacement, refresh_pending', watcher')
      <4>1. /\ watcher'.watched = replacement.watched /\ watcher'.hidden = replacement.hidden
            /\ replacement.queue > 0 => refresh_pending' = TRUE
        BY <1>0, <3>2, AskedWatcher
      <4>. QED  BY <3>2, <4>1
    <3>. QED  BY <1>10, <3>1, <3>2 DEF FollowUpNew
  <2>2. /\ monitor = "follow_up" /\ monitor' = "publish" /\ UNCHANGED <<scan, bridged>>
    BY <1>10 DEF FollowUpNew
  <2>3. ASSUME NEW e \in bridged \cap replacement.watched
        PROVE  \/ Entered(scan, {}, e) /\ Followed(present, scan, Follows(replacement), e)
               \/ refresh_pending' \/ watcher'.queue > 0
    <3>1. \/ Entered(scan, {}, e) /\ Followed(present, scan, Follows(replacement), e)
          \/ refresh_pending \/ replacement.queue > 0
      BY <2>2, <2>3 DEF FollowInv
    <3>. QED  BY <2>1, <3>1
  <2>4. Follows(watcher') = Follows(replacement)
    BY <2>1 DEF Follows
  <2>. QED  BY <1>0, <2>1, <2>2, <2>3, <2>4 DEF FollowInv
<1>11. CASE Publish
  <2>1. /\ monitor = "publish" /\ monitor' = "park"
        /\ snapshot'.listing = scan.listing /\ snapshot'.scanned = scan.scanned
        /\ snapshot'.truncated = scan.truncated /\ snapshot'.roots = scan.roots
        /\ covered' = bridged \cap watcher.watched
        /\ UNCHANGED <<watcher, refresh_pending>>
    BY <1>11 DEF Publish, ReportOf, watching
  <2>2. \A e : /\ Entered(scan, {}, e) => Entered(snapshot', {}, e)
               /\ Followed(present, scan, Follows(watcher), e) =>
                    Followed(present, snapshot', Follows(watcher), e)
    BY <2>1 DEF Entered, Followed
  <2>3. ASSUME NEW L \in Layers, NEW e \in covered' \cap Seen(watcher, L)
        PROVE  \/ /\ Entered(snapshot', {}, e)
                  /\ Followed(Tree(L), snapshot', FollowsIn(watcher, L), e)
               \/ refresh_pending \/ watcher.queue > 0
    <3>1. L = Top
      <4>1. e \in Seen(watcher, Top) /\ Top \in Layers
        BY <2>1, <2>3, TopIsNoRoot DEF Seen, Layers
      <4>. QED  BY <1>0, <2>3, <4>1 DEF Fits
    <3>2. \/ Entered(scan, {}, e) /\ Followed(present, scan, Follows(watcher), e)
          \/ refresh_pending \/ watcher.queue > 0
      BY <2>1, <2>3 DEF FollowInv
    <3>3. Tree(Top) = present /\ FollowsIn(watcher, Top) = Follows(watcher)
      BY TopIsNoRoot DEF Tree, FollowsIn
    <3>. QED  BY <2>2, <3>1, <3>2, <3>3
  <2>4. refresh_pending \/ watcher.queue > 0 => Known'
    BY <2>1 DEF Known
  <2>. QED  BY <1>1, <2>1, <2>3, <2>4 DEF FollowInv
<1>. QED
  BY <1>2, <1>3, <1>4, <1>5, <1>6, <1>7, <1>8, <1>9, <1>10, <1>11, AddWatchFollow
     DEF MonitorStep

\* At first nothing is covered, and every step keeps the invariant.
LEMMA InitFollow == Init => FollowInv
BY DEF Init, FollowInv

LEMMA NextFollow == IndInv /\ WalkInv /\ FollowInv /\ [Next]_vars => FollowInv'
<1>. SUFFICES ASSUME IndInv, WalkInv, FollowInv, [Next]_vars PROVE FollowInv'
  OBVIOUS
<1>1. CASE FallbackElapses \/ UNCHANGED vars
  <2>1. UNCHANGED <<present, mounted, under, monitor, scan, snapshot, watcher, replacement,
                    to_watch, refresh_pending, file_changed, bridged, covered>>
    BY <1>1 DEF FallbackElapses, vars, disk, threads, watching, history
  <2>. QED  BY <2>1, FollowAtRest
<1>. QED
  BY <1>1, EnvironmentFollow, ScanDirectoryFollow, MainFollow, MonitorFollow DEF Next, Exited

\* In every behaviour, what was found in a covered directory was entered and is
\* watched, or a watcher or a flag of the monitor knows of a change there.
THEOREM FollowInductive == Spec => [](IndInv /\ WalkInv /\ FollowInv)
<1>1. Init => IndInv /\ WalkInv /\ FollowInv
  BY InitInd, InitWalk, InitFollow
<1>2. IndInv /\ WalkInv /\ FollowInv /\ [Next]_vars => (IndInv /\ WalkInv /\ FollowInv)'
  BY NextInd, NextWalk, NextFollow
<1>. QED  BY <1>1, <1>2, PTL DEF Spec

\* Whatever could not be watched, and however the disk moved meanwhile: with an
\* allowance for both watchers, no directory found in a covered one is left
\* without its watch when the monitor rests (FileWatcher::new).
THEOREM FailedWatchAlwaysSparesTheOthers == Spec => []FailedWatchSparesTheOthers
<1>1. FollowInv => FailedWatchSparesTheOthers
  <2>. SUFFICES ASSUME FollowInv, Resting, Plenty, NEW e \in InSight,
                       NEW d \in snapshot.scanned \cap present, d \in ChildrenOf(e)
                PROVE  d \in Watches(watcher)
    BY DEF FailedWatchSparesTheOthers, Plenty
  <2>1. /\ e \in covered \cap Seen(watcher, Top) /\ Top \in Layers
        /\ Tree(Top) = present /\ FollowsIn(watcher, Top) = Follows(watcher)
    BY TopIsNoRoot DEF InSight, Seen, Layers, Tree, FollowsIn
  <2>2. monitor = "park" /\ ~Known
    BY DEF Resting, Known
  <2>3. Followed(present, snapshot, Follows(watcher), e)
    BY <2>1, <2>2 DEF FollowInv
  <2>4. d \in Follows(watcher)
    BY <2>3 DEF Followed
  <2>. QED  BY <2>4 DEF Follows, Watches
<1>. QED  BY <1>1, FollowInductive, PTL
-----------------------------------------------------------------------------
(* The index against the disk. *)

\* Some path of every set has no other path of the set above it.
LEMMA HighestPath ==
    ASSUME NEW T \in SUBSET Path, T # {}
    PROVE  \E d \in T : \A e \in T : AtOrBelow(d, e) => e = d
<1>. DEFINE Above(d) == {q \in Path : AtOrBelow(d, q)}
            Order == StrictSubsetOrdering(Path)
            Sets == {Above(d) : d \in T}
<1>1. IsWellFoundedOn(Order, SUBSET Path)
  <2>1. FiniteSubsetsOf(Path) = SUBSET Path
    BY TreeAssumption, FS_FiniteSubsetsOfFinite
  <2>. QED  BY <2>1, FS_StrictSubsetOrderingWellFounded
<1>2. Sets \subseteq SUBSET Path /\ Sets # {}
  OBVIOUS
<1>3. PICK X \in Sets : \A Y \in Sets : ~(<<Y, X>> \in Order)
  <2>. HIDE DEF Order, Sets
  <2>. QED  BY <1>1, <1>2, WFMin
<1>4. PICK d \in T : X = Above(d)
  BY <1>3
<1>5. ASSUME NEW e \in T, AtOrBelow(d, e)  PROVE e = d
  <2>1. Above(e) \subseteq Above(d)
    BY <1>5, AtOrBelowTransitive
  <2>2. ~(<<Above(e), Above(d)>> \in Order)
    BY <1>3, <1>4
  <2>3. Above(e) = Above(d)
    <3>1. Above(e) \in SUBSET Path /\ Above(d) \in SUBSET Path
      OBVIOUS
    <3>. HIDE DEF Above
    <3>. QED  BY <2>1, <2>2, <3>1 DEF StrictSubsetOrdering
  <2>4. d \in Above(d)
    BY AtItself
  <2>5. AtOrBelow(e, d)
    BY <2>3, <2>4
  <2>. QED  BY <1>5, <2>5, AtOrBelowBoth
<1>. QED  BY <1>5


\* A path that is no root, or is below another path, is an entry of a directory.
LEMMA ParentOf ==
    ASSUME NEW d \in Path, d \notin Root \/ \E q \in Path \ {d} : AtOrBelow(d, q)
    PROVE  \E e \in Dir : d \in ChildrenOf(e)
<1>. DEFINE e == SubSeq(d, 1, Len(d) - 1)
<1>1. e \in Dir /\ d \in Seq(Name) /\ d # <<>>
  BY TreeAssumption
<1>2. PICK k \in Nat : k = Len(d) /\ k > 0
  BY <1>1
<1>3. Len(e) = k - 1
  BY <1>1, <1>2
<1>4. SubSeq(d, 1, Len(e)) = e
  BY <1>2, <1>3
<1>. HIDE DEF e
<1>5. Len(d) = Len(e) + 1 /\ Len(e) <= Len(d)
  BY <1>2, <1>3
<1>. QED  BY <1>1, <1>4, <1>5 DEF ChildrenOf, AtOrBelow

\* When the monitor rests, of a covered directory in sight the index is right, and the
\* walk entered what it found there.
LEMMA InSightIsRight ==
    ASSUME IndInv, FollowInv, Resting, NEW e \in InSight
    PROVE  snapshot.listing[e] = Listing(present, e) /\ Entered(snapshot, {}, e)
<1>1. e \in covered \cap Seen(watcher, Top) /\ Top \in Layers /\ Tree(Top) = present
  BY TopIsNoRoot DEF InSight, Seen, Layers, Tree
<1>2. monitor = "park" /\ ~Known /\ CoverInv
  BY DEF Resting, Known, IndInv
<1>3. Right(snapshot, Top, e)
  BY <1>1, <1>2 DEF CoverInv
<1>4. Entered(snapshot, {}, e)
  BY <1>1, <1>2 DEF FollowInv
<1>. QED  BY <1>1, <1>3, <1>4 DEF Right

\* When all of a complete index is covered and in sight and nothing is told, the
\* directories it was read from are those that a walk would read now.
LEMMA ScannedIsReached ==
    ASSUME IndInv, WalkInv, FollowInv, Resting, snapshot.roots = Available,
           ~snapshot.truncated, snapshot.roots \subseteq snapshot.scanned,
           snapshot.scanned \subseteq InSight
    PROVE  snapshot.scanned = Reached(present, Available)
<1>. DEFINE S == snapshot.scanned
            R == snapshot.roots
<1>1. /\ Shape(snapshot, {}) /\ Closed(present) /\ S \subseteq present
      /\ present \subseteq Path /\ R \subseteq Root /\ S \subseteq Dir
      /\ Root \subseteq Path /\ S \subseteq Path
  BY TreeAssumption
     DEF IndInv, TypeOK, IndexState, WatchInv, DiskInv, Fits, WalkInv, Dir, InSight
<1>2. \A e \in S : snapshot.listing[e] = Listing(present, e) /\ Entered(snapshot, {}, e)
  BY InSightIsRight
<1>3. S \subseteq Reached(present, R)
  <2>. SUFFICES ASSUME NEW d \in S PROVE d \in Reached(present, R)
    OBVIOUS
  <2>1. Chain(snapshot, d) /\ d \notin Unreadable
    BY <1>1 DEF Shape
  <2>. QED  BY <1>1, <2>1 DEF Chain, Reached
<1>4. Reached(present, R) \subseteq S
  <2>. SUFFICES ASSUME Reached(present, R) \ S # {} PROVE FALSE
    OBVIOUS
  <2>1. Reached(present, R) \ S \in SUBSET Path
    BY DEF Reached, Dir
  <2>2. PICK d \in Reached(present, R) \ S :
               \A e \in Reached(present, R) \ S : AtOrBelow(d, e) => e = d
    BY <2>1, HighestPath
  <2>3. /\ d \in Dir /\ d \in Path /\ d \in present /\ d \notin Unreadable /\ d \notin R
    BY <2>1, <2>2 DEF Reached
  <2>4. PICK r \in R :
          /\ AtOrBelow(d, r)
          /\ \A q \in Subtree(r) \ {r} : AtOrBelow(d, q) => q \in Indexable \ Unreadable
          /\ r \notin Unreadable
    BY <2>2 DEF Reached
  <2>5. d # r /\ r \in Root /\ r \in Path
    BY <1>1, <2>3
  <2>6. PICK e \in Dir : d \in ChildrenOf(e)
    BY <2>3, <2>4, <2>5, ParentOf
  <2>7. e \in Path /\ AtOrBelow(d, e) /\ e # d
    BY <2>3, <2>6, NotItsOwnEntry DEF Dir, ChildrenOf
  <2>8. AtOrBelow(e, r)
    BY <2>4, <2>5, <2>6, <2>7, AboveAnEntry
  <2>9. e \in present
    BY <1>1, <2>3, <2>7 DEF Closed
  <2>10. \A q \in Subtree(r) \ {r} : AtOrBelow(e, q) => q \in Indexable \ Unreadable
    BY <2>3, <2>4, <2>7, AtOrBelowTransitive DEF Subtree
  <2>11. e \notin Unreadable
    BY <2>4, <2>7, <2>8, <2>10, AtItself DEF Subtree
  <2>12. e \in Reached(present, R)
    BY <2>4, <2>6, <2>8, <2>9, <2>10, <2>11 DEF Reached
  <2>13. e \in S
    BY <2>2, <2>7, <2>12
  <2>14. d \in Indexable
    BY <2>3, <2>4, <2>5, AtItself DEF Subtree
  <2>15. d \in snapshot.listing[e]
    BY <1>2, <2>3, <2>6, <2>13, <2>14 DEF Listing
  <2>. QED  BY <1>2, <2>2, <2>3, <2>13, <2>15 DEF Entered
<1>. QED  BY <1>3, <1>4

\* For every tree, the volumes that are mounted and unmounted in it, and whatever
\* happened during the rebuild: an index all of whose directories are covered and in
\* sight holds exactly what a walk of the disk would find at this moment
\* (spawn_refresh_monitor).
THEOREM FullCoverageIsAlwaysFresh == Spec => []FullCoverageIsFresh
<1>1. IndInv /\ WalkInv /\ FollowInv => FullCoverageIsFresh
  <2>. SUFFICES ASSUME IndInv, WalkInv, FollowInv, Resting, snapshot.roots = Available,
                       ~snapshot.truncated, snapshot.roots \subseteq snapshot.scanned,
                       snapshot.scanned \subseteq InSight
                PROVE  Items(snapshot) = ItemsOf(present, Available)
    BY DEF FullCoverageIsFresh
  <2>1. snapshot.scanned = Reached(present, Available)
    BY ScannedIsReached
  <2>2. \A e \in snapshot.scanned : snapshot.listing[e] = Listing(present, e)
    BY InSightIsRight
  <2>. QED  BY <2>1, <2>2 DEF Items, ItemsOf
<1>. QED  BY <1>1, FollowInductive, PTL

=============================================================================
