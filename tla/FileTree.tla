------------------------------ MODULE FileTree ------------------------------
(***************************************************************************)
(* The directory trees RuyiSeek indexes, and what one complete walk of     *)
(* them returns.                                                           *)
(*                                                                         *)
(* A path is the sequence of its names, as a PathBuf is, and every path of *)
(* Path lies at or below a root.  Kind and Hidden are what                 *)
(* ruyiseek_index::scan looks at before it records an entry: neither       *)
(* symbolic links nor special files ("other") are indexed, and a dot entry *)
(* only when include_hidden is set.  A path keeps its kind: a file that    *)
(* replaces a directory of the same name is not modelled.                  *)
(***************************************************************************)
EXTENDS Naturals, Sequences, FiniteSets

CONSTANTS
    Name,           \* names of directory entries
    Path,           \* the paths that can exist, a set of non-empty sequences
    Root,           \* the roots of the configuration or of the mount table
    Kind,           \* "directory", "file" or "other" of each path
    Hidden,         \* the paths whose name starts with a dot
    Unreadable,     \* directories that read_dir refuses
    IncludeHidden   \* ScanOptions::include_hidden

Dir == {p \in Path : Kind[p] = "directory"}

\* p is d or lies below d.
AtOrBelow(p, d) == Len(d) <= Len(p) /\ SubSeq(p, 1, Len(d)) = d

ASSUME TreeAssumption ==
    /\ Path \subseteq Seq(Name) \ {<<>>}
    /\ IsFiniteSet(Path)
    /\ Kind \in [Path -> {"directory", "file", "other"}]
    /\ Root \subseteq Dir
    /\ Hidden \subseteq Path
    /\ Unreadable \subseteq Dir
    /\ IncludeHidden \in BOOLEAN
    \* What a path is in, is a directory of Path, unless the path is a root and
    \* below nothing else.
    /\ \A p \in Path :
         p \notin Root \/ (\E q \in Path \ {p} : AtOrBelow(p, q)) =>
             SubSeq(p, 1, Len(p) - 1) \in Dir

-----------------------------------------------------------------------------

Subtree(d) == {p \in Path : AtOrBelow(p, d)}

\* The entries that can appear in directory d.
ChildrenOf(d) == {p \in Path : Len(p) = Len(d) + 1 /\ AtOrBelow(p, d)}

\* A state of the disk: whatever exists, the directories above it exist.
Closed(present) ==
    \A p \in present, d \in Path : AtOrBelow(p, d) => d \in present

\* The entries scan records, and does not filter out.
Indexable == {p \in Path : Kind[p] # "other" /\ (p \in Hidden => IncludeHidden)}

\* The records that one reading of directory d adds to the index.
Listing(present, d) == ChildrenOf(d) \cap present \cap Indexable

-----------------------------------------------------------------------------

\* The directories that an undisturbed, unlimited walk from roots enters: all
\* those that a chain of readable, indexable directories joins to a root.
Reached(present, roots) ==
    {d \in (Dir \cap present) \ Unreadable :
        \E r \in roots :
            /\ AtOrBelow(d, r)
            /\ \A q \in Subtree(r) \ {r} :
                 AtOrBelow(d, q) => q \in Indexable \ Unreadable
            /\ r \notin Unreadable}

\* The items such a walk records.
ItemsOf(present, roots) == UNION {Listing(present, d) : d \in Reached(present, roots)}

=============================================================================
