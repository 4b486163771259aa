--------------------------- MODULE MCIndexRefresh ---------------------------
(***************************************************************************)
(* Small disks for IndexRefresh.  Everything is a sequence of short names. *)
(***************************************************************************)
EXTENDS IndexRefresh

MCName == {"home", "docs", "deep", "note", ".cfg", "locked"}

home == <<"home">>
docs == <<"home", "docs">>
deep == <<"home", "docs", "deep">>
note == <<"home", "docs", "note">>
dot == <<"home", ".cfg">>
locked == <<"home", "docs", "locked">>

\* One root with a hidden directory, and another directory with a file in it.
ChainPath == {home, dot, docs, note}
ChainRoot == {home}

\* A volume can be mounted in the home directory, over a directory with another
\* one in it, and a second one in that or on the first.
VolumePath == {home, docs, deep}
VolumeRoot == {home, docs, deep}

\* One volume in the home directory, with a file and a directory that cannot be
\* read.
NestedPath == {home, docs, note, locked}
NestedRoot == {home, docs}

AllKinds == [p \in {home, docs, deep, note, dot, locked} |->
               IF p = note THEN "file" ELSE "directory"]
ChainKind == [p \in ChainPath |-> AllKinds[p]]
VolumeKind == [p \in VolumePath |-> AllKinds[p]]
NestedKind == [p \in NestedPath |-> AllKinds[p]]

Nothing == {}
OnlyDot == {dot}
OnlyLocked == {locked}
=============================================================================
