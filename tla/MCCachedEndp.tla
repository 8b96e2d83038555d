---------------------------- MODULE MCCachedEndp ----------------------------
(* Instances of CachedEndp for TLC. *)
EXTENDS CachedEndp, TLC

CONSTANTS h1, h2, x1, x2

D == <<"/", "d">>
DF == <<"/", "d", "/", "f">>
G == <<"/", "g">>
GF == <<"/", "g", "/", "f">>

OneFile == {Root, G}
TwoFiles == {Root, D, G}
NestedFile == {Root, D, DF}
TwoTrees == {Root, D, DF, G, GF}

\* The keys, as CachedAssumption names them, and a hash without collisions.
RootD == <<"/", "/", "d">>
RootG == <<"/", "/", "g">>

TwoKeys == {Root, D, G, RootD, RootG}
NestedKeys == {Root, D, DF, RootD}
OneKey == {Root, G, RootG}
TreeKeys == TwoTrees \cup {RootD, RootG}

OneHashes == 0 .. 2
NestedHashes == 0 .. 3
TwoHashes == 0 .. 4
TreeHashes == 0 .. 6

TwoHash == Root :> 0 @@ D :> 1 @@ G :> 2 @@ RootD :> 3 @@ RootG :> 4
NestedHash == Root :> 0 @@ D :> 1 @@ DF :> 2 @@ RootD :> 3
TreeHash == TwoHash @@ DF :> 5 @@ GF :> 6
OneHash == Root :> 0 @@ G :> 1 @@ RootG :> 2

OneHandle == {h1}
TwoHandles == {h1, h2}
OneDir == {x1}
TwoDirs == {x1, x2}

AttrOps ==
    {"getattr", "readlink", "setattr", "mkdir", "symlink", "unlink", "rmdir",
     "open", "create", "write", "other"}

DirOps == {"opendir", "root", "other", "full"}

FailureOps ==
    {"readlink", "rmdir", "rename", "opendir", "readdir", "rewind", "error", "nomem",
     "nosetup", "full"}

RenameOps == {"readlink", "unlink", "rename", "open", "opendir"}

\* Handles are interchangeable, and so are open directories.
HandleSymmetry == Permutations(TwoHandles)
DirSymmetry == Permutations(TwoDirs)
=============================================================================
