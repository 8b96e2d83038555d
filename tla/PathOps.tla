------------------------------ MODULE PathOps -------------------------------
(***************************************************************************)
(* The path arithmetic of src/endp/cached.c.  Where a directory ends and   *)
(* its entry begins is decided on characters, so paths are sequences of    *)
(* characters here, as in C.                                               *)
(***************************************************************************)
EXTENDS Integers, Sequences, SequencesExt

Root == <<"/">>

Dot == <<".">>

DotDot == <<".", ".">>

\* find_last_seperator(): position of the last separator (paths are absolute).
FindLastSeperator(p) == SelectLastInSeq(p, LAMBDA ch : ch = "/")

\* sftfs_cached_inval_all_dir() has a second path to invalidate only when the
\* last separator is not the first character.
HasBaseDir(p) == FindLastSeperator(p) # 1

\* The copy made by strndup(path, last_sep - path - 1).
InvalBaseDir(p) == SubSeq(p, 1, FindLastSeperator(p) - 2)

\* push_entry() and the replacement of an empty result by the root: the path
\* under which the attributes of a directory's entry are cached.  ".." cuts at
\* the last separator unless the path ends with it (mark_base_dir()).
PushEntry(p, name) ==
    LET k == FindLastSeperator(p)
        marked == IF k = Len(p) THEN p ELSE SubSeq(p, 1, k - 1)
        pushed == IF name = DotDot THEN marked
                  ELSE IF name = Dot THEN p
                  ELSE p \o <<"/">> \o name
    IN  IF pushed = <<>> THEN Root ELSE pushed
=============================================================================
