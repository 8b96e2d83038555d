------------------------------- MODULE StrOps -------------------------------
(***************************************************************************)
(* The growing string of src/abs/str.c.  c is the memory behind the        *)
(* header: capacity + 1 cells, of which the terminator occupies the one    *)
(* behind the first "size"; what lies further behind is whatever an        *)
(* earlier, longer content or realloc() left there.  A cell of a path is a *)
(* separator or a name.  realloc() fails when "ok" says so.                *)
(***************************************************************************)
EXTENDS Integers, Sequences, SequencesExt

CONSTANTS
    None,       \* the null pointer
    Cell        \* what a cell can hold

NUL == "nul"

\* struct sftfs_str_struct.
Str == [size : Nat, capacity : Nat, c : Seq(Cell)]

\* A cell that nobody has written.
Junk == "junk"

ASSUME StrAssumption == None \notin Str /\ NUL \in Cell /\ Junk \in Cell

\* The new capacity is not stored.
Mut_StrReserve(s, capacity, ok) ==
    IF capacity <= s.capacity THEN s
    ELSE IF ~ ok THEN None
    ELSE [s EXCEPT !.c = @ \o [i \in 1 .. capacity - s.capacity |-> Junk]]

\* null_term().
NullTerm(s) == [s EXCEPT !.c[s.size + 1] = NUL]

\* sftfs_str_create() from a C string, when malloc() succeeds.
StrCreate(from) ==
    NullTerm([size |-> Len(from), capacity |-> Len(from), c |-> Append(from, Junk)])

\* sftfs_str_reserve().
StrReserve(s, capacity, ok) ==
    IF capacity <= s.capacity THEN s
    ELSE IF ~ ok THEN None
    ELSE [s EXCEPT !.capacity = capacity,
                   !.c = @ \o [i \in 1 .. capacity - s.capacity |-> Junk]]

\* sftfs_str_resize().
StrResize(s, size, ok) ==
    LET r == StrReserve(s, size, ok)
    IN  IF r = None THEN None ELSE NullTerm([r EXCEPT !.size = size])

\* sftfs_str_extend(), sftfs_str_extend_cstr().
StrExtend(s, from, ok) ==
    LET r == StrResize(s, s.size + Len(from), ok)
    IN  IF r = None THEN None
        ELSE NullTerm([r EXCEPT !.c = [i \in DOMAIN @ |->
                            IF i \in s.size + 1 .. r.size THEN from[i - s.size] ELSE @[i]]])

\* What a reader of the C string sees (sftfs_str_c_ro()): the cells before the
\* first terminator.
CString(s) == SubSeq(s.c, 1, SelectInSeq(s.c, LAMBDA x : x = NUL) - 1)
=============================================================================
