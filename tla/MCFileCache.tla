---------------------------- MODULE MCFileCache -----------------------------
(* Instance of FileCache for TLC: two of the three paths collide. *)
EXTENDS FileCache

CONSTANTS d1, d2

MCPath == {<<"/", "a">>, <<"/", "b">>, <<"/", "c">>}

MCHashVal == {0, 1}

MCHash == [p \in MCPath |-> IF p = <<"/", "c">> THEN 1 ELSE 0]

MCData == {d1, d2}
=============================================================================
