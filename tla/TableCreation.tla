--------------------------- MODULE TableCreation ----------------------------
(***************************************************************************)
(* sftfs_htable_create() (src/abs/htable.c:53-56) step by step, and the    *)
(* life of the table it makes.  While prime_lower_bound() searches, table  *)
(* is the one created before it, which is still empty: the tables of the   *)
(* caches and of the handle map are created one after the other, before    *)
(* any is used (src/endp/cached.c:40-83).                                  *)
(***************************************************************************)
EXTENDS HTable, PrimeSearch

VARIABLE searching

creationVars == <<vars, searchVars, searching>>

CreationInit == Init /\ SearchInit /\ searching = TRUE

\* A turn of the loop.
Search == searching /\ Turn /\ UNCHANGED <<vars, searching>>

\* The loop is over: its answer becomes the size of the new table.
Create ==
    /\ searching /\ left = right
    /\ table' = CreateHtable(Prime(left))
    /\ searching' = FALSE
    /\ UNCHANGED <<hash, searchVars>>

\* An operation on the table; what the search left is not read any more.
Use ==
    /\ ~ searching
    /\ Next
    /\ left' = 0 /\ right' = 0 /\ target' = 0 /\ span' = 0
    /\ UNCHANGED searching

CreationNext == Search \/ Create \/ Use

CreationSpec == CreationInit /\ [][CreationNext]_creationVars
=============================================================================
