---------------------------- MODULE MountProofs -----------------------------
(***************************************************************************)
(* Proofs about the SFTP endpoint and its path buffer, for any paths, any  *)
(* directory, any files and handles, any sizes and offsets, and for any    *)
(* failures of malloc(), sftp_seek64() and the server; and of the safety   *)
(* properties of a whole session, for every set of command lines, typed    *)
(* answers, signals, mounted directories and files.  The invariant of a    *)
(* session is the conjunction of those of the parts; the composition adds  *)
(* that outside of fuse_main()'s loop the endpoint is untouched, and that  *)
(* every action of a part leaves the other two alone.                      *)
(***************************************************************************)
EXTENDS Mount, ConnectionProofs

-----------------------------------------------------------------------------
(* The growing string of str.c *)

\* What holds of a string between two calls: the memory is one cell longer than
\* the capacity, and the terminator is behind the content.
WellFormed(s) ==
    /\ s \in Str
    /\ s.size <= s.capacity
    /\ Len(s.c) = s.capacity + 1
    /\ s.c[s.size + 1] = NUL

\* null_term() writes one cell.
LEMMA NullTermGives ==
    ASSUME NEW s \in Str, s.size <= s.capacity, Len(s.c) = s.capacity + 1
    PROVE  /\ WellFormed(NullTerm(s))
           /\ NullTerm(s).size = s.size /\ NullTerm(s).capacity = s.capacity
           /\ \A i \in 1 .. s.capacity + 1 :
                NullTerm(s).c[i] = IF i = s.size + 1 THEN NUL ELSE s.c[i]
<1> DEFINE d == [s.c EXCEPT ![s.size + 1] = NUL]
           t == [s EXCEPT !.c = d]
<1>1. s.size \in Nat /\ s.capacity \in Nat /\ s.c \in Seq(Cell)
  BY DEF Str
<1>2. s.size + 1 \in 1 .. Len(s.c) /\ NUL \in Cell
  BY <1>1, StrAssumption
<1>3. /\ d \in Seq(Cell) /\ Len(d) = Len(s.c)
      /\ \A i \in 1 .. Len(s.c) : d[i] = IF i = s.size + 1 THEN NUL ELSE s.c[i]
  BY <1>1, <1>2, ExceptSeq
<1>4. NullTerm(s) = t
  BY DEF NullTerm
<1> HIDE DEF d
<1>5. t \in Str /\ t.c = d /\ t.size = s.size /\ t.capacity = s.capacity
  BY <1>1, <1>3 DEF Str
<1> HIDE DEF t
<1> QED BY <1>1, <1>2, <1>3, <1>4, <1>5 DEF WellFormed

\* sftfs_str_create() makes a string with the content it is given.
LEMMA CreateGives ==
    ASSUME NEW from \in Seq(Cell)
    PROVE  /\ WellFormed(StrCreate(from))
           /\ StrCreate(from).size = Len(from) /\ StrCreate(from).capacity = Len(from)
           /\ \A i \in 1 .. Len(from) : StrCreate(from).c[i] = from[i]
<1> DEFINE d == Append(from, Junk)
           s == [size |-> Len(from), capacity |-> Len(from), c |-> d]
<1>1. Len(from) \in Nat /\ Junk \in Cell
  BY LenProperties, StrAssumption
<1>2. d \in Seq(Cell) /\ Len(d) = Len(from) + 1 /\ \A i \in 1 .. Len(from) : d[i] = from[i]
  BY <1>1, AppendProperties
<1> HIDE DEF d
<1>3. s \in Str /\ s.size = Len(from) /\ s.capacity = Len(from) /\ s.c = d
  BY <1>1, <1>2 DEF Str
<1>4. StrCreate(from) = NullTerm(s)
  BY DEF StrCreate, d
<1> HIDE DEF s
<1> QED BY <1>1, <1>2, <1>3, <1>4, NullTermGives

\* sftfs_str_reserve() keeps the content, or reports that there is no memory.
LEMMA ReserveGives ==
    ASSUME NEW s, WellFormed(s), NEW n \in Nat, NEW ok \in BOOLEAN
    PROVE  LET r == StrReserve(s, n, ok)
           IN  \/ r = None /\ ~ ok /\ n > s.capacity
               \/ /\ WellFormed(r) /\ r.size = s.size
                  /\ r.capacity >= n /\ r.capacity >= s.capacity
                  /\ \A i \in 1 .. s.capacity + 1 : r.c[i] = s.c[i]
<1>1. s \in Str /\ s.size \in Nat /\ s.capacity \in Nat /\ s.c \in Seq(Cell)
  BY DEF WellFormed, Str
<1>2. CASE n <= s.capacity
  BY <1>1, <1>2 DEF StrReserve
<1>3. CASE n > s.capacity /\ ~ ok
  BY <1>1, <1>3 DEF StrReserve
<1>4. CASE n > s.capacity /\ ok
  <2> DEFINE k == n - s.capacity
             e == [i \in 1 .. k |-> Junk]
             d == s.c \o e
             t == [s EXCEPT !.capacity = n, !.c = d]
  <2>1. k \in Nat /\ Junk \in Cell
    BY <1>1, <1>4, StrAssumption
  <2>2. e \in Seq(Cell) /\ Len(e) = k
    BY <2>1
  <2>3. StrReserve(s, n, ok) = t
    BY <1>1, <1>4 DEF StrReserve
  <2> HIDE DEF k, e
  <2>a. /\ d \in Seq(Cell) /\ Len(d) = Len(s.c) + Len(e)
        /\ \A i \in 1 .. Len(s.c) + Len(e) :
                d[i] = IF i <= Len(s.c) THEN s.c[i] ELSE e[i - Len(s.c)]
    BY <1>1, <2>2, ConcatProperties
  <2>4. /\ d \in Seq(Cell) /\ Len(d) = Len(s.c) + k
        /\ \A i \in 1 .. Len(s.c) : d[i] = s.c[i]
    BY <1>1, <2>1, <2>2, <2>a
  <2> HIDE DEF d
  <2>5. t \in Str /\ t.size = s.size /\ t.capacity = n /\ t.c = d
    BY <1>1, <2>4 DEF Str
  <2> HIDE DEF t
  <2>6. \A i \in 1 .. s.capacity + 1 : t.c[i] = s.c[i]
    BY <1>1, <2>1, <2>4, <2>5 DEF WellFormed
  <2>7. Len(t.c) = t.capacity + 1 /\ t.size <= t.capacity /\ n >= s.capacity
    BY <1>1, <1>4, <2>4, <2>5 DEF WellFormed, k
  <2>8. t.c[t.size + 1] = NUL
    <3>1. s.size + 1 \in 1 .. s.capacity + 1
      BY <1>1 DEF WellFormed
    <3> QED BY <2>5, <2>6, <3>1 DEF WellFormed
  <2>9. WellFormed(t) /\ t.capacity >= n
    BY <1>1, <2>5, <2>7, <2>8 DEF WellFormed
  <2> QED BY <2>3, <2>5, <2>6, <2>7, <2>9
<1> QED BY <1>1, <1>2, <1>3, <1>4

\* sftfs_str_resize() moves the terminator, and nothing else.
LEMMA ResizeGives ==
    ASSUME NEW s, WellFormed(s), NEW n \in Nat, NEW ok \in BOOLEAN
    PROVE  LET r == StrResize(s, n, ok)
           IN  \/ r = None /\ ~ ok /\ n > s.capacity
               \/ /\ WellFormed(r) /\ r.size = n /\ r.capacity >= s.capacity
                  /\ \A i \in 1 .. s.capacity + 1 : i # n + 1 => r.c[i] = s.c[i]
<1> DEFINE q == StrReserve(s, n, ok)
           t == [q EXCEPT !.size = n]
<1>1. CASE q = None
  BY <1>1, ReserveGives, StrAssumption DEF StrResize, WellFormed
<1>2. CASE q # None
  <2>1. /\ WellFormed(q) /\ q.size = s.size
        /\ q.capacity >= n /\ q.capacity >= s.capacity
        /\ \A i \in 1 .. s.capacity + 1 : q.c[i] = s.c[i]
    BY <1>2, ReserveGives
  <2>2. StrResize(s, n, ok) = NullTerm(t)
    BY <1>2 DEF StrResize
  <2> HIDE DEF q
  <2>3. t \in Str /\ t.size = n /\ t.capacity = q.capacity /\ t.c = q.c
    BY <2>1 DEF WellFormed, Str
  <2>4. q.capacity \in Nat /\ s.capacity \in Nat
    BY <2>1 DEF WellFormed, Str
  <2> HIDE DEF t
  <2>5. Len(t.c) = t.capacity + 1 /\ t.size <= t.capacity
    BY <2>1, <2>3 DEF WellFormed
  <2>6. \A i \in 1 .. s.capacity + 1 : i \in 1 .. t.capacity + 1
    BY <2>1, <2>3, <2>4
  <2>7. /\ WellFormed(NullTerm(t)) /\ NullTerm(t).size = n
        /\ NullTerm(t).capacity = q.capacity
        /\ \A i \in 1 .. t.capacity + 1 :
                NullTerm(t).c[i] = IF i = n + 1 THEN NUL ELSE q.c[i]
    BY <2>3, <2>5, NullTermGives
  <2>8. \A i \in 1 .. s.capacity + 1 : i # n + 1 => NullTerm(t).c[i] = s.c[i]
    BY <2>1, <2>6, <2>7
  <2> QED BY <2>1, <2>2, <2>7, <2>8
<1> QED BY <1>1, <1>2

\* sftfs_str_extend() appends, whatever an earlier content left behind the end.
LEMMA ExtendGives ==
    ASSUME NEW s, WellFormed(s), NEW from \in Seq(Cell), NEW ok \in BOOLEAN
    PROVE  LET r == StrExtend(s, from, ok)
           IN  \/ r = None /\ ~ ok
               \/ /\ WellFormed(r) /\ r.size = s.size + Len(from)
                  /\ r.capacity >= s.capacity
                  /\ \A i \in 1 .. s.size : r.c[i] = s.c[i]
                  /\ \A i \in 1 .. Len(from) : r.c[s.size + i] = from[i]
<1> DEFINE n == s.size + Len(from)
           q == StrResize(s, n, ok)
           d == [i \in DOMAIN q.c |-> IF i \in s.size + 1 .. q.size THEN from[i - s.size] ELSE q.c[i]]
           t == [q EXCEPT !.c = d]
<1>0. /\ s.size \in Nat /\ s.capacity \in Nat /\ Len(from) \in Nat /\ n \in Nat
      /\ s.size <= s.capacity
      /\ \A i \in 1 .. Len(from) : from[i] \in Cell
  BY LenProperties, ElementOfSeq DEF WellFormed, Str
<1>1. CASE q = None
  BY <1>0, <1>1, ResizeGives, StrAssumption DEF StrExtend, WellFormed
<1>2. CASE q # None
  <2>1. /\ WellFormed(q) /\ q.size = n /\ q.capacity >= s.capacity
        /\ \A i \in 1 .. s.capacity + 1 : i # n + 1 => q.c[i] = s.c[i]
    BY <1>0, <1>2, ResizeGives
  <2>2. StrExtend(s, from, ok) = NullTerm(t)
    BY <1>2 DEF StrExtend
  <2> HIDE DEF q, n
  <2>3. /\ q.capacity \in Nat /\ q.c \in Seq(Cell) /\ Len(q.c) = q.capacity + 1
        /\ q.size <= q.capacity /\ q \in Str
        /\ DOMAIN q.c = 1 .. q.capacity + 1
        /\ \A i \in 1 .. q.capacity + 1 : q.c[i] \in Cell
    BY <2>1, LenProperties, ElementOfSeq DEF WellFormed, Str
  <2>4. d = [i \in 1 .. q.capacity + 1 |->
                IF i \in s.size + 1 .. n THEN from[i - s.size] ELSE q.c[i]]
    BY <2>1, <2>3
  <2> HIDE DEF d
  <2>a. ASSUME NEW i \in 1 .. q.capacity + 1
        PROVE  (IF i \in s.size + 1 .. n THEN from[i - s.size] ELSE q.c[i]) \in Cell
    <3>1. i \in s.size + 1 .. n => i - s.size \in 1 .. Len(from)
      BY <1>0 DEF n
    <3> QED BY <1>0, <2>3, <3>1
  <2>b. d \in [1 .. q.capacity + 1 -> Cell]
    BY <2>4, <2>a
  <2>5. /\ d \in Seq(Cell) /\ Len(d) = q.capacity + 1
        /\ \A i \in 1 .. q.capacity + 1 :
                d[i] = IF i \in s.size + 1 .. n THEN from[i - s.size] ELSE q.c[i]
    <3>1. q.capacity + 1 \in Nat
      BY <2>3
    <3>2. d \in Seq(Cell) /\ Len(d) = q.capacity + 1
      BY <2>b, <3>1
    <3> QED BY <2>4, <3>2
  <2>6. t \in Str /\ t.size = n /\ t.capacity = q.capacity /\ t.c = d
    BY <2>1, <2>3, <2>5 DEF Str
  <2> HIDE DEF t
  <2> DEFINE r == NullTerm(t)
  <2>7. /\ WellFormed(r) /\ r.size = n /\ r.capacity = q.capacity
        /\ \A i \in 1 .. q.capacity + 1 : r.c[i] = IF i = n + 1 THEN NUL ELSE d[i]
    BY <2>1, <2>3, <2>5, <2>6, NullTermGives
  <2> HIDE DEF r
  <2>8. ASSUME NEW i \in 1 .. s.size PROVE r.c[i] = s.c[i]
    <3>1. i \in 1 .. q.capacity + 1 /\ i \in 1 .. s.capacity + 1 /\ i # n + 1
          /\ i \notin s.size + 1 .. n
      BY <1>0, <2>1, <2>3 DEF n
    <3> QED BY <2>1, <2>5, <2>7, <3>1
  <2>9. ASSUME NEW i \in 1 .. Len(from) PROVE r.c[s.size + i] = from[i]
    <3>1. /\ s.size + i \in 1 .. q.capacity + 1 /\ s.size + i # n + 1
          /\ s.size + i \in s.size + 1 .. n /\ (s.size + i) - s.size = i
      BY <1>0, <2>1, <2>3 DEF n
    <3> QED BY <2>5, <2>7, <3>1
  <2> QED BY <2>1, <2>2, <2>7, <2>8, <2>9 DEF r, n
<1> QED BY <1>1, <1>2

\* A reader of the C string sees the content, when there is no terminator in it.
LEMMA CStringGives ==
    ASSUME NEW s, WellFormed(s), \A i \in 1 .. s.size : s.c[i] # NUL
    PROVE  CString(s) = SubSeq(s.c, 1, s.size)
<1> DEFINE I == {i \in 1 .. Len(s.c) : s.c[i] = NUL}
<1>1. s.size \in Nat /\ s.capacity \in Nat /\ s.size + 1 \in I
  BY DEF WellFormed, Str
<1>2. \A i \in I : s.size + 1 <= i
  BY <1>1
<1>3. Min(I) = s.size + 1
  BY <1>1, <1>2 DEF Min
<1>4. CString(s) = SubSeq(s.c, 1, (IF I # {} THEN Min(I) ELSE 0) - 1)
  BY DEF CString, SelectInSeq
<1> HIDE DEF I
<1>5. I # {} /\ (s.size + 1) - 1 = s.size
  BY <1>1
<1> QED BY <1>3, <1>4, <1>5

-----------------------------------------------------------------------------
(* The path buffer *)

\* sftfs_sftp_construct() is done: the directory, and how much of it is used.
Constructed ==
    /\ work_dir \in Seq(Cell)
    /\ \A i \in 1 .. Len(work_dir) : work_dir[i] # NUL
    /\ base_dir_len = BaseDirLen(work_dir)

\* The buffer of get_abs_path() begins with the directory.
PathBuf(b) ==
    /\ WellFormed(b)
    /\ base_dir_len <= b.capacity
    /\ \A i \in 1 .. base_dir_len : b.c[i] = work_dir[i]

\* The kept part of the buffer is within the mounted directory.
LEMMA BaseDirLenIs ==
    ASSUME Constructed
    PROVE  /\ base_dir_len \in 0 .. Len(work_dir) /\ Len(work_dir) \in Nat
           /\ \A i \in 1 .. base_dir_len : work_dir[i] \in Cell /\ work_dir[i] # NUL
           /\ \A p \in Seq(Cell) :
                Below(work_dir, p) = SubSeq(work_dir, 1, base_dir_len) \o p
<1>1. base_dir_len \in 0 .. Len(work_dir) /\ Len(work_dir) \in Nat
  BY LenProperties DEF Constructed, BaseDirLen
<1>2. \A i \in 1 .. base_dir_len : work_dir[i] \in Cell /\ work_dir[i] # NUL
  BY <1>1, ElementOfSeq DEF Constructed
<1>3. ASSUME NEW p \in Seq(Cell)
      PROVE  Below(work_dir, p) = SubSeq(work_dir, 1, base_dir_len) \o p
  <2>1. CASE work_dir = <<"/">>
    <3>1. SubSeq(work_dir, 1, base_dir_len) = <<>>
      BY <2>1, SubSeqEmpty DEF Constructed, BaseDirLen
    <3>2. <<>> \o p = p
      BY ConcatEmptySeq
    <3> QED BY <2>1, <3>1, <3>2 DEF Below
  <2>2. CASE work_dir # <<"/">>
    <3>1. SubSeq(work_dir, 1, base_dir_len) = work_dir
      BY <2>2, SubSeqFull DEF Constructed, BaseDirLen
    <3> QED BY <2>2, <3>1 DEF Below
  <2> QED BY <2>1, <2>2
<1> QED BY <1>1, <1>2, <1>3

\* get_abs_path(): the buffer stays one that can be used again, and a success
\* leaves in it the path that was asked for.
LEMMA AbsPathGives ==
    ASSUME Constructed, NEW b, PathBuf(b), NEW p \in RelPath, NEW ok \in BOOLEAN
    PROVE  LET g == GetAbsPath(b, p, ok)
           IN  /\ PathBuf(g.buf)
               /\ g.ok \in BOOLEAN
               /\ g.ok => CString(g.buf) = Below(work_dir, p)
<1> DEFINE cut == StrResize(b, base_dir_len, TRUE)
           full == StrExtend(cut, p, ok)
<1>0. /\ base_dir_len \in Nat
      /\ \A i \in 1 .. base_dir_len : work_dir[i] \in Cell /\ work_dir[i] # NUL
  BY BaseDirLenIs
<1>1. /\ p \in Seq(Cell) /\ Len(p) \in Nat
      /\ \A i \in 1 .. Len(p) : p[i] \in Cell /\ p[i] # NUL
  BY SftpAssumption, LenProperties, ElementOfSeq DEF Range
<1>2. b.capacity \in Nat
  BY DEF PathBuf, WellFormed, Str
<1>3. /\ WellFormed(cut) /\ cut.size = base_dir_len /\ cut.capacity >= b.capacity
      /\ \A i \in 1 .. b.capacity + 1 : i # base_dir_len + 1 => cut.c[i] = b.c[i]
  BY <1>0, <1>2, ResizeGives DEF PathBuf
<1>4. GetAbsPath(b, p, ok) =
        IF full = None THEN [buf |-> cut, ok |-> FALSE] ELSE [buf |-> full, ok |-> TRUE]
  BY DEF GetAbsPath
<1> HIDE DEF cut
<1>5. cut.capacity \in Nat /\ cut.size \in Nat
  BY <1>3 DEF WellFormed, Str
<1>6. \A i \in 1 .. base_dir_len : cut.c[i] = work_dir[i]
  <2>1. \A i \in 1 .. base_dir_len : i \in 1 .. b.capacity + 1 /\ i # base_dir_len + 1
    BY <1>0, <1>2 DEF PathBuf
  <2> QED BY <1>3, <2>1 DEF PathBuf
<1>7. PathBuf(cut)
  BY <1>0, <1>2, <1>3, <1>5, <1>6 DEF PathBuf
<1>8. CASE full = None
  BY <1>4, <1>7, <1>8
<1>9. CASE full # None
  <2>1. /\ WellFormed(full) /\ full.size = base_dir_len + Len(p)
        /\ full.capacity >= cut.capacity
        /\ \A i \in 1 .. base_dir_len : full.c[i] = cut.c[i]
        /\ \A i \in 1 .. Len(p) : full.c[base_dir_len + i] = p[i]
    BY <1>1, <1>3, <1>9, ExtendGives
  <2> HIDE DEF full
  <2>2. full.capacity \in Nat /\ full.c \in Seq(Cell) /\ Len(full.c) \in Nat
    BY <2>1, LenProperties DEF WellFormed, Str
  <2>3. PathBuf(full)
    BY <1>0, <1>2, <1>5, <1>6, <1>7, <2>1, <2>2 DEF PathBuf
  <2> DEFINE w == SubSeq(work_dir, 1, base_dir_len)
  <2>4. w \in Seq(Cell) /\ Len(w) = base_dir_len /\ \A i \in 1 .. base_dir_len : w[i] = work_dir[i]
    BY <1>0, SubSeqProperties
  <2>5. Below(work_dir, p) = w \o p
    BY <1>1, BaseDirLenIs
  <2> HIDE DEF w
  <2> DEFINE wp == w \o p
  <2>6. /\ wp \in Seq(Cell) /\ Len(wp) = full.size
        /\ \A i \in 1 .. full.size : wp[i] = full.c[i] /\ full.c[i] # NUL
    <3>1. /\ wp \in Seq(Cell) /\ Len(wp) = Len(w) + Len(p)
          /\ \A i \in 1 .. Len(w) + Len(p) :
                wp[i] = IF i <= Len(w) THEN w[i] ELSE p[i - Len(w)]
      BY <1>1, <2>4, ConcatProperties
    <3> HIDE DEF wp
    <3>2. ASSUME NEW i \in 1 .. full.size
          PROVE  wp[i] = full.c[i] /\ full.c[i] # NUL
      <4>1. CASE i <= base_dir_len
        BY <1>0, <1>1, <1>6, <2>1, <2>4, <3>1, <4>1
      <4>2. CASE i > base_dir_len
        <5>1. PICK j \in 1 .. Len(p) : i = base_dir_len + j
          <6>1. i - base_dir_len \in 1 .. Len(p) /\ i = base_dir_len + (i - base_dir_len)
            BY <1>0, <1>1, <2>1, <4>2
          <6> QED BY <6>1
        <5>2. i - Len(w) = j /\ ~ (i <= Len(w)) /\ i \in 1 .. Len(w) + Len(p)
          BY <1>0, <1>1, <2>1, <2>4, <4>2, <5>1
        <5> QED BY <1>1, <2>1, <3>1, <5>1, <5>2
      <4>3. i \in Nat
        BY <1>0, <1>1, <2>1
      <4> QED BY <1>0, <4>1, <4>2, <4>3
    <3> QED BY <2>1, <2>4, <3>1, <3>2
  <2>7. CString(full) = SubSeq(full.c, 1, full.size)
    BY <2>1, <2>6, CStringGives
  <2> HIDE DEF wp
  <2>8. SubSeq(full.c, 1, full.size) = wp
    <3>0. full.size \in Nat /\ full.size <= Len(full.c)
      BY <2>1, <2>2 DEF WellFormed, Str
    <3>1. \A i \in 1 .. full.size : full.c[i] \in Cell
      BY <2>2, <3>0, ElementOfSeq
    <3>2. /\ SubSeq(full.c, 1, full.size) \in Seq(Cell)
          /\ Len(SubSeq(full.c, 1, full.size)) = full.size
          /\ \A i \in 1 .. full.size : SubSeq(full.c, 1, full.size)[i] = full.c[i]
      BY <3>0, <3>1, SubSeqProperties
    <3> QED BY <2>6, <3>2, SeqEqual
  <2>9. CString(full) = Below(work_dir, p)
    BY <2>5, <2>7, <2>8 DEF wp
  <2>10. GetAbsPath(b, p, ok) = [buf |-> full, ok |-> TRUE]
    BY <1>4, <1>9
  <2> QED BY <2>3, <2>9, <2>10
<1> QED BY <1>8, <1>9

\* What follows the same beginning is the same.
LEMMA ConcatCancel ==
    ASSUME NEW S, NEW w \in Seq(S), NEW p \in Seq(S), NEW q \in Seq(S), w \o p = w \o q
    PROVE  p = q
<1>1. Len(w) \in Nat /\ Len(p) \in Nat /\ Len(q) \in Nat
  BY LenProperties
<1>2. Len(p) = Len(q)
  <2>1. Len(w) + Len(p) = Len(w) + Len(q)
    BY ConcatProperties
  <2> QED BY <1>1, <2>1
<1>3. ASSUME NEW i \in 1 .. Len(p) PROVE p[i] = q[i]
  <2>1. /\ Len(w) + i \in 1 .. Len(w) + Len(p) /\ Len(w) + i \in 1 .. Len(w) + Len(q)
        /\ ~ (Len(w) + i <= Len(w)) /\ (Len(w) + i) - Len(w) = i
    BY <1>1, <1>2
  <2>2. (w \o p)[Len(w) + i] = p[i]
    BY <2>1, ConcatProperties
  <2>3. (w \o q)[Len(w) + i] = q[i]
    BY <2>1, ConcatProperties
  <2> QED BY <2>2, <2>3
<1> QED BY <1>2, <1>3, SeqEqual

\* What the server finds under the absolute path of p is what FUSE calls p.
LEMMA ObjectIs ==
    ASSUME Constructed, NEW p \in RelPath
    PROVE  Object(Below(work_dir, p)) = tree[p]
<1> DEFINE ps == {q \in RelPath : Below(work_dir, q) = Below(work_dir, p)}
<1>1. ASSUME NEW q \in ps PROVE q = p
  <2>1. p \in Seq(Cell) /\ q \in Seq(Cell) /\ work_dir \in Seq(Cell)
    BY SftpAssumption DEF Constructed
  <2>2. CASE work_dir # <<"/">>
    BY <2>1, <2>2, ConcatCancel DEF Below
  <2> QED BY <2>2 DEF Below
<1>2. ps = {p}
  BY <1>1
<1> QED BY <1>2 DEF Object

-----------------------------------------------------------------------------
(* The invariant *)

\* A rename in progress.
RenameRecord ==
    [op : {"rename"}, st : {"check", "rename", "returned"}, p : RelPath, q : RelPath,
     flags : SUBSET {"noreplace"}, old : Seq(Cell), was : Obj \cup {None},
     replaced : Obj \cup {None}]

\* A read or write in progress.
TransferRecord ==
    [op : {"read", "write"}, st : {"running", "returned"}, h : Handle, off : Nat, size : Nat,
     done : Nat, buf : Seq(Byte), skewed : BOOLEAN, disturbed : BOOLEAN]

\* The types, and the path buffer as get_abs_path() needs it.
SftpTyped ==
    /\ Constructed
    /\ PathBuf(curr_abs_path)
    /\ tree \in [RelPath -> Obj \cup {None}]
    /\ data \in [Handle -> Seq(Byte)]
    /\ files \in [Handle -> Nat \cup {None}]
    /\ \/ call = Idle \/ call = Failed
       \/ call \in RenameRecord \/ call \in TransferRecord

\* As long as a rename that must not replace has not looked, what it remembers
\* of the target is still there; when it has looked there was nothing.
RenameKept ==
    call \in RenameRecord =>
        /\ call.st # "returned" => call.replaced = None
        /\ call.st = "check" => call.was = None \/ call.was = tree[call.q]
        /\ "noreplace" \in call.flags /\ call.st # "check" => call.was = None

\* What a transfer has moved so far, when nothing disturbed it.
Moved(c, content) ==
    /\ c.op = "read" =>
        /\ c.buf = SubSeq(content, c.off + 1, c.off + c.done)
        /\ c.done = 0 \/ c.off + c.done <= Len(content)
        /\ c.st = "returned" /\ c.done < c.size => Len(content) <= c.off + c.done
    /\ c.op = "write" =>
        \A i \in c.off + 1 .. c.off + c.done :
            i \in DOMAIN content /\ content[i] = [by |-> "ours", at |-> i - 1]

\* A transfer has done what it counted.
TransferKept ==
    call \in TransferRecord =>
        /\ call.st = "running" => files[call.h] \in Nat
        /\ call.done <= call.size
        /\ call.op = "read" => Len(call.buf) = call.done
        /\ ~ call.skewed /\ ~ call.disturbed => Moved(call, data[call.h])

\* The inductive invariant of the endpoint.
SftpInv == SftpTyped /\ PathsAsAsked /\ RenameKept /\ TransferKept /\ BytesInPlace

\* Every byte of a file is in its place.
AllInPlace(c) == \A i \in DOMAIN c : InPlace(c[i], i - 1)

-----------------------------------------------------------------------------
(* Calls with one request *)

\* Allocations succeed or fail.
LEMMA AllocIs == Alloc \subseteq BOOLEAN
  BY DEF Alloc

\* What others write, or an empty file, has every byte in its place.
LEMMA ContentsInPlace ==
    ASSUME NEW c, c \in Contents \/ c = <<>>
    PROVE  c \in Seq(Byte) /\ AllInPlace(c)
<1>1. CASE c = <<>>
  BY <1>1 DEF AllInPlace
<1>2. CASE c \in Contents
  <2>1. PICK n \in 0 .. MaxLen : c = [i \in 1 .. n |-> [by |-> "theirs", at |-> i - 1]]
    BY <1>2 DEF Contents
  <2>2. n \in Nat
    BY SftpAssumption
  <2>3. \A i \in 1 .. n : [by |-> "theirs", at |-> i - 1] \in Byte
    BY <2>2 DEF Byte
  <2>4. c \in [1 .. n -> Byte]
    BY <2>1, <2>3
  <2>5. c \in Seq(Byte) /\ DOMAIN c = 1 .. n
    BY <2>2, <2>4
  <2>6. \A i \in 1 .. n : c[i].at = i - 1
    BY <2>1
  <2> QED BY <2>5, <2>6 DEF AllInPlace, InPlace
<1> QED BY <1>1, <1>2

\* An opened file: its offset is 0, and everything is in its place.
LEMMA OpenedGives ==
    ASSUME SftpInv, NEW h \in Handle, NEW contents, Opened(h, contents),
           \A c \in contents : c \in Contents \/ c = <<>>
    PROVE  /\ files' \in [Handle -> Nat \cup {None}]
           /\ data' \in [Handle -> Seq(Byte)]
           /\ \A k \in Handle : AllInPlace(data'[k])
<1>1. PICK c \in contents : data' = [data EXCEPT ![h] = c]
  BY DEF Opened
<1>2. c \in Seq(Byte) /\ AllInPlace(c)
  BY <1>1, ContentsInPlace
<1>3. /\ data \in [Handle -> Seq(Byte)] /\ files \in [Handle -> Nat \cup {None}]
      /\ \A k \in Handle : AllInPlace(data[k])
  BY DEF SftpInv, SftpTyped, BytesInPlace, AllInPlace
<1>4. files' \in [Handle -> Nat \cup {None}]
  BY <1>3 DEF Opened
<1>5. data' \in [Handle -> Seq(Byte)] /\ \A k \in Handle : data'[k] = IF k = h THEN c ELSE data[k]
  BY <1>1, <1>2, <1>3
<1> QED BY <1>2, <1>3, <1>4, <1>5

\* While no call is in progress, a path made in the buffer and a new state of
\* the server keep the invariant.
LEMMA BetweenCalls ==
    ASSUME SftpInv, call = Idle, UNCHANGED <<work_dir, base_dir_len, call>>,
           PathBuf(curr_abs_path'),
           asked' # None => CString(curr_abs_path') = Below(work_dir, asked'),
           tree' \in [RelPath -> Obj \cup {None}],
           data' \in [Handle -> Seq(Byte)],
           \A h \in Handle : AllInPlace(data'[h]),
           files' \in [Handle -> Nat \cup {None}]
    PROVE  SftpInv'
<1>1. call'.op = "none" /\ call' = Idle
  BY DEF Idle
<1>2. SftpTyped'
  BY <1>1 DEF SftpInv, SftpTyped, Constructed, PathBuf, Idle
<1>3. PathsAsAsked'
  BY <1>1 DEF PathsAsAsked
<1>4. RenameKept' /\ TransferKept'
  BY <1>1 DEF RenameKept, TransferKept, RenameRecord, TransferRecord
<1>5. BytesInPlace'
  BY <1>1 DEF BytesInPlace, AllInPlace
<1> QED BY <1>2, <1>3, <1>4, <1>5 DEF SftpInv

\* The tree stays one when a name is given another object or none.
LEMMA NamedGives ==
    ASSUME tree \in [RelPath -> Obj \cup {None}], NEW path, NEW o \in Obj \cup {None}
    PROVE  Named(tree, path, o) \in [RelPath -> Obj \cup {None}]
  BY DEF Named

\* open, create, unlink, statfs and everything else with one path.
LEMMA PathCalls ==
    ASSUME SftpInv, NEW p \in RelPath, NEW h, NEW o,
           \/ h \in Handle /\ SftpOpen(p, h)
           \/ h \in Handle /\ o \in Obj /\ SftpCreate(p, h, o)
           \/ SftpUnlink(p) \/ SftpStatfs(p)
    PROVE  SftpInv'
<1>0. /\ Constructed /\ PathBuf(curr_abs_path) /\ tree \in [RelPath -> Obj \cup {None}]
      /\ data \in [Handle -> Seq(Byte)] /\ files \in [Handle -> Nat \cup {None}]
      /\ \A k \in Handle : AllInPlace(data[k])
  BY DEF SftpInv, SftpTyped, BytesInPlace, AllInPlace
<1>1. PICK ok \in Alloc :
        LET g == GetAbsPath(curr_abs_path, p, ok)
        IN  curr_abs_path' = g.buf /\ asked' = IF g.ok THEN p ELSE None
  BY DEF SftpOpen, SftpCreate, SftpUnlink, SftpStatfs, WithPath
<1>2. call = Idle /\ UNCHANGED <<work_dir, base_dir_len, call>>
  BY DEF SftpOpen, SftpCreate, SftpUnlink, SftpStatfs, WithPath
<1>3. /\ PathBuf(curr_abs_path')
      /\ asked' # None => CString(curr_abs_path') = Below(work_dir, asked')
  <2>1. ok \in BOOLEAN
    BY AllocIs
  <2> DEFINE g == GetAbsPath(curr_abs_path, p, ok)
  <2>2. PathBuf(g.buf) /\ (g.ok => CString(g.buf) = Below(work_dir, p))
    BY <1>0, <2>1, AbsPathGives
  <2> QED BY <1>1, <2>2
<1>4. \/ UNCHANGED <<server, files>>
      \/ h \in Handle /\ \E path : IF Object(path) = None THEN UNCHANGED <<files, data>>
                                   ELSE Opened(h, Contents)
      \/ h \in Handle /\ \E path : IF Object(path) = None THEN Opened(h, {<<>>})
                                   ELSE Opened(h, Contents)
      \/ \E path : tree' = Named(tree, path, None) /\ UNCHANGED <<data, files>>
  BY DEF SftpOpen, SftpCreate, SftpUnlink, SftpStatfs, WithPath
<1>5. tree' \in [RelPath -> Obj \cup {None}]
  <2>1. \/ UNCHANGED tree
        \/ o \in Obj /\ \E path : tree' = Named(tree, path, o)
        \/ \E path : tree' = Named(tree, path, None)
    BY DEF SftpOpen, SftpCreate, SftpUnlink, SftpStatfs, WithPath, server
  <2>2. CASE o \in Obj /\ \E path : tree' = Named(tree, path, o)
    BY <1>0, <2>2, NamedGives
  <2>3. CASE \E path : tree' = Named(tree, path, None)
    BY <1>0, <2>3, NamedGives
  <2> QED BY <1>0, <2>1, <2>2, <2>3
<1>6. /\ files' \in [Handle -> Nat \cup {None}]
      /\ data' \in [Handle -> Seq(Byte)]
      /\ \A k \in Handle : AllInPlace(data'[k])
  <2>1. \/ UNCHANGED <<files, data>>
        \/ h \in Handle /\ (Opened(h, Contents) \/ Opened(h, {<<>>}))
    BY <1>4 DEF server
  <2>2. CASE h \in Handle /\ Opened(h, Contents)
    BY <2>2, OpenedGives
  <2>3. CASE h \in Handle /\ Opened(h, {<<>>})
    BY <2>3, OpenedGives
  <2> QED BY <1>0, <2>1, <2>2, <2>3
<1> QED BY <1>2, <1>3, <1>5, <1>6, BetweenCalls

\* sftfs_sftp_close() keeps the invariant.
LEMMA CloseCall ==
    ASSUME SftpInv, NEW h \in Handle, SftpClose(h)
    PROVE  SftpInv'
<1>1. /\ Constructed /\ PathBuf(curr_abs_path) /\ tree \in [RelPath -> Obj \cup {None}]
      /\ data \in [Handle -> Seq(Byte)] /\ files \in [Handle -> Nat \cup {None}]
      /\ \A k \in Handle : AllInPlace(data[k])
      /\ asked # None => CString(curr_abs_path) = Below(work_dir, asked)
  BY DEF SftpInv, SftpTyped, BytesInPlace, AllInPlace, PathsAsAsked
<1>2. /\ call = Idle /\ UNCHANGED <<work_dir, base_dir_len, curr_abs_path, asked, tree, call>>
      /\ files' = [files EXCEPT ![h] = None] /\ data' = [data EXCEPT ![h] = <<>>]
  BY DEF SftpClose, handle
<1>3. files' \in [Handle -> Nat \cup {None}]
  BY <1>1, <1>2
<1>4. <<>> \in Seq(Byte) /\ AllInPlace(<<>>)
  BY ContentsInPlace
<1>5. data' \in [Handle -> Seq(Byte)] /\ \A k \in Handle : AllInPlace(data'[k])
  BY <1>1, <1>2, <1>4
<1> QED BY <1>1, <1>2, <1>3, <1>5, BetweenCalls

-----------------------------------------------------------------------------
(* rename *)

\* A step that leaves no rename or transfer in progress.
LEMMA NothingInProgress ==
    ASSUME SftpInv, call' = Idle \/ call' = Failed, UNCHANGED <<work_dir, base_dir_len>>,
           PathBuf(curr_abs_path'),
           asked' # None => CString(curr_abs_path') = Below(work_dir, asked'),
           tree' \in [RelPath -> Obj \cup {None}],
           UNCHANGED data,
           files' \in [Handle -> Nat \cup {None}]
    PROVE  SftpInv'
<1>1. call'.op \in {"none", "error"}
  BY DEF Idle, Failed
<1>2. SftpTyped'
  BY DEF SftpInv, SftpTyped, Constructed, PathBuf, Idle, Failed
<1>3. PathsAsAsked'
  BY <1>1 DEF PathsAsAsked
<1>4. RenameKept' /\ TransferKept'
  BY <1>1 DEF RenameKept, TransferKept, RenameRecord, TransferRecord
<1>5. BytesInPlace'
  BY <1>1 DEF SftpInv, BytesInPlace
<1> QED BY <1>2, <1>3, <1>4, <1>5 DEF SftpInv

\* The facts about the state that the lemmas on single steps begin with.
LEMMA SftpState ==
    ASSUME SftpInv
    PROVE  /\ Constructed /\ PathBuf(curr_abs_path) /\ tree \in [RelPath -> Obj \cup {None}]
           /\ data \in [Handle -> Seq(Byte)] /\ files \in [Handle -> Nat \cup {None}]
           /\ \A k \in Handle : AllInPlace(data[k])
           /\ asked # None => CString(curr_abs_path) = Below(work_dir, asked)
           /\ call.op = "rename" => call \in RenameRecord
           /\ call.op \in {"read", "write"} => call \in TransferRecord
  BY DEF SftpInv, SftpTyped, BytesInPlace, AllInPlace, PathsAsAsked, Idle, Failed,
         RenameRecord, TransferRecord

\* Both paths of a rename are what was asked for, although they are made in
\* the same buffer.
LEMMA RenameCallStep ==
    ASSUME SftpInv, NEW p \in RelPath, NEW q \in RelPath,
           NEW flags \in SUBSET {"noreplace", "exchange"}, RenameCall(p, q, flags)
    PROVE  SftpInv'
<1>0. /\ Constructed /\ PathBuf(curr_abs_path) /\ tree \in [RelPath -> Obj \cup {None}]
      /\ files \in [Handle -> Nat \cup {None}]
      /\ asked # None => CString(curr_abs_path) = Below(work_dir, asked)
  BY SftpState
<1>1. UNCHANGED <<work_dir, base_dir_len, tree, data, files>>
  BY DEF RenameCall, handle, server
<1>2. CASE ~ flags \subseteq {"noreplace"}
  <2>1. call' = Failed /\ UNCHANGED <<curr_abs_path, asked>>
    BY <1>2 DEF RenameCall, handle
  <2> QED BY <1>0, <1>1, <2>1, NothingInProgress
<1>3. CASE flags \subseteq {"noreplace"}
  <2>1. PICK ok \in Alloc, copied \in Alloc, okay \in Alloc :
            LET first == GetAbsPath(curr_abs_path, p, ok)
                second == IF first.ok /\ copied THEN GetAbsPath(first.buf, q, okay) ELSE first
                done == first.ok /\ copied /\ second.ok
                c == [op |-> "rename", st |-> Checked(flags), p |-> p, q |-> q,
                      flags |-> flags, old |-> CString(first.buf),
                      was |-> tree[q], replaced |-> None]
            IN  /\ call' = IF done THEN c ELSE Failed
                /\ curr_abs_path' = second.buf
                /\ asked' = IF done THEN q ELSE IF second.ok THEN p ELSE None
    BY <1>3 DEF RenameCall
  <2> DEFINE first == GetAbsPath(curr_abs_path, p, ok)
             second == IF first.ok /\ copied THEN GetAbsPath(first.buf, q, okay) ELSE first
             done == first.ok /\ copied /\ second.ok
             c == [op |-> "rename", st |-> Checked(flags), p |-> p, q |-> q,
                   flags |-> flags, old |-> CString(first.buf),
                   was |-> tree[q], replaced |-> None]
  <2>2. ok \in BOOLEAN /\ copied \in BOOLEAN /\ okay \in BOOLEAN
    BY AllocIs
  <2>3. /\ PathBuf(first.buf) /\ first.ok \in BOOLEAN
        /\ first.ok => CString(first.buf) = Below(work_dir, p)
    BY <1>0, <2>2, AbsPathGives
  <2>4. /\ call' = IF done THEN c ELSE Failed
        /\ curr_abs_path' = second.buf
        /\ asked' = IF done THEN q ELSE IF second.ok THEN p ELSE None
    BY <2>1
  <2> HIDE DEF first
  <2>5. /\ PathBuf(second.buf)
        /\ done => CString(second.buf) = Below(work_dir, q)
        /\ ~ done /\ second.ok => CString(second.buf) = Below(work_dir, p)
    <3>1. CASE first.ok /\ copied
      <4>1. LET g == GetAbsPath(first.buf, q, okay)
            IN  PathBuf(g.buf) /\ (g.ok => CString(g.buf) = Below(work_dir, q))
        BY <1>0, <2>2, <2>3, AbsPathGives
      <4> QED BY <3>1, <4>1
    <3>2. CASE ~ (first.ok /\ copied)
      BY <2>3, <3>2
    <3> QED BY <3>1, <3>2
  <2> HIDE DEF second
  <2>6. CASE ~ done
    <3>1. call' = Failed /\ (asked' # None => CString(curr_abs_path') = Below(work_dir, asked'))
      BY <2>4, <2>5, <2>6
    <3> QED BY <1>0, <1>1, <2>4, <2>5, <3>1, NothingInProgress
  <2>7. CASE done
    <3>1. call' = c /\ asked' = q /\ CString(curr_abs_path') = Below(work_dir, q)
          /\ CString(first.buf) = Below(work_dir, p)
      BY <2>3, <2>4, <2>5, <2>7
    <3>2. Below(work_dir, p) \in Seq(Cell)
      BY <1>0, SftpAssumption, ConcatProperties DEF Below, Constructed
    <3>3. /\ c \in RenameRecord /\ c.op = "rename" /\ c.p = p /\ c.q = q
          /\ c.old = Below(work_dir, p) /\ c.replaced = None /\ c.was = tree[q]
          /\ c.flags = flags /\ c.st = Checked(flags)
      BY <1>0, <1>3, <3>1, <3>2 DEF RenameRecord, Checked
    <3> HIDE DEF c
    <3>4. SftpTyped'
      BY <1>1, <2>4, <2>5, <3>1, <3>3 DEF SftpInv, SftpTyped, Constructed, PathBuf
    <3>5. PathsAsAsked'
      BY <1>1, <3>1, <3>3 DEF PathsAsAsked
    <3>6. RenameKept'
      BY <1>1, <3>1, <3>3 DEF RenameKept, Checked
    <3>7. TransferKept' /\ BytesInPlace'
      BY <1>1, <3>1, <3>3 DEF SftpInv, TransferKept, TransferRecord, BytesInPlace
    <3> QED BY <3>4, <3>5, <3>6, <3>7 DEF SftpInv
  <2> QED BY <2>6, <2>7
<1> QED BY <1>2, <1>3

\* The check of a rename that must not replace: it goes on only when there is
\* nothing under the new name.
LEMMA RenameCheckStep ==
    ASSUME SftpInv, RenameCheck
    PROVE  SftpInv'
<1>0. /\ Constructed /\ PathBuf(curr_abs_path) /\ tree \in [RelPath -> Obj \cup {None}]
      /\ files \in [Handle -> Nat \cup {None}] /\ call \in RenameRecord
      /\ asked # None => CString(curr_abs_path) = Below(work_dir, asked)
  BY SftpState DEF RenameCheck
<1>1. UNCHANGED <<work_dir, base_dir_len, curr_abs_path, asked, tree, data, files>>
  BY DEF RenameCheck, handle, server
<1>2. CASE call' = Failed
  BY <1>0, <1>1, <1>2, NothingInProgress
<1>3. CASE call' # Failed
  <2>1. /\ call.st = "check" /\ Object(CString(curr_abs_path)) = None
        /\ call' = [call EXCEPT !.st = "rename"]
    BY <1>3 DEF RenameCheck, ServerFails
  <2>2. CString(curr_abs_path) = Below(work_dir, call.q) /\ call.q \in RelPath
    BY <1>0, <2>1 DEF SftpInv, PathsAsAsked, RenameRecord
  <2>3. tree[call.q] = None
    BY <1>0, <2>1, <2>2, ObjectIs
  <2>4. /\ call' \in RenameRecord /\ call'.st = "rename" /\ call'.op = "rename"
        /\ call'.was = call.was /\ call'.replaced = call.replaced /\ call'.flags = call.flags
        /\ call'.p = call.p /\ call'.q = call.q /\ call'.old = call.old
    BY <1>0, <2>1 DEF RenameRecord
  <2>5. call.was = None /\ call.replaced = None
    BY <1>0, <2>1, <2>3 DEF SftpInv, RenameKept
  <2>6. SftpTyped'
    BY <1>1, <2>4 DEF SftpInv, SftpTyped, Constructed, PathBuf
  <2>7. PathsAsAsked'
    BY <1>0, <1>1, <2>1, <2>4 DEF SftpInv, PathsAsAsked, RenameRecord
  <2>8. RenameKept'
    BY <2>4, <2>5 DEF RenameKept
  <2>9. TransferKept' /\ BytesInPlace'
    BY <1>1, <2>4 DEF SftpInv, TransferKept, TransferRecord, BytesInPlace
  <2> QED BY <2>6, <2>7, <2>8, <2>9 DEF SftpInv
<1> QED BY <1>2, <1>3

\* sftp_rename(): what it may replace is not what the check had to protect.
LEMMA RenameRequestStep ==
    ASSUME SftpInv, RenameRequest
    PROVE  SftpInv'
<1> DEFINE new == CString(curr_abs_path)
           obj == Object(call.old)
<1>0. /\ Constructed /\ PathBuf(curr_abs_path) /\ tree \in [RelPath -> Obj \cup {None}]
      /\ files \in [Handle -> Nat \cup {None}] /\ call \in RenameRecord
      /\ asked # None => CString(curr_abs_path) = Below(work_dir, asked)
  BY SftpState DEF RenameRequest
<1>1. UNCHANGED <<work_dir, base_dir_len, curr_abs_path, asked, data, files>>
  BY DEF RenameRequest, handle
<1>2. CASE call' = Failed /\ UNCHANGED tree
  BY <1>0, <1>1, <1>2, NothingInProgress
<1>3. CASE /\ tree' = Named(Named(tree, call.old, None), new, obj)
           /\ call' = [call EXCEPT !.st = "returned", !.replaced = Object(new)]
           /\ call.st = "rename"
  <2>1. /\ new = Below(work_dir, call.q) /\ call.q \in RelPath
        /\ call.old = Below(work_dir, call.p) /\ call.p \in RelPath
    BY <1>0, <1>3 DEF SftpInv, PathsAsAsked, RenameRecord
  <2>2. obj \in Obj \cup {None} /\ Object(new) \in Obj \cup {None}
    BY <1>0, <2>1, ObjectIs
  <2>3. tree' \in [RelPath -> Obj \cup {None}]
    BY <1>0, <1>3, <2>2 DEF Named
  <2>4. /\ call' \in RenameRecord /\ call'.st = "returned" /\ call'.op = "rename"
        /\ call'.was = call.was /\ call'.flags = call.flags
    BY <1>0, <1>3, <2>2 DEF RenameRecord
  <2>5. SftpTyped'
    BY <1>1, <2>3, <2>4 DEF SftpInv, SftpTyped, Constructed, PathBuf
  <2>6. PathsAsAsked'
    BY <1>0, <1>1, <2>4 DEF PathsAsAsked
  <2>7. RenameKept'
    BY <1>0, <1>3, <2>4 DEF SftpInv, RenameKept
  <2>8. TransferKept' /\ BytesInPlace'
    BY <1>1, <2>4 DEF SftpInv, TransferKept, TransferRecord, BytesInPlace
  <2> QED BY <2>5, <2>6, <2>7, <2>8 DEF SftpInv
<1> QED BY <1>2, <1>3 DEF RenameRequest

\* The caller has its answer.
LEMMA ReturnStep ==
    ASSUME SftpInv, Return
    PROVE  SftpInv'
  BY SftpState, NothingInProgress DEF Return, handle, server

-----------------------------------------------------------------------------
(* read and write *)

\* The larger of two numbers.
LEMMA MaxOfTwo ==
    ASSUME NEW a \in Int, NEW b \in Int
    PROVE  Max({a, b}) = IF a >= b THEN a ELSE b
  BY DEF Max

\* The smaller of two numbers.
LEMMA MinOfTwo ==
    ASSUME NEW a \in Int, NEW b \in Int
    PROVE  Min({a, b}) = IF a <= b THEN a ELSE b
  BY DEF Min

\* A step that leaves everything but the transfer, the file's content and
\* its offset.
LEMMA TransferStep ==
    ASSUME SftpInv, UNCHANGED <<work_dir, base_dir_len, curr_abs_path, asked, tree>>,
           call' \in TransferRecord, data' \in [Handle -> Seq(Byte)],
           files' \in [Handle -> Nat \cup {None}],
           TransferKept', BytesInPlace'
    PROVE  SftpInv'
<1>1. call'.op \in {"read", "write"}
  BY DEF TransferRecord
<1>2. SftpTyped'
  BY DEF SftpInv, SftpTyped, Constructed, PathBuf
<1>3. PathsAsAsked' /\ RenameKept'
  BY <1>1 DEF SftpInv, PathsAsAsked, RenameKept, RenameRecord
<1> QED BY <1>2, <1>3 DEF SftpInv

\* The beginning of a read or write keeps the invariant.
LEMMA TransferCallStep ==
    ASSUME SftpInv, NEW op \in {"read", "write"}, NEW h \in Handle, NEW off \in 0 .. MaxOff,
           NEW size \in 0 .. MaxSize, TransferCall(op, h, off, size)
    PROVE  SftpInv'
<1>0. /\ data \in [Handle -> Seq(Byte)] /\ files \in [Handle -> Nat \cup {None}]
      /\ \A k \in Handle : AllInPlace(data[k])
  BY SftpState
<1>1. /\ UNCHANGED <<work_dir, base_dir_len, curr_abs_path, asked, tree, data, files>>
      /\ files[h] # None
  BY DEF TransferCall, handle, server
<1>2. off \in Nat /\ size \in Nat
  BY SftpAssumption
<1>3. /\ call' \in TransferRecord /\ call'.op = op /\ call'.h = h /\ call'.off = off
      /\ call'.size = size /\ call'.done = 0 /\ call'.buf = <<>>
      /\ call'.st = IF size = 0 THEN "returned" ELSE "running"
  <2> DEFINE c == Transfer(op, h, off, size)
  <2>1. /\ c \in TransferRecord /\ c.op = op /\ c.h = h /\ c.off = off
        /\ c.size = size /\ c.done = 0 /\ c.buf = <<>> /\ c.st = "running"
    BY <1>2 DEF Transfer, TransferRecord
  <2>2. call' = IF size = 0 THEN [c EXCEPT !.st = "returned"] ELSE c
    BY DEF TransferCall
  <2> HIDE DEF c
  <2> QED BY <2>1, <2>2 DEF TransferRecord
<1>4. SubSeq(data[h], off + 1, off + 0) = <<>>
  BY <1>2, SubSeqEmpty
<1>5. Moved(call', data[h])
  BY <1>2, <1>3, <1>4 DEF Moved
<1>6. TransferKept'
  BY <1>0, <1>1, <1>2, <1>3, <1>5 DEF TransferKept
<1>7. BytesInPlace'
  BY <1>0, <1>1, <1>3 DEF BytesInPlace, AllInPlace
<1> QED BY <1>0, <1>1, <1>3, <1>6, <1>7, TransferStep

\* sftp_seek64(): the position the turn begins at.
LEMMA SeekGives ==
    ASSUME SftpInv, call \in TransferRecord, call.st = "running", NEW ok \in SeekResults
    PROVE  ok \in BOOLEAN /\ SeekTo(ok) \in Nat /\ (ok => SeekTo(ok) = call.off + call.done)
<1>1. ok \in BOOLEAN
  BY DEF SeekResults
<1>2. files[call.h] \in Nat /\ call.off \in Nat /\ call.done \in Nat
  BY DEF SftpInv, TransferKept, TransferRecord
<1> QED BY <1>1, <1>2 DEF SeekTo, CurrOff

\* AfterTurn() counts the bytes and decides whether the loop is over.
LEMMA AfterTurnGives ==
    ASSUME NEW c \in TransferRecord, c.st = "running", NEW n \in Nat
    PROVE  LET d == AfterTurn(c, n)
           IN  /\ d \in TransferRecord /\ d.done = c.done + n
               /\ d.st = IF n = 0 \/ c.done + n >= c.size THEN "returned" ELSE "running"
               /\ d.op = c.op /\ d.h = c.h /\ d.off = c.off /\ d.size = c.size
               /\ d.buf = c.buf /\ d.skewed = c.skewed /\ d.disturbed = c.disturbed
<1> DEFINE m == c.done + n
           e == IF n = 0 \/ m >= c.size THEN "returned" ELSE "running"
<1>1. m \in Nat
  BY DEF TransferRecord
<1>2. e \in {"running", "returned"}
  OBVIOUS
<1>3. AfterTurn(c, n) = [c EXCEPT !.done = m, !.st = e]
  BY DEF AfterTurn, Finished, TransferRecord
<1> HIDE DEF m, e
<1>4. LET d == [c EXCEPT !.done = m, !.st = e]
      IN  /\ d \in TransferRecord /\ d.done = m /\ d.st = e
          /\ d.op = c.op /\ d.h = c.h /\ d.off = c.off /\ d.size = c.size
          /\ d.buf = c.buf /\ d.skewed = c.skewed /\ d.disturbed = c.disturbed
  BY <1>1, <1>2 DEF TransferRecord
<1> QED BY <1>3, <1>4 DEF m, e

\* A turn of the loop of sftfs_sftp_read().
LEMMA ReadTurnStep ==
    ASSUME SftpInv, ReadTurn
    PROVE  SftpInv'
<1>0. /\ data \in [Handle -> Seq(Byte)] /\ files \in [Handle -> Nat \cup {None}]
      /\ \A k \in Handle : AllInPlace(data[k])
      /\ call \in TransferRecord /\ call.op = "read" /\ call.st = "running"
      /\ Constructed /\ PathBuf(curr_abs_path) /\ tree \in [RelPath -> Obj \cup {None}]
      /\ asked # None => CString(curr_abs_path) = Below(work_dir, asked)
  BY SftpState DEF ReadTurn
<1>1. UNCHANGED <<work_dir, base_dir_len, curr_abs_path, asked, tree, data>>
  BY DEF ReadTurn, handle, server
<1> DEFINE content == data[call.h]
           left == call.size - call.done
<1>2. /\ call.h \in Handle /\ call.off \in Nat /\ call.size \in Nat /\ call.done \in Nat
      /\ call.buf \in Seq(Byte) /\ call.skewed \in BOOLEAN /\ call.disturbed \in BOOLEAN
      /\ content \in Seq(Byte) /\ Len(content) \in Nat /\ AllInPlace(content)
      /\ DOMAIN content = 1 .. Len(content)
  BY <1>0, LenProperties DEF TransferRecord
<1>3. /\ call.done <= call.size /\ Len(call.buf) = call.done
      /\ ~ call.skewed /\ ~ call.disturbed => Moved(call, content)
      /\ ~ call.skewed =>
            \A i \in DOMAIN call.buf : InPlace(call.buf[i], call.off + i - 1)
  BY <1>0 DEF SftpInv, TransferKept, BytesInPlace
<1>4. CASE \E ok \in SeekResults : ServerFails /\ files' = [files EXCEPT ![call.h] = SeekTo(ok)]
  <2>1. PICK ok \in SeekResults : ServerFails /\ files' = [files EXCEPT ![call.h] = SeekTo(ok)]
    BY <1>4
  <2>2. files' \in [Handle -> Nat \cup {None}] /\ call' = Failed
    BY <1>0, <2>1, SeekGives DEF ServerFails
  <2> QED BY <1>0, <1>1, <2>2, NothingInProgress
<1>5. CASE ~ \E ok \in SeekResults :
                ServerFails /\ files' = [files EXCEPT ![call.h] = SeekTo(ok)]
  <2>1. PICK ok \in SeekResults :
            LET pos == SeekTo(ok)
                avail == Max({Len(content) - pos, 0})
            IN  \E n \in 0 .. Min({left, avail}) :
                    /\ n = 0 => avail = 0
                    /\ files' = [files EXCEPT ![call.h] = pos + n]
                    /\ call' = [AfterTurn(call, n) EXCEPT
                                    !.buf = @ \o SubSeq(content, pos + 1, pos + n),
                                    !.skewed = @ \/ ~ ok]
    BY <1>5 DEF ReadTurn
  <2> DEFINE pos == SeekTo(ok)
             avail == Max({Len(content) - pos, 0})
  <2>2. ok \in BOOLEAN /\ pos \in Nat /\ (ok => pos = call.off + call.done)
    BY <1>0, SeekGives
  <2>3. PICK n \in 0 .. Min({left, avail}) :
            /\ n = 0 => avail = 0
            /\ files' = [files EXCEPT ![call.h] = pos + n]
            /\ call' = [AfterTurn(call, n) EXCEPT
                            !.buf = @ \o SubSeq(content, pos + 1, pos + n),
                            !.skewed = @ \/ ~ ok]
    BY <2>1
  <2> HIDE DEF content, pos
  <2>4. avail = IF Len(content) - pos >= 0 THEN Len(content) - pos ELSE 0
    BY <1>2, <2>2, MaxOfTwo
  <2> HIDE DEF avail
  <2>5. /\ n \in Nat /\ call.done + n <= call.size
        /\ n > 0 => pos + n <= Len(content)
        /\ n = 0 => Len(content) <= pos
    <3>a. left \in Nat
      BY <1>2, <1>3
    <3>b. avail \in Nat
      <4>1. Len(content) \in Nat /\ pos \in Nat
        BY <1>2, <2>2
      <4> QED BY <2>4, <4>1
    <3>1. left \in Nat /\ avail \in Nat
      BY <3>a, <3>b
    <3>2. Min({left, avail}) = IF left <= avail THEN left ELSE avail
      BY <3>1, MinOfTwo
    <3>3. n \in Nat /\ n <= left /\ n <= avail
      BY <2>3, <3>1, <3>2
    <3> QED BY <1>2, <1>3, <2>2, <2>3, <2>4, <3>3
  <2> DEFINE got == SubSeq(content, pos + 1, pos + n)
             buf == call.buf \o got
             turn == AfterTurn(call, n)
  <2>6. /\ got \in Seq(Byte) /\ Len(got) = n
        /\ \A i \in 1 .. n : got[i] = content[pos + i]
    <3>1. \A i \in pos + 1 .. pos + n : content[i] \in Byte
      BY <1>2, <2>2, <2>5, ElementOfSeq
    <3>2. /\ got \in Seq(Byte)
          /\ Len(got) = IF pos + 1 <= pos + n THEN (pos + n) - (pos + 1) + 1 ELSE 0
          /\ \A i \in 1 .. (pos + n) - (pos + 1) + 1 : got[i] = content[(pos + 1) + i - 1]
      <4>1. pos + 1 \in Int /\ pos + n \in Int
        BY <2>2, <2>5
      <4> QED BY <3>1, <4>1, SubSeqProperties
    <3> QED BY <2>2, <2>5, <3>2
  <2> HIDE DEF got
  <2>7. /\ buf \in Seq(Byte) /\ Len(buf) = call.done + n
        /\ \A i \in 1 .. call.done + n :
                buf[i] = IF i <= call.done THEN call.buf[i] ELSE got[i - call.done]
    <3>1. /\ buf \in Seq(Byte) /\ Len(buf) = Len(call.buf) + Len(got)
          /\ \A i \in 1 .. Len(call.buf) + Len(got) :
                buf[i] = IF i <= Len(call.buf) THEN call.buf[i] ELSE got[i - Len(call.buf)]
      BY <1>2, <2>6, ConcatProperties
    <3> HIDE DEF buf
    <3> QED BY <1>3, <2>6, <3>1
  <2> HIDE DEF buf
  <2>8. /\ turn \in TransferRecord /\ turn.done = call.done + n
        /\ turn.st = IF n = 0 \/ call.done + n >= call.size THEN "returned" ELSE "running"
        /\ turn.op = call.op /\ turn.h = call.h /\ turn.off = call.off /\ turn.size = call.size
        /\ turn.buf = call.buf /\ turn.skewed = call.skewed /\ turn.disturbed = call.disturbed
    BY <1>0, <2>5, AfterTurnGives
  <2>9. call' = [turn EXCEPT !.buf = buf, !.skewed = turn.skewed \/ ~ ok]
    BY <2>3, <2>8 DEF buf, got, TransferRecord
  <2> HIDE DEF turn
  <2>10. /\ call' \in TransferRecord /\ call'.op = "read" /\ call'.h = call.h
         /\ call'.off = call.off /\ call'.size = call.size /\ call'.done = call.done + n
         /\ call'.buf = buf /\ call'.st = turn.st /\ call'.disturbed = call.disturbed
         /\ call'.skewed = (call.skewed \/ ~ ok)
    BY <1>0, <2>2, <2>7, <2>8, <2>9 DEF TransferRecord
  <2>11. files' \in [Handle -> Nat \cup {None}] /\ files'[call.h] \in Nat
    <3>1. pos + n \in Nat
      BY <2>2, <2>5
    <3> QED BY <1>0, <1>2, <2>3, <3>1
  <2>12. ASSUME ~ call'.skewed, NEW i \in 1 .. call.done + n
         PROVE  InPlace(buf[i], call.off + i - 1)
    <3>0. ok /\ ~ call.skewed /\ pos = call.off + call.done
      BY <2>2, <2>10, <2>12
    <3>1. CASE i <= call.done
      <4>1. i \in DOMAIN call.buf /\ buf[i] = call.buf[i]
        BY <1>2, <1>3, <2>5, <2>7, <3>1, LenProperties
      <4> QED BY <1>3, <3>0, <4>1
    <3>2. CASE i > call.done
      <4>1. i - call.done \in 1 .. n /\ pos + (i - call.done) \in 1 .. Len(content)
        <5>1. /\ i \in Nat /\ call.done \in Nat /\ n \in Nat /\ pos \in Nat
              /\ Len(content) \in Nat
          BY <1>2, <2>2, <2>5
        <5>2. i - call.done \in 1 .. n
          BY <3>2, <5>1
        <5>3. pos + n <= Len(content)
          BY <2>5, <5>1, <5>2
        <5> QED BY <5>1, <5>2, <5>3
      <4>2. buf[i] = content[pos + (i - call.done)]
        <5>1. ~ (i <= call.done)
          BY <1>2, <2>5, <3>2
        <5>2. i \in 1 .. call.done + n
          BY <2>12
        <5>3. buf[i] = got[i - call.done]
          BY <2>7, <5>1, <5>2
        <5> QED BY <2>6, <4>1, <5>3
      <4>3. InPlace(content[pos + (i - call.done)], (pos + (i - call.done)) - 1)
        BY <1>2, <4>1 DEF AllInPlace
      <4>4. (pos + (i - call.done)) - 1 = call.off + i - 1
        BY SMTT(20), <1>2, <2>5, <3>0
      <4> QED BY <4>2, <4>3, <4>4
    <3>3. i <= call.done \/ i > call.done
      BY <1>2, <2>5
    <3> QED BY <3>1, <3>2, <3>3
  <2>13. BytesInPlace'
    BY <1>0, <1>1, <2>7, <2>10, <2>12, LenProperties DEF BytesInPlace, AllInPlace
  <2>14. ASSUME ~ call'.skewed, ~ call'.disturbed PROVE Moved(call', content)
    <3>0. ok /\ ~ call.skewed /\ ~ call.disturbed /\ pos = call.off + call.done
      BY <2>2, <2>10, <2>14
    <3>1. /\ call.buf = SubSeq(content, call.off + 1, call.off + call.done)
          /\ call.done = 0 \/ call.off + call.done <= Len(content)
      BY <1>0, <1>3, <3>0 DEF Moved
    <3>2. buf = SubSeq(content, call.off + 1, call.off + (call.done + n))
      <4>1. CASE n = 0
        <5>1. got = <<>>
          BY <2>2, <2>5, <4>1, SubSeqEmpty DEF got
        <5>2. buf = call.buf
          BY <1>2, <5>1, ConcatEmptySeq DEF buf
        <5>3. call.done + n = call.done
          BY <1>2, <4>1
        <5> QED BY <3>1, <5>2, <5>3
      <4>2. CASE n > 0
        <5>1. /\ call.off + 1 \in 1 .. Len(content) + 1
              /\ call.off + call.done \in (call.off + 1) - 1 .. Len(content)
              /\ call.off + (call.done + n) \in call.off + call.done .. Len(content)
              /\ pos + n = call.off + (call.done + n)
          <6>1. pos + n <= Len(content) /\ pos + n = call.off + (call.done + n)
            BY <1>2, <2>5, <3>0, <4>2
          <6> QED BY <1>2, <2>5, <6>1
        <5>2. got = SubSeq(content, (call.off + call.done) + 1, call.off + (call.done + n))
          BY <3>0, <5>1 DEF got
        <5> QED BY <1>2, <3>1, <5>1, <5>2, ConcatAdjacentSubSeq DEF buf
      <4> QED BY <2>5, <4>1, <4>2
    <3>3. call.done + n = 0 \/ call.off + (call.done + n) <= Len(content)
      BY <1>2, <2>5, <3>0, <3>1
    <3>4. turn.st = "returned" /\ call.done + n < call.size =>
            Len(content) <= call.off + (call.done + n)
      BY <1>2, <2>5, <2>8, <3>0
    <3> QED BY <2>10, <3>2, <3>3, <3>4 DEF Moved
  <2>15. TransferKept'
    BY <1>1, <2>5, <2>7, <2>10, <2>11, <2>14 DEF TransferKept, content
  <2> QED BY <1>0, <1>1, <2>10, <2>11, <2>13, <2>15, TransferStep
<1> QED BY <1>4, <1>5

\* The bytes from pos on, what was there, and zeros in the gap.
WrittenInto(w, content, pos, bytes) ==
    /\ w \in Seq(Byte)
    /\ Len(w) >= pos + Len(bytes) /\ Len(w) \in Nat /\ DOMAIN w = 1 .. Len(w)
    /\ \A i \in 1 .. Len(w) :
        w[i] = IF i \in pos + 1 .. pos + Len(bytes) THEN bytes[i - pos]
               ELSE IF i <= Len(content) THEN content[i] ELSE Stray

\* A write into a file.
LEMMA WrittenGives ==
    ASSUME NEW content \in Seq(Byte), NEW pos \in Nat, NEW bytes \in Seq(Byte)
    PROVE  WrittenInto(Written(content, pos, bytes), content, pos, bytes)
<1> DEFINE E(i) == IF i \in pos + 1 .. pos + Len(bytes) THEN bytes[i - pos]
                   ELSE IF i <= Len(content) THEN content[i] ELSE Stray
           m == Max({Len(content), pos + Len(bytes)})
           w == [i \in 1 .. m |-> E(i)]
<1>1. Len(content) \in Nat /\ Len(bytes) \in Nat
  BY LenProperties
<1>2. m = IF Len(content) >= pos + Len(bytes) THEN Len(content) ELSE pos + Len(bytes)
  BY <1>1, MaxOfTwo
<1>3. Written(content, pos, bytes) = w
  BY DEF Written
<1> HIDE DEF m
<1>4. m \in Nat /\ m >= pos + Len(bytes)
  BY <1>1, <1>2
<1>5. ASSUME NEW i \in 1 .. m PROVE E(i) \in Byte
  <2>1. i \in pos + 1 .. pos + Len(bytes) => i - pos \in 1 .. Len(bytes)
    BY <1>1, <1>4
  <2>2. i <= Len(content) => i \in 1 .. Len(content)
    BY <1>1, <1>4
  <2>3. Stray \in Byte
    BY DEF Stray, Byte
  <2> QED BY <2>1, <2>2, <2>3, ElementOfSeq
<1>6. \A i \in 1 .. m : w[i] = E(i)
  OBVIOUS
<1> HIDE DEF E
<1>7. w \in [1 .. m -> Byte]
  BY <1>5
<1> HIDE DEF w
<1>8. w \in Seq(Byte) /\ Len(w) = m /\ DOMAIN w = 1 .. m
  BY <1>4, <1>7
<1> QED BY <1>3, <1>4, <1>6, <1>8 DEF E, WrittenInto

\* A turn of the loop of sftfs_sftp_write().
LEMMA WriteTurnStep ==
    ASSUME SftpInv, WriteTurn
    PROVE  SftpInv'
<1>0. /\ data \in [Handle -> Seq(Byte)] /\ files \in [Handle -> Nat \cup {None}]
      /\ \A k \in Handle : AllInPlace(data[k])
      /\ call \in TransferRecord /\ call.op = "write" /\ call.st = "running"
      /\ Constructed /\ PathBuf(curr_abs_path) /\ tree \in [RelPath -> Obj \cup {None}]
      /\ asked # None => CString(curr_abs_path) = Below(work_dir, asked)
  BY SftpState DEF WriteTurn
<1>1. UNCHANGED <<work_dir, base_dir_len, curr_abs_path, asked, tree>>
  BY DEF WriteTurn, handle
<1> DEFINE content == data[call.h]
<1>2. /\ call.h \in Handle /\ call.off \in Nat /\ call.size \in Nat /\ call.done \in Nat
      /\ call.buf \in Seq(Byte) /\ call.skewed \in BOOLEAN /\ call.disturbed \in BOOLEAN
      /\ content \in Seq(Byte) /\ Len(content) \in Nat /\ AllInPlace(content)
      /\ DOMAIN content = 1 .. Len(content)
  BY <1>0, LenProperties DEF TransferRecord
<1>3. /\ call.done <= call.size
      /\ ~ call.skewed /\ ~ call.disturbed => Moved(call, content)
  BY <1>0 DEF SftpInv, TransferKept
<1>4. CASE \E ok \in SeekResults : /\ ServerFails /\ UNCHANGED data
                                  /\ files' = [files EXCEPT ![call.h] = SeekTo(ok)]
  <2>1. PICK ok \in SeekResults : /\ ServerFails /\ UNCHANGED data
                                  /\ files' = [files EXCEPT ![call.h] = SeekTo(ok)]
    BY <1>4
  <2>2. files' \in [Handle -> Nat \cup {None}] /\ call' = Failed
    BY <1>0, <2>1, SeekGives DEF ServerFails
  <2> QED BY <1>0, <1>1, <2>1, <2>2, NothingInProgress
<1>5. CASE ~ \E ok \in SeekResults : /\ ServerFails /\ UNCHANGED data
                                    /\ files' = [files EXCEPT ![call.h] = SeekTo(ok)]
  <2> DEFINE Sent(ok, k) == IF ok THEN [by |-> "ours", at |-> (call.off + call.done) + k - 1]
                            ELSE Stray
             Bytes(ok, n) == [k \in 1 .. n |-> Sent(ok, k)]
  <2>1. PICK ok \in SeekResults :
            \E n \in 0 .. call.size - call.done :
                /\ data' = IF n = 0 THEN data
                           ELSE [data EXCEPT ![call.h] = Written(content, SeekTo(ok), Bytes(ok, n))]
                /\ files' = [files EXCEPT ![call.h] = SeekTo(ok) + n]
                /\ call' = [AfterTurn(call, n) EXCEPT !.skewed = @ \/ ~ ok]
    BY <1>0, <1>5 DEF WriteTurn, CurrOff
  <2> DEFINE pos == SeekTo(ok)
  <2>2. ok \in BOOLEAN /\ pos \in Nat /\ (ok => pos = call.off + call.done)
    BY <1>0, SeekGives
  <2>3. PICK n \in 0 .. call.size - call.done :
            /\ data' = IF n = 0 THEN data
                       ELSE [data EXCEPT ![call.h] = Written(content, pos, Bytes(ok, n))]
            /\ files' = [files EXCEPT ![call.h] = pos + n]
            /\ call' = [AfterTurn(call, n) EXCEPT !.skewed = @ \/ ~ ok]
    BY <2>1
  <2> HIDE DEF content, pos
  <2> DEFINE bytes == Bytes(ok, n)
             new == IF n = 0 THEN content ELSE Written(content, pos, bytes)
             turn == AfterTurn(call, n)
  <2>4. n \in Nat /\ call.done + n <= call.size /\ call.off + call.done \in Nat
    BY <1>2, <1>3
  <2>5. /\ bytes \in Seq(Byte) /\ Len(bytes) = n
        /\ \A k \in 1 .. n : bytes[k] = Sent(ok, k)
    <3>1. \A k \in 1 .. n : Sent(ok, k) \in Byte
      <4> DEFINE at(k) == (call.off + call.done) + k - 1
      <4>1. Stray \in Byte
        BY DEF Stray, Byte
      <4>2. \A k \in 1 .. n : at(k) \in Nat
        BY <2>4
      <4> QED BY <4>1, <4>2 DEF Byte
    <3>2. bytes \in [1 .. n -> Byte]
      BY <3>1
    <3>3. \A k \in 1 .. n : bytes[k] = Sent(ok, k)
      OBVIOUS
    <3> HIDE DEF bytes
    <3> QED BY <2>4, <3>2, <3>3
  <2>6. data' = [data EXCEPT ![call.h] = new]
    BY <1>0, <1>2, <2>3 DEF content
  <2> HIDE DEF bytes
  <2>7. /\ new \in Seq(Byte) /\ Len(new) \in Nat /\ DOMAIN new = 1 .. Len(new)
        /\ n > 0 => Len(new) >= pos + n
        /\ \A i \in 1 .. Len(new) :
            new[i] = IF i \in pos + 1 .. pos + n THEN bytes[i - pos]
                     ELSE IF i <= Len(content) THEN content[i] ELSE Stray
    <3>1. CASE n = 0
      <4>1. \A i \in 1 .. Len(content) : i \notin pos + 1 .. pos + n /\ i <= Len(content)
        BY <1>2, <2>2, <3>1
      <4> QED BY <1>2, <3>1, <4>1
    <3>2. CASE n # 0
      <4> DEFINE w == Written(content, pos, bytes)
      <4>1. WrittenInto(w, content, pos, bytes)
        <5>1. content \in Seq(Byte) /\ pos \in Nat /\ bytes \in Seq(Byte)
          BY <1>2, <2>2, <2>5
        <5> HIDE DEF content, pos
        <5> QED BY <5>1, WrittenGives
      <4>2. new = w
        BY <3>2
      <4> HIDE DEF w, new
      <4> QED BY <2>5, <4>1, <4>2 DEF WrittenInto
    <3> QED BY <3>1, <3>2
  <2> HIDE DEF new
  <2>8. AllInPlace(new)
    <3>1. SUFFICES ASSUME NEW i \in 1 .. Len(new) PROVE InPlace(new[i], i - 1)
      BY <2>7 DEF AllInPlace
    <3>2. CASE i \in pos + 1 .. pos + n
      <4>1. /\ i - pos \in 1 .. n
            /\ ok => call.off + call.done + (i - pos) - 1 = i - 1
        BY <1>2, <2>2, <2>4, <3>2
      <4>2. new[i] = Sent(ok, i - pos)
        BY <2>5, <2>7, <3>2, <4>1
      <4> QED BY <2>2, <4>1, <4>2 DEF InPlace, Stray
    <3>3. CASE i \notin pos + 1 .. pos + n
      <4>1. new[i] = IF i <= Len(content) THEN content[i] ELSE Stray
        BY <2>7, <3>3
      <4>2. i <= Len(content) => i \in DOMAIN content
        BY <1>2, <2>7
      <4> QED BY <1>2, <4>1, <4>2 DEF AllInPlace, InPlace, Stray
    <3> QED BY <3>2, <3>3
  <2>9. data' \in [Handle -> Seq(Byte)] /\ data'[call.h] = new
        /\ \A k \in Handle : AllInPlace(data'[k])
    BY <1>0, <1>2, <2>6, <2>7, <2>8
  <2>10. files' \in [Handle -> Nat \cup {None}] /\ files'[call.h] \in Nat
    <3>1. pos + n \in Nat
      BY <2>2, <2>4
    <3> QED BY <1>0, <1>2, <2>3, <3>1
  <2>11. /\ turn \in TransferRecord /\ turn.done = call.done + n
         /\ turn.op = call.op /\ turn.h = call.h /\ turn.off = call.off /\ turn.size = call.size
         /\ turn.skewed = call.skewed /\ turn.disturbed = call.disturbed
    BY <1>0, <2>4, AfterTurnGives
  <2>12. call' = [turn EXCEPT !.skewed = turn.skewed \/ ~ ok]
    BY <2>3, <2>11 DEF TransferRecord
  <2> HIDE DEF turn
  <2>13. /\ call' \in TransferRecord /\ call'.op = "write" /\ call'.h = call.h
         /\ call'.off = call.off /\ call'.size = call.size /\ call'.done = call.done + n
         /\ call'.disturbed = call.disturbed /\ call'.skewed = (call.skewed \/ ~ ok)
    BY <1>0, <2>2, <2>11, <2>12 DEF TransferRecord
  <2>14. BytesInPlace'
    BY <2>9, <2>13 DEF BytesInPlace, AllInPlace
  <2>15. ASSUME ~ call'.skewed, ~ call'.disturbed PROVE Moved(call', new)
    <3>0. ok /\ ~ call.skewed /\ ~ call.disturbed /\ pos = call.off + call.done
      BY <2>2, <2>13, <2>15
    <3>1. \A i \in call.off + 1 .. call.off + call.done :
            i \in 1 .. Len(content) /\ content[i] = [by |-> "ours", at |-> i - 1]
      BY <1>0, <1>2, <1>3, <3>0 DEF Moved
    <3>2. ASSUME NEW i \in call.off + 1 .. call.off + (call.done + n)
          PROVE  i \in 1 .. Len(new) /\ new[i] = [by |-> "ours", at |-> i - 1]
      <4>1. CASE i \in pos + 1 .. pos + n
        <5>1. /\ i \in 1 .. Len(new) /\ i - pos \in 1 .. n
              /\ call.off + call.done + (i - pos) - 1 = i - 1
          <6>1. pos \in Nat /\ n \in Nat /\ i \in Int /\ pos + 1 <= i /\ i <= pos + n
            BY <2>2, <2>4, <4>1
          <6>2. Len(new) \in Nat /\ (n > 0 => Len(new) >= pos + n)
            BY <2>7
          <6>3. i \in 1 .. Len(new) /\ i - pos \in 1 .. n
            BY <6>1, <6>2
          <6> QED BY <2>4, <3>0, <6>1, <6>3
        <5>2. bytes[i - pos] = [by |-> "ours", at |-> i - 1]
          BY <2>5, <3>0, <5>1
        <5> QED BY <2>7, <4>1, <5>1, <5>2
      <4>2. CASE i \notin pos + 1 .. pos + n
        <5>1. i \in call.off + 1 .. call.off + call.done
          BY <1>2, <2>2, <2>4, <3>0, <4>2
        <5>2. i \in 1 .. Len(content) /\ content[i] = [by |-> "ours", at |-> i - 1]
          BY <3>1, <5>1
        <5>3. i \in 1 .. Len(new)
          <6>1. n > 0 => Len(new) >= i
            BY <1>2, <2>2, <2>4, <2>7, <3>0, <5>1
          <6>2. n = 0 => new = content
            BY DEF new
          <6> QED BY <1>2, <2>4, <2>7, <5>2, <6>1, <6>2
        <5> QED BY <1>2, <2>7, <4>2, <5>2, <5>3
      <4> QED BY <4>1, <4>2
    <3> QED BY <2>7, <2>13, <3>2 DEF Moved
  <2>16. TransferKept'
    BY <2>4, <2>9, <2>10, <2>13, <2>15 DEF TransferKept
  <2> QED BY <1>1, <2>9, <2>10, <2>13, <2>14, <2>16, TransferStep
<1> QED BY <1>4, <1>5

-----------------------------------------------------------------------------
(* Other users *)

\* What another user does to an open file: the transfer in progress, if it is
\* one of that file, is marked, and nothing else of it changes.
LEMMA DisturbedGives ==
    ASSUME SftpInv, NEW h \in Handle, call' = Disturbed(h)
    PROVE  \/ call' = call /\ ~ (call \in TransferRecord /\ call.h = h)
           \/ /\ call \in TransferRecord /\ call' \in TransferRecord /\ call.h = h
              /\ call'.disturbed /\ call'.op = call.op /\ call'.st = call.st
              /\ call'.h = call.h /\ call'.off = call.off /\ call'.size = call.size
              /\ call'.done = call.done /\ call'.buf = call.buf /\ call'.skewed = call.skewed
<1>1. CASE call.op \in {"read", "write"} /\ call.h = h
  <2>1. call \in TransferRecord
    BY <1>1, SftpState
  <2>2. call' = [call EXCEPT !.disturbed = TRUE]
    BY <1>1 DEF Disturbed
  <2> QED BY <1>1, <2>1, <2>2 DEF TransferRecord
<1>2. CASE ~ (call.op \in {"read", "write"} /\ call.h = h)
  <2>1. call' = call
    BY <1>2 DEF Disturbed
  <2> QED BY <1>2, <2>1 DEF TransferRecord
<1> QED BY <1>1, <1>2

\* The content of one open file changes, and every byte stays in its place.
LEMMA ContentStep ==
    ASSUME SftpInv, NEW h \in Handle, NEW c \in Seq(Byte), AllInPlace(c),
           data' = [data EXCEPT ![h] = c], call' = Disturbed(h),
           UNCHANGED <<work_dir, base_dir_len, curr_abs_path, asked, tree, files>>
    PROVE  SftpInv'
<1>0. /\ Constructed /\ PathBuf(curr_abs_path) /\ tree \in [RelPath -> Obj \cup {None}]
      /\ data \in [Handle -> Seq(Byte)] /\ files \in [Handle -> Nat \cup {None}]
      /\ \A k \in Handle : AllInPlace(data[k])
  BY SftpState
<1>1. /\ data' \in [Handle -> Seq(Byte)] /\ \A k \in Handle : AllInPlace(data'[k])
      /\ \A k \in Handle : k # h => data'[k] = data[k]
  BY <1>0
<1>2. CASE call' = call /\ ~ (call \in TransferRecord /\ call.h = h)
  <2>1. SftpTyped'
    BY <1>1, <1>2 DEF SftpInv, SftpTyped, Constructed, PathBuf
  <2>2. PathsAsAsked' /\ RenameKept'
    BY <1>2 DEF SftpInv, PathsAsAsked, RenameKept
  <2>3. TransferKept'
    BY <1>1, <1>2 DEF SftpInv, TransferKept, TransferRecord
  <2>4. BytesInPlace'
    BY <1>1, <1>2 DEF SftpInv, BytesInPlace, AllInPlace
  <2> QED BY <2>1, <2>2, <2>3, <2>4 DEF SftpInv
<1>3. CASE /\ call \in TransferRecord /\ call' \in TransferRecord
           /\ call'.disturbed /\ call'.op = call.op /\ call'.st = call.st
           /\ call'.h = call.h /\ call'.off = call.off /\ call'.size = call.size
           /\ call'.done = call.done /\ call'.buf = call.buf /\ call'.skewed = call.skewed
  <2>1. TransferKept'
    BY <1>3 DEF SftpInv, TransferKept
  <2>2. BytesInPlace'
    BY <1>1, <1>3 DEF SftpInv, BytesInPlace, AllInPlace
  <2> QED BY <1>0, <1>1, <1>3, <2>1, <2>2, TransferStep
<1> QED BY <1>2, <1>3, DisturbedGives

\* Another user appends to an open file, or cuts off its last byte.
LEMMA OtherWrites ==
    ASSUME SftpInv, NEW h \in Handle, OtherAppends(h) \/ OtherTruncates(h)
    PROVE  SftpInv'
<1> DEFINE old == data[h]
<1>0. old \in Seq(Byte) /\ AllInPlace(old) /\ Len(old) \in Nat /\ data \in [Handle -> Seq(Byte)]
      /\ DOMAIN old = 1 .. Len(old)
  BY SftpState, LenProperties
<1>1. UNCHANGED <<work_dir, base_dir_len, curr_abs_path, asked, tree, files>>
      /\ call' = Disturbed(h)
  BY DEF OtherAppends, OtherTruncates, handle
<1>2. CASE OtherAppends(h)
  <2> DEFINE b == [by |-> "theirs", at |-> Len(old)]
             c == Append(old, b)
  <2>1. data' = [data EXCEPT ![h] = c]
    BY <1>0, <1>2 DEF OtherAppends
  <2>2. b \in Byte /\ b.at = Len(old)
    BY <1>0 DEF Byte
  <2> HIDE DEF b, old
  <2>3. /\ c \in Seq(Byte) /\ Len(c) = Len(old) + 1
        /\ \A i \in 1 .. Len(old) : c[i] = old[i]
        /\ c[Len(old) + 1] = b
    BY <1>0, <2>2, AppendProperties
  <2> HIDE DEF c
  <2>4. DOMAIN c = 1 .. Len(old) + 1
    BY <2>3, LenProperties
  <2>5. AllInPlace(c)
    <3>1. SUFFICES ASSUME NEW i \in 1 .. Len(old) + 1 PROVE InPlace(c[i], i - 1)
      BY <2>4 DEF AllInPlace
    <3>2. CASE i \in 1 .. Len(old)
      BY <1>0, <2>3, <3>2 DEF AllInPlace
    <3>3. CASE i = Len(old) + 1
      <4>1. i - 1 = Len(old)
        BY <1>0, <3>3
      <4> QED BY <2>2, <2>3, <3>3, <4>1 DEF InPlace
    <3> QED BY <1>0, <3>2, <3>3
  <2> QED BY <1>1, <2>1, <2>3, <2>5, ContentStep
<1>3. CASE OtherTruncates(h)
  <2> DEFINE c == Front(old)
  <2>1. data' = [data EXCEPT ![h] = c] /\ old # <<>>
    BY <1>0, <1>3 DEF OtherTruncates
  <2> HIDE DEF old
  <2>2. PICK n \in 0 .. Len(old) : n = Len(old) - 1
    <3>1. Len(old) \in Nat /\ Len(old) # 0
      BY <1>0, <2>1, EmptySeq
    <3>2. Len(old) - 1 \in 0 .. Len(old)
      BY <3>1
    <3> QED BY <3>2
  <2>3. c = SubSeq(old, 1, n)
    BY <2>2 DEF Front
  <2> HIDE DEF c
  <2>4. c \in Seq(Byte) /\ Len(c) = n /\ \A i \in 1 .. n : c[i] = old[i]
    <3>1. \A i \in 1 .. n : old[i] \in Byte
      BY <1>0, ElementOfSeq
    <3>2. /\ c \in Seq(Byte)
          /\ Len(c) = IF 1 <= n THEN n - 1 + 1 ELSE 0
          /\ \A i \in 1 .. n - 1 + 1 : c[i] = old[1 + i - 1]
      <4>1. 1 \in Int /\ n \in Int
        BY <1>0
      <4> QED BY <2>3, <3>1, <4>1, SubSeqProperties
    <3>3. Len(c) = n
      <4>1. n \in Nat /\ Len(c) = IF 1 <= n THEN n - 1 + 1 ELSE 0
        BY <1>0, <3>2
      <4> QED BY <4>1
    <3>4. ASSUME NEW i \in 1 .. n
          PROVE  i \in 1 .. n - 1 + 1 /\ 1 + i - 1 = i
      BY <1>0
    <3> QED BY <3>2, <3>3, <3>4
  <2>5. AllInPlace(c)
    <3>1. DOMAIN c = 1 .. n
      BY <2>4, LenProperties
    <3>2. ASSUME NEW i \in 1 .. n PROVE i \in 1 .. Len(old)
      BY <1>0
    <3> QED BY <1>0, <2>4, <3>1, <3>2 DEF AllInPlace
  <2> QED BY <1>1, <2>1, <2>4, <2>5, ContentStep
<1> QED BY <1>2, <1>3

\* Another user puts a file under a free name, or removes one.  What a rename
\* remembers of its target is forgotten when the target is removed.
LEMMA OtherNames ==
    ASSUME SftpInv, NEW p \in RelPath, NEW o,
           (o \in Obj /\ OtherCreates(p, o)) \/ OtherRemoves(p)
    PROVE  SftpInv'
<1>0. tree \in [RelPath -> Obj \cup {None}] /\ (call.op = "rename" => call \in RenameRecord)
  BY SftpState
<1>1. UNCHANGED <<work_dir, base_dir_len, curr_abs_path, asked, data, files>>
  BY DEF OtherCreates, OtherRemoves, handle
<1>2. tree' \in [RelPath -> Obj \cup {None}] /\ \A r \in RelPath : r # p => tree'[r] = tree[r]
  BY <1>0 DEF OtherCreates, OtherRemoves
<1>3. CASE call' = call
            /\ (call \in RenameRecord /\ call.st = "check" =>
                    call.was = None \/ call.was = tree'[call.q])
  <2>1. SftpTyped'
    BY <1>1, <1>2, <1>3 DEF SftpInv, SftpTyped, Constructed, PathBuf
  <2>2. PathsAsAsked' /\ RenameKept'
    BY <1>1, <1>3 DEF SftpInv, PathsAsAsked, RenameKept
  <2>3. TransferKept' /\ BytesInPlace'
    BY <1>1, <1>3 DEF SftpInv, TransferKept, BytesInPlace
  <2> QED BY <2>1, <2>2, <2>3 DEF SftpInv
<1>4. CASE call \in RenameRecord /\ call' = [call EXCEPT !.was = None]
  <2>1. /\ call' \in RenameRecord /\ call'.op = "rename" /\ call'.was = None
        /\ call'.st = call.st /\ call'.p = call.p /\ call'.q = call.q /\ call'.old = call.old
        /\ call'.replaced = call.replaced /\ call'.flags = call.flags /\ call.op = "rename"
    BY <1>4 DEF RenameRecord
  <2>2. SftpTyped'
    BY <1>1, <1>2, <2>1 DEF SftpInv, SftpTyped, Constructed, PathBuf
  <2>3. PathsAsAsked'
    BY <1>1, <2>1 DEF SftpInv, PathsAsAsked
  <2>4. RenameKept'
    BY <1>4, <2>1 DEF SftpInv, RenameKept
  <2>5. TransferKept' /\ BytesInPlace'
    BY <1>1, <2>1 DEF SftpInv, TransferKept, TransferRecord, BytesInPlace
  <2> QED BY <2>2, <2>3, <2>4, <2>5 DEF SftpInv
<1>5. CASE o \in Obj /\ OtherCreates(p, o)
  <2>1. call' = call /\ tree[p] = None
    BY <1>5 DEF OtherCreates
  <2>2. ASSUME call \in RenameRecord, call.st = "check"
        PROVE  call.was = None \/ call.was = tree'[call.q]
    BY <1>2, <2>1, <2>2 DEF SftpInv, RenameKept, RenameRecord
  <2> QED BY <1>3, <2>1, <2>2
<1>6. CASE OtherRemoves(p)
  <2>1. CASE call.op = "rename" /\ p = call.q
    BY <1>0, <1>4, <1>6, <2>1 DEF OtherRemoves
  <2>2. CASE ~ (call.op = "rename" /\ p = call.q)
    <3>1. call' = call
      BY <1>6, <2>2 DEF OtherRemoves
    <3>2. ASSUME call \in RenameRecord, call.st = "check"
          PROVE  call.was = None \/ call.was = tree'[call.q]
      BY <1>2, <2>2, <3>2 DEF SftpInv, RenameKept, RenameRecord
    <3> QED BY <1>3, <3>1, <3>2
  <2> QED BY <2>1, <2>2
<1> QED BY <1>5, <1>6

-----------------------------------------------------------------------------
(* The endpoint as a whole *)

\* Every step of the endpoint, and every one of other users, keeps the invariant.
LEMMA SftpStep ==
    ASSUME SftpInv, SftpNext
    PROVE  SftpInv'
<1>1. CASE CallStep
  BY <1>1, RenameCheckStep, RenameRequestStep, ReadTurnStep, WriteTurnStep, ReturnStep
     DEF CallStep
<1>2. CASE SftpCalls
  <2>1. ASSUME NEW p \in RelPath, SftpUnlink(p) \/ SftpStatfs(p)
        PROVE  SftpInv'
    BY <2>1, PathCalls
  <2>2. ASSUME NEW p \in RelPath, NEW h \in Handle, SftpOpen(p, h)
        PROVE  SftpInv'
    BY <2>2, PathCalls
  <2>3. ASSUME NEW p \in RelPath, NEW h \in Handle, NEW o \in Obj, SftpCreate(p, h, o)
        PROVE  SftpInv'
    BY <2>3, PathCalls
  <2>4. ASSUME NEW p \in RelPath, NEW q \in RelPath,
               NEW flags \in SUBSET {"noreplace", "exchange"}, RenameCall(p, q, flags)
        PROVE  SftpInv'
    BY <2>4, RenameCallStep
  <2>5. ASSUME NEW h \in Handle, SftpClose(h)
        PROVE  SftpInv'
    BY <2>5, CloseCall
  <2>6. ASSUME NEW h \in Handle, NEW op \in {"read", "write"}, NEW off \in 0 .. MaxOff,
               NEW size \in 0 .. MaxSize, TransferCall(op, h, off, size)
        PROVE  SftpInv'
    BY <2>6, TransferCallStep
  <2> QED BY <1>2, <2>1, <2>2, <2>3, <2>4, <2>5, <2>6 DEF SftpCalls
<1>3. CASE ServerNext
  <2>1. ASSUME NEW h \in Handle, OtherAppends(h) \/ OtherTruncates(h)
        PROVE  SftpInv'
    BY <2>1, OtherWrites
  <2>2. ASSUME NEW p \in RelPath, NEW o \in Obj, OtherCreates(p, o)
        PROVE  SftpInv'
    BY <2>2, OtherNames
  <2>3. ASSUME NEW p \in RelPath, OtherRemoves(p)
        PROVE  SftpInv'
    BY <2>3, OtherNames
  <2> QED BY <1>3, <2>1, <2>2, <2>3 DEF ServerNext
<1> QED BY <1>1, <1>2, <1>3 DEF SftpNext

\* A step of nobody changes nothing.
LEMMA SftpStutter ==
    ASSUME SftpInv, UNCHANGED sftpVars
    PROVE  SftpInv'
<1>1. UNCHANGED <<work_dir, base_dir_len, curr_abs_path, asked, tree, data, files, call>>
  BY DEF sftpVars, handle, server
<1>2. SftpTyped' /\ PathsAsAsked'
  BY <1>1 DEF SftpInv, SftpTyped, Constructed, PathBuf, PathsAsAsked
<1>3. RenameKept' /\ TransferKept' /\ BytesInPlace'
  BY <1>1 DEF SftpInv, RenameKept, TransferKept, BytesInPlace
<1> QED BY <1>2, <1>3 DEF SftpInv

\* sftfs_sftp_construct() makes a buffer that begins with the directory and
\* holds nothing else; so does its destruction, with no directory at all.
LEMMA ConstructedGives ==
    ASSUME NEW w \in Seq(Cell), \A i \in 1 .. Len(w) : w[i] # NUL
    PROVE  LET b == StrCreate(SubSeq(w, 1, BaseDirLen(w)))
           IN  /\ WellFormed(b)
               /\ BaseDirLen(w) \in Nat /\ BaseDirLen(w) <= b.capacity
               /\ \A i \in 1 .. BaseDirLen(w) : b.c[i] = w[i]
<1> DEFINE n == BaseDirLen(w)
           from == SubSeq(w, 1, n)
<1>1. Len(w) \in Nat /\ n \in 0 .. Len(w)
  BY LenProperties DEF BaseDirLen
<1> HIDE DEF n
<1>2. \A i \in 1 .. n : w[i] \in Cell
  BY <1>1, ElementOfSeq
<1>3. /\ from \in Seq(Cell)
      /\ Len(from) = IF 1 <= n THEN n - 1 + 1 ELSE 0
      /\ \A i \in 1 .. n - 1 + 1 : from[i] = w[1 + i - 1]
  <2>1. 1 \in Int /\ n \in Int
    BY <1>1
  <2> QED BY <1>2, <2>1, SubSeqProperties
<1> HIDE DEF from
<1>4. Len(from) = n
  <2>1. n \in Nat /\ Len(from) = IF 1 <= n THEN n - 1 + 1 ELSE 0
    BY <1>1, <1>3
  <2> QED BY <2>1
<1>5. ASSUME NEW i \in 1 .. n PROVE from[i] = w[i]
  <2>1. i \in 1 .. n - 1 + 1 /\ 1 + i - 1 = i
    BY <1>1
  <2> QED BY <1>3, <2>1
<1>6. /\ WellFormed(StrCreate(from)) /\ StrCreate(from).capacity = n
      /\ \A i \in 1 .. n : StrCreate(from).c[i] = from[i]
  BY <1>3, <1>4, CreateGives
<1>7. n \in Nat /\ n <= n
  BY <1>1
<1> QED BY <1>5, <1>6, <1>7 DEF n, from

\* An endpoint without a call in progress, freshly made or taken away.
Untouched ==
    /\ Constructed
    /\ curr_abs_path = StrCreate(SubSeq(work_dir, 1, BaseDirLen(work_dir)))
    /\ asked = None
    /\ tree \in [RelPath -> Obj \cup {None}]
    /\ data = [h \in Handle |-> <<>>]
    /\ files = [h \in Handle |-> None]
    /\ call = Idle

\* An endpoint on which nothing has been called yet satisfies the invariant.
LEMMA FreshEndpoint == Untouched => SftpInv
<1> SUFFICES ASSUME Untouched PROVE SftpInv
  OBVIOUS
<1> USE DEF Untouched, Constructed
<1>1. PathBuf(curr_abs_path)
  BY ConstructedGives DEF PathBuf
<1>2. SftpTyped
  BY <1>1, EmptySeq DEF SftpTyped
<1>3. call.op = "none"
  BY DEF Idle
<1>4. PathsAsAsked /\ RenameKept /\ TransferKept
  BY <1>3 DEF PathsAsAsked, RenameKept, TransferKept, RenameRecord, TransferRecord
<1>5. BytesInPlace
  BY <1>3 DEF BytesInPlace
<1> QED BY <1>2, <1>4, <1>5 DEF SftpInv

\* What the runs check follows from the invariant.
LEMMA SftpProperties ==
    ASSUME SftpInv
    PROVE  SftpTypeOK /\ PathsAsAsked /\ NoReplaceKeeps /\ BytesInPlace /\ ReportsWhatItMoved
<1>1. SftpTypeOK
  BY BaseDirLenIs DEF SftpInv, SftpTyped, PathBuf, WellFormed, SftpTypeOK
<1>2. NoReplaceKeeps
  <2>1. SUFFICES ASSUME call.op = "rename", "noreplace" \in call.flags
                 PROVE  call.replaced = None \/ call.replaced # call.was
    BY DEF NoReplaceKeeps
  <2>2. call \in RenameRecord
    BY <2>1, SftpState
  <2> QED BY <2>1, <2>2 DEF SftpInv, RenameKept
<1>3. ReportsWhatItMoved
  <2>1. SUFFICES ASSUME call.op \in {"read", "write"}, call.st = "returned",
                        ~ call.skewed, ~ call.disturbed
                 PROVE  ReportsWhatItMoved
    BY DEF ReportsWhatItMoved
  <2>2. call \in TransferRecord
    BY <2>1, SftpState
  <2>3. call.done <= call.size /\ Moved(call, data[call.h])
    BY <2>1, <2>2 DEF SftpInv, TransferKept
  <2> QED BY <2>1, <2>3 DEF Moved, ReportsWhatItMoved
<1> QED BY <1>1, <1>2, <1>3 DEF SftpInv

-----------------------------------------------------------------------------
(* The session as a whole *)

\* Before the filesystem is mounted and after it is gone, no call is in
\* progress and no file is open.
QuietOutside == stage # "run" => Untouched

\* The inductive invariant of a session.
MountInv == StartInv /\ PromptInv /\ SftpInv /\ QuietOutside

\* A directory the server may name, as the proofs of the path buffer need it.
LEMMA WorkDirIs ==
    ASSUME NEW w \in WorkDirs
    PROVE  w \in Seq(Cell) /\ \A i \in 1 .. Len(w) : w[i] # NUL
<1>1. w \in Seq(Cell) /\ NUL \notin Range(w)
  BY SftpAssumption
<1>2. DOMAIN w = 1 .. Len(w)
  BY <1>1, LenProperties
<1> QED BY <1>1, <1>2 DEF Range

\* No endpoint at all is an untouched one, below an empty directory.
LEMMA NothingMade == NoEndpoint => Untouched
<1> SUFFICES ASSUME NoEndpoint PROVE Untouched
  OBVIOUS
<1>1. Constructed
  BY EmptySeq DEF NoEndpoint, Constructed, BaseDirLen
<1>2. SubSeq(<<>>, 1, BaseDirLen(<<>>)) = <<>>
  BY EmptySeq, SubSeqEmpty DEF BaseDirLen
<1>3. curr_abs_path = StrCreate(SubSeq(work_dir, 1, BaseDirLen(work_dir)))
  BY <1>2 DEF NoEndpoint
<1>4. tree \in [RelPath -> Obj \cup {None}]
  BY DEF NoEndpoint
<1> QED BY <1>1, <1>3, <1>4 DEF NoEndpoint, Untouched

\* EndpointGone is NoEndpoint after the step.
LEMMA GoneIsNone == EndpointGone => Untouched'
<1>1. EndpointGone => NoEndpoint'
  BY DEF EndpointGone, NoEndpoint
<1>2. NoEndpoint' => Untouched'
  BY NothingMade, PTL
<1> QED BY <1>1, <1>2

\* The endpoint as init_sftfs() leaves it is untouched.
LEMMA BuiltIsUntouched ==
    ASSUME Untouched, NEW w \in WorkDirs, Construct(w), tree' \in Trees,
           UNCHANGED <<data, files, call>>
    PROVE  Untouched'
<1>1. Constructed'
  BY WorkDirIs DEF Construct, Constructed
<1>2. (tree \in [RelPath -> Obj \cup {None}])'
  BY DEF Trees
<1>3. (curr_abs_path = StrCreate(SubSeq(work_dir, 1, BaseDirLen(work_dir))))' /\ asked' = None
  BY DEF Construct
<1>4. (data = [h \in Handle |-> <<>>])' /\ (files = [h \in Handle |-> None])' /\ (call = Idle)'
  BY DEF Untouched
<1> QED BY <1>1, <1>2, <1>3, <1>4 DEF Untouched

\* An endpoint that is not looked at stays as it is.
LEMMA LeftAlone ==
    ASSUME UNCHANGED sftpVars, Untouched
    PROVE  Untouched'
<1>1. UNCHANGED <<work_dir, base_dir_len, curr_abs_path, asked, tree, data, files, call>>
  BY DEF sftpVars, handle, server
<1> QED BY <1>1 DEF Untouched, Constructed

\* An untouched endpoint satisfies the invariant of the endpoint, also after a step.
LEMMA FreshThen == Untouched' => SftpInv'
  BY FreshEndpoint, PTL

\* main() begins with the invariant.
LEMMA MountInitially == MountInit => MountInv
<1> SUFFICES ASSUME MountInit PROVE MountInv
  OBVIOUS
<1>1. StartInv
  BY StartInitially DEF MountInit
<1>2. PromptInv
  BY PromptOutside DEF MountInit
<1>3. Untouched /\ SftpInv
  BY NothingMade, FreshEndpoint DEF MountInit
<1> QED BY <1>1, <1>2, <1>3 DEF MountInv, QuietOutside

\* Every step of the session keeps the invariant.
LEMMA MountStays == MountInv /\ [MountNext]_mountVars => MountInv'
<1> SUFFICES ASSUME MountInv, [MountNext]_mountVars PROVE MountInv'
  OBVIOUS
<1>0. StartInv /\ PromptInv /\ SftpInv /\ QuietOutside
  BY DEF MountInv
<1>a. ASSUME UNCHANGED promptVars PROVE PromptInv'
  BY <1>0, <1>a, PromptOutside
<1>b. ASSUME UNCHANGED startVars PROVE StartInv' /\ stage' = stage
  BY <1>0, <1>b, StartStutter DEF startVars
<1>c. ASSUME UNCHANGED sftpVars PROVE SftpInv'
  BY <1>0, <1>c, SftpStutter
<1>d. ASSUME UNCHANGED sftpVars, stage' # "run" => stage # "run" PROVE QuietOutside'
  BY <1>0, <1>d, LeftAlone DEF QuietOutside
<1>1. CASE StartStep /\ UNCHANGED <<promptVars, sftpVars>>
  <2>1. StartInv'
    BY <1>0, <1>1, StartStays DEF StartStep, StartMoves
  <2>2. stage # "run"
    BY <1>1 DEF StartStep, ProcessArg, CheckOptions, Connect, AskServer, Dialogue,
                UpdateKnownHosts, Disconnect, FuseMain
  <2> QED BY <1>1, <1>a, <1>c, <1>d, <2>1, <2>2 DEF MountInv
<1>2. CASE BeginAuthorization
  <2>1. PromptInv'
    BY <1>0, <1>2, PromptOutside DEF BeginAuthorization
  <2> QED BY <1>2, <1>b, <1>c, <1>d, <2>1 DEF BeginAuthorization, MountInv
<1>3. CASE PromptNext /\ UNCHANGED <<startVars, sftpVars>>
  <2>1. PromptInv'
    BY <1>0, <1>3, PromptStep
  <2> QED BY <1>3, <1>b, <1>c, <1>d, <2>1 DEF MountInv
<1>4. CASE EndAuthorization
  <2>1. StartInv'
    BY <1>0, <1>4, StartStays DEF EndAuthorization, StartMoves
  <2>2. PromptInv'
    BY <1>4, PromptOutside DEF EndAuthorization
  <2>3. stage # "run"
    BY <1>4 DEF EndAuthorization, Authorized
  <2> QED BY <1>4, <1>c, <1>d, <2>1, <2>2, <2>3 DEF EndAuthorization, MountInv
<1>5. CASE BuildEndpoint
  <2>1. StartInv' /\ PromptInv'
    BY <1>0, <1>5, <1>a, StartStays DEF BuildEndpoint, StartMoves
  <2>2. Untouched
    BY <1>0, <1>5 DEF BuildEndpoint, Acquire, QuietOutside
  <2>3. Untouched'
    BY <1>5, <2>2, BuiltIsUntouched, LeftAlone DEF BuildEndpoint
  <2> QED BY <2>1, <2>3, FreshThen DEF MountInv, QuietOutside
<1>6. CASE stage = "run" /\ SftpNext /\ UNCHANGED <<startVars, promptVars>>
  <2>1. SftpInv'
    BY <1>0, <1>6, SftpStep
  <2> QED BY <1>6, <1>a, <1>b, <2>1 DEF MountInv, QuietOutside
<1>7. CASE TearDown
  <2>1. StartInv' /\ PromptInv'
    BY <1>0, <1>7, <1>a, StartStays DEF TearDown, StartMoves
  <2>2. Untouched'
    BY <1>7, GoneIsNone DEF TearDown
  <2> QED BY <2>1, <2>2, FreshThen DEF MountInv, QuietOutside
<1>8. CASE UNCHANGED mountVars
  BY <1>8, <1>a, <1>b, <1>c, <1>d DEF mountVars, MountInv
<1> QED BY <1>1, <1>2, <1>3, <1>4, <1>5, <1>6, <1>7, <1>8 DEF MountNext

\* The invariant holds throughout a session.
THEOREM Session == MountSpec => []MountInv
  BY MountInitially, MountStays, PTL DEF MountSpec

\* Type correctness of the options, the prompt, the path buffer and the open
\* files, for every size of the buffer and of the files.
THEOREM MountTypes == MountSpec => []MountTypeOK
<1>1. MountInv => MountTypeOK
  BY StartProperties, PromptProperties, SftpProperties DEF MountInv, MountTypeOK
<1> QED BY <1>1, Session, PTL

\* handle_connection() and main(): whatever fails, only the three ways out that
\* AllReleased names keep something, and nothing is freed before what needs it.
THEOREM Releases == MountSpec => []AllReleased
<1>1. MountInv => AllReleased
  BY StartProperties DEF MountInv
<1> QED BY <1>1, Session, PTL

\* parse_opt() and parse_target(): for every command line, the connection is
\* made to the parts of the first argument and to the last port.
THEOREM Connects == MountSpec => []ConnectsAsAsked
<1>1. MountInv => ConnectsAsAsked
  BY StartProperties DEF MountInv
<1> QED BY <1>1, Session, PTL

\* get_line() and the loop of the dialogue: for every input, whatever the
\* lengths of its lines, the answer is the one the user gave.
THEOREM Answers == MountSpec => []AnswerDecides
<1>1. MountInv => AnswerDecides
  BY StartProperties DEF MountInv
<1> QED BY <1>1, Session, PTL

\* sftfs_password_prompt_free() and the handler: the password is in memory only
\* while the prompt is in use, wherever a signal arrives.
THEOREM Erases == MountSpec => []ErasedInTime
<1>1. MountInv => ErasedInTime
  BY PromptProperties DEF MountInv
<1> QED BY <1>1, Session, PTL

\* password_erasing_signal_handler() finds the prompt whenever it is installed.
THEOREM HandlerHasPrompt == MountSpec => []HandlerFindsPrompt
<1>1. MountInv => HandlerFindsPrompt
  BY PromptProperties DEF MountInv
<1> QED BY <1>1, Session, PTL

\* A prompt that is over leaves neither a handler nor a locked page nor another
\* value of PR_SET_DUMPABLE behind, except for the failures it reports.
THEOREM NoTrace == MountSpec => []PromptLeavesNoTrace
<1>1. MountInv => PromptLeavesNoTrace
  BY PromptProperties DEF MountInv
<1> QED BY <1>1, Session, PTL

\* get_abs_path(): the reused buffer holds the path that was asked for, for
\* every directory and every sequence of paths of any length.
THEOREM Paths == MountSpec => []PathsAsAsked
<1>1. MountInv => PathsAsAsked
  BY SftpProperties DEF MountInv
<1> QED BY <1>1, Session, PTL

\* sftfs_sftp_rename() with RENAME_NOREPLACE never replaces what it saw.
THEOREM NoReplace == MountSpec => []NoReplaceKeeps
<1>1. MountInv => NoReplaceKeeps
  BY SftpProperties DEF MountInv
<1> QED BY <1>1, Session, PTL

\* The loops of read and write move every byte to the place it is meant for,
\* for every offset, size and length.
THEOREM InPlaceAlways == MountSpec => []BytesInPlace
<1>1. MountInv => BytesInPlace
  BY SftpProperties DEF MountInv
<1> QED BY <1>1, Session, PTL

\* A transfer returns as many bytes as it moved, and less than was asked for
\* only at the end of the file.
THEOREM Reports == MountSpec => []ReportsWhatItMoved
<1>1. MountInv => ReportsWhatItMoved
  BY SftpProperties DEF MountInv
<1> QED BY <1>1, Session, PTL
=============================================================================
