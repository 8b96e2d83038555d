------------------------------ MODULE SftpEndp ------------------------------
(***************************************************************************)
(* The SFTP endpoint (src/endp/sftp.c) request by request: the buffer in   *)
(* which every absolute path is put together, the two requests of a rename *)
(* that must not replace, and the loops of read and write.  FUSE runs      *)
(* single-threaded, so one call is in progress at a time; other users of   *)
(* the server act between any two requests.                                *)
(*                                                                         *)
(* The server is external: tree says which object a path names, data what  *)
(* an open file contains, anything when it is opened.  A byte is           *)
(* represented by who wrote it and the position it is meant for.           *)
(***************************************************************************)
EXTENDS StrOps, FiniteSets, FiniteSetsExt

CONSTANTS
    RelPath,    \* the paths FUSE names
    WorkDirs,   \* canonical paths of directories that can be mounted
    Obj,        \* files on the server
    Handle,     \* open files
    MaxLen,     \* bound on the length of a file
    MaxOff,     \* bound on the offset of a transfer
    MaxSize,    \* bound on the size of a transfer
    Faults      \* what may go wrong: "nomem", "seek", "server"

ASSUME SftpAssumption ==
    /\ \A p \in RelPath : p \in Seq(Cell) /\ p # <<>> /\ NUL \notin Range(p)
    /\ \A w \in WorkDirs : w \in Seq(Cell) /\ w # <<>> /\ NUL \notin Range(w)
    /\ None \notin Obj
    /\ MaxLen \in Nat /\ MaxOff \in Nat /\ MaxSize \in Nat

VARIABLES
    work_dir, base_dir_len, curr_abs_path,  \* struct sftfs_sftp
    tree,       \* server: [RelPath -> Obj or None], below the mounted directory
    data,       \* server: [Handle -> Seq(Byte)], the content of the open file
    files,      \* [Handle -> None or the offset of the sftp_file]
    call,       \* the rename, read or write in progress
    asked       \* history: the path last put into the buffer

handle == <<work_dir, base_dir_len, curr_abs_path, asked>>
server == <<tree, data>>
sftpVars == <<handle, server, files, call>>

\* The absolute path FUSE means by p: below the mounted directory, where the
\* separator is not doubled in the root.
Below(w, p) == IF w = <<"/">> THEN p ELSE w \o p

Byte == [by : {"theirs", "ours", "nobody"}, at : Nat]

\* A byte that is meant for no position: what a gap in a file reads as, and what
\* a turn writes whose seek failed.
Stray == [by |-> "nobody", at |-> 0]

Idle == [op |-> "none"]

\* What an absolute path names.
Object(path) ==
    LET ps == {p \in RelPath : Below(work_dir, p) = path}
    IN  IF ps = {} THEN None ELSE tree[CHOOSE p \in ps : TRUE]

\* The tree with another object, or none, under an absolute path.
Named(t, path, o) == [p \in RelPath |-> IF Below(work_dir, p) = path THEN o ELSE t[p]]

Fresh(o) == \A p \in RelPath : tree[p] # o

\* What other users may have left in a file.
Contents == {[i \in 1 .. n |-> [by |-> "theirs", at |-> i - 1]] : n \in 0 .. MaxLen}

-----------------------------------------------------------------------------
(* Plausible mistakes, used to show that the properties notice them. *)

\* The root keeps its separator.
Mut_BaseDirLen(w) == Len(w)

\* The check for the target is left out.
Mut_Checked(flags) == "rename"

\* The next turn starts where the first one did.
Mut_CurrOff(c) == c.off

\* The end of the file does not end the loop.
Mut_AfterTurn(c, n) == [c EXCEPT !.done = @ + n]

\* One turn is taken for the whole transfer.
Mut_Finished(c, n) == TRUE

-----------------------------------------------------------------------------
(* The path buffer *)

\* sftfs_sftp_construct(): how much of the mounted directory's path begins
\* every absolute path.
BaseDirLen(w) == IF w = <<"/">> THEN 0 ELSE Len(w)

\* sftfs_sftp_construct(), from the canonical path on.
Construct(w) ==
    /\ work_dir' = w
    /\ base_dir_len' = BaseDirLen(w)
    /\ curr_abs_path' = StrCreate(SubSeq(w, 1, BaseDirLen(w)))
    /\ asked' = None

Alloc == IF "nomem" \in Faults THEN BOOLEAN ELSE {TRUE}

\* get_abs_path(): the buffer afterwards, and whether there is a path in it.
\* Cutting it back never needs memory.
GetAbsPath(buf, rel, ok) ==
    LET cut == StrResize(buf, base_dir_len, TRUE)
        full == StrExtend(cut, rel, ok)
    IN  IF full = None THEN [buf |-> cut, ok |-> FALSE] ELSE [buf |-> full, ok |-> TRUE]

\* A handler with one path and one request Do(path); -ENOMEM without a path.
WithPath(p, Do(_)) ==
    /\ call = Idle
    /\ \E ok \in Alloc :
        LET g == GetAbsPath(curr_abs_path, p, ok)
        IN  /\ curr_abs_path' = g.buf
            /\ asked' = IF g.ok THEN p ELSE None
            /\ IF g.ok THEN Do(CString(g.buf)) ELSE UNCHANGED <<server, files>>
    /\ UNCHANGED <<work_dir, base_dir_len, call>>

\* The sftp_file of an open file begins with offset 0.
Opened(h, contents) ==
    /\ files' = [files EXCEPT ![h] = 0]
    /\ \E content \in contents : data' = [data EXCEPT ![h] = content]

\* sftfs_sftp_open().
SftpOpen(p, h) ==
    /\ files[h] = None
    /\ WithPath(p, LAMBDA path :
            /\ IF Object(path) = None THEN UNCHANGED <<files, data>>
               ELSE Opened(h, Contents)
            /\ UNCHANGED tree)

\* sftfs_sftp_create().
SftpCreate(p, h, o) ==
    /\ files[h] = None /\ Fresh(o)
    /\ WithPath(p, LAMBDA path :
            IF Object(path) = None
            THEN tree' = Named(tree, path, o) /\ Opened(h, {<<>>})
            ELSE UNCHANGED tree /\ Opened(h, Contents))

\* sftfs_sftp_unlink().
SftpUnlink(p) ==
    WithPath(p, LAMBDA path :
        /\ tree' = Named(tree, path, None)
        /\ UNCHANGED <<data, files>>)

\* sftfs_sftp_statfs() asks only; so does, in the end, a handler above whose
\* request the server refuses.
SftpStatfs(p) == WithPath(p, LAMBDA path : UNCHANGED <<server, files>>)

\* sftfs_sftp_close().
SftpClose(h) ==
    /\ call = Idle /\ files[h] # None
    /\ files' = [files EXCEPT ![h] = None]
    /\ data' = [data EXCEPT ![h] = <<>>]
    /\ UNCHANGED <<handle, tree, call>>

-----------------------------------------------------------------------------
(* rename *)

\* Which request comes first.
Checked(flags) == IF "noreplace" \in flags THEN "check" ELSE "rename"

\* Nothing of a call that reports an error is looked at any more.
Failed == [op |-> "error", st |-> "failed"]

\* sftfs_sftp_rename() up to its first request: the first path is copied, since
\* the second is made in the same buffer.  "was" remembers what the target
\* is when the call begins.
RenameCall(p, q, flags) ==
    /\ call = Idle /\ p # q
    /\ IF ~ flags \subseteq {"noreplace"} THEN call' = Failed /\ UNCHANGED handle
       ELSE \E ok, copied, okay \in Alloc :
            LET first == GetAbsPath(curr_abs_path, p, ok)
                second == IF first.ok /\ copied THEN GetAbsPath(first.buf, q, okay) ELSE first
                done == first.ok /\ copied /\ second.ok
                c == [op |-> "rename", st |-> Checked(flags), p |-> p, q |-> q,
                      flags |-> flags, old |-> CString(first.buf),
                      was |-> tree[q], replaced |-> None]
            IN  /\ call' = IF done THEN c ELSE Failed
                /\ curr_abs_path' = second.buf
                /\ asked' = IF done THEN q ELSE IF second.ok THEN p ELSE None
                /\ UNCHANGED <<work_dir, base_dir_len>>
    /\ UNCHANGED <<server, files>>

ServerFails == "server" \in Faults /\ call' = Failed

\* The lstat() of a rename that must not replace.
RenameCheck ==
    /\ call.op = "rename" /\ call.st = "check"
    /\ \/ ServerFails
       \/ call' = IF Object(CString(curr_abs_path)) # None THEN Failed
                  ELSE [call EXCEPT !.st = "rename"]
    /\ UNCHANGED <<handle, server, files>>

\* sftp_rename().  A server with the posix-rename extension replaces an
\* existing target, others refuse.
RenameRequest ==
    LET new == CString(curr_abs_path)
        obj == Object(call.old)
    IN  /\ call.op = "rename" /\ call.st = "rename"
        /\ \/ /\ obj = None \/ Object(new) # None \/ "server" \in Faults
              /\ call' = Failed
              /\ UNCHANGED tree
           \/ /\ obj # None
              /\ tree' = Named(Named(tree, call.old, None), new, obj)
              /\ call' = [call EXCEPT !.st = "returned", !.replaced = Object(new)]
        /\ UNCHANGED <<handle, data, files>>

-----------------------------------------------------------------------------
(* read and write *)

\* One read or write: done is bytes_read or bytes_written, buf the caller's
\* buffer as far as a read has filled it.  skewed and disturbed are history:
\* a seek failed, another user changed the file during the call.
Transfer(op, h, off, size) ==
    [op |-> op, st |-> "running", h |-> h, off |-> off, size |-> size,
     done |-> 0, buf |-> <<>>, skewed |-> FALSE, disturbed |-> FALSE]

\* curr_off.
CurrOff(c) == c.off + c.done

\* The loop has moved everything, or its last turn moved nothing.
Finished(c, n) == n = 0 \/ c.done + n >= c.size

AfterTurn(c, n) ==
    [c EXCEPT !.done = @ + n, !.st = IF Finished(c, n) THEN "returned" ELSE @]

\* sftfs_sftp_read() and sftfs_sftp_write() are called; nothing is requested
\* when size is 0.
TransferCall(op, h, off, size) ==
    /\ call = Idle /\ files[h] # None
    /\ call' = LET c == Transfer(op, h, off, size)
               IN  IF size = 0 THEN [c EXCEPT !.st = "returned"] ELSE c
    /\ UNCHANGED <<handle, server, files>>

\* sftp_seek64(): its failure is noticed and ignored.
SeekResults == IF "seek" \in Faults THEN BOOLEAN ELSE {TRUE}

SeekTo(ok) == IF ok THEN CurrOff(call) ELSE files[call.h]

\* One turn of the loop of sftfs_sftp_read(): the server returns any part of
\* what there is, and nothing only at the end.
ReadTurn ==
    /\ call.op = "read" /\ call.st = "running"
    /\ \E ok \in SeekResults :
        LET pos == SeekTo(ok)
            content == data[call.h]
            left == call.size - call.done
            avail == Max({Len(content) - pos, 0})
        IN  \/ /\ ServerFails
               /\ files' = [files EXCEPT ![call.h] = pos]
            \/ \E n \in 0 .. Min({left, avail}) :
                /\ n = 0 => avail = 0
                /\ files' = [files EXCEPT ![call.h] = pos + n]
                /\ call' = [AfterTurn(call, n) EXCEPT
                                !.buf = @ \o SubSeq(content, pos + 1, pos + n),
                                !.skewed = @ \/ ~ ok]
    /\ UNCHANGED <<handle, server>>

\* The file's content after bytes were written at pos; a gap reads as zeros.
Written(content, pos, bytes) ==
    [i \in 1 .. Max({Len(content), pos + Len(bytes)}) |->
        IF i \in pos + 1 .. pos + Len(bytes) THEN bytes[i - pos]
        ELSE IF i <= Len(content) THEN content[i] ELSE Stray]

\* One turn of the loop of sftfs_sftp_write(): the server accepts any part.
WriteTurn ==
    /\ call.op = "write" /\ call.st = "running"
    /\ \E ok \in SeekResults :
        LET pos == SeekTo(ok)
        IN  \/ /\ ServerFails
               /\ files' = [files EXCEPT ![call.h] = pos]
               /\ UNCHANGED data
            \/ \E n \in 0 .. call.size - call.done :
                LET bytes == [k \in 1 .. n |->
                                IF ok THEN [by |-> "ours", at |-> CurrOff(call) + k - 1]
                                ELSE Stray]
                IN  /\ pos + n <= MaxLen
                    /\ data' = IF n = 0 THEN data
                               ELSE [data EXCEPT ![call.h] = Written(@, pos, bytes)]
                    /\ files' = [files EXCEPT ![call.h] = pos + n]
                    /\ call' = [AfterTurn(call, n) EXCEPT !.skewed = @ \/ ~ ok]
    /\ UNCHANGED <<handle, tree>>

\* The call in progress returns to its caller.
Return ==
    /\ call # Idle /\ call.st \in {"returned", "failed"}
    /\ call' = Idle
    /\ UNCHANGED <<handle, server, files>>

-----------------------------------------------------------------------------
(* Other users of the server *)

\* The file changes while it is being transferred.
Disturbed(h) ==
    IF call.op \in {"read", "write"} /\ call.h = h
    THEN [call EXCEPT !.disturbed = TRUE] ELSE call

OtherAppends(h) ==
    /\ files[h] # None /\ Len(data[h]) < MaxLen
    /\ data' = [data EXCEPT ![h] = Append(@, [by |-> "theirs", at |-> Len(@)])]
    /\ call' = Disturbed(h)
    /\ UNCHANGED <<handle, tree, files>>

OtherTruncates(h) ==
    /\ files[h] # None /\ data[h] # <<>>
    /\ data' = [data EXCEPT ![h] = Front(@)]
    /\ call' = Disturbed(h)
    /\ UNCHANGED <<handle, tree, files>>

OtherCreates(p, o) ==
    /\ tree[p] = None /\ Fresh(o)
    /\ tree' = [tree EXCEPT ![p] = o]
    /\ UNCHANGED <<handle, data, files, call>>

OtherRemoves(p) ==
    /\ tree[p] # None
    /\ tree' = [tree EXCEPT ![p] = None]
    /\ call' = IF call.op = "rename" /\ p = call.q
               THEN [call EXCEPT !.was = None] ELSE call
    /\ UNCHANGED <<handle, data, files>>

-----------------------------------------------------------------------------

\* What may be there when the endpoint is constructed.
Trees == {t \in [RelPath -> Obj \cup {None}] :
            \A p, q \in RelPath : p # q => t[p] = None \/ t[p] # t[q]}

SftpInit ==
    /\ work_dir \in WorkDirs
    /\ base_dir_len = BaseDirLen(work_dir)
    /\ curr_abs_path = StrCreate(SubSeq(work_dir, 1, BaseDirLen(work_dir)))
    /\ asked = None
    /\ tree \in Trees
    /\ data = [h \in Handle |-> <<>>]
    /\ files = [h \in Handle |-> None]
    /\ call = Idle

\* What the endpoint does by itself once it is called.
CallStep == RenameCheck \/ RenameRequest \/ ReadTurn \/ WriteTurn \/ Return

\* The part of it that fairness is about: a loop must not need an error of the
\* server to end.
Answered ==
    \/ RenameCheck \/ RenameRequest \/ Return
    \/ (ReadTurn \/ WriteTurn) /\ call'.st # "failed"

SftpCalls ==
    \/ \E p \in RelPath :
        \/ SftpUnlink(p) \/ SftpStatfs(p)
        \/ \E h \in Handle : SftpOpen(p, h) \/ \E o \in Obj : SftpCreate(p, h, o)
        \/ \E q \in RelPath, flags \in SUBSET {"noreplace", "exchange"} :
            RenameCall(p, q, flags)
    \/ \E h \in Handle :
        \/ SftpClose(h)
        \/ \E op \in {"read", "write"}, off \in 0 .. MaxOff, size \in 0 .. MaxSize :
            TransferCall(op, h, off, size)

ServerNext ==
    \/ \E h \in Handle : OtherAppends(h) \/ OtherTruncates(h)
    \/ \E p \in RelPath : OtherRemoves(p) \/ \E o \in Obj : OtherCreates(p, o)

SftpNext == CallStep \/ SftpCalls \/ ServerNext

SftpSpec == SftpInit /\ [][SftpNext]_sftpVars /\ WF_sftpVars(Answered)

-----------------------------------------------------------------------------
(* Properties *)

\* Type invariant.
SftpTypeOK ==
    /\ base_dir_len \in 0 .. Len(work_dir)
    /\ curr_abs_path.size <= curr_abs_path.capacity
    /\ Len(curr_abs_path.c) = curr_abs_path.capacity + 1
    /\ tree \in [RelPath -> Obj \cup {None}]
    /\ data \in [Handle -> Seq(Byte)]
    /\ \A h \in Handle : files[h] # None => files[h] \in Nat

\* The one buffer that all handlers share names, read as a C string, exactly
\* the path last asked for below the mounted directory, whatever longer or
\* shorter paths and failed allocations went before (get_abs_path()); and the
\* first path of a rename survives the making of the second.
PathsAsAsked ==
    /\ asked # None => CString(curr_abs_path) = Below(work_dir, asked)
    /\ call.op = "rename" /\ call.st \in {"check", "rename"} =>
        /\ call.old = Below(work_dir, call.p)
        /\ CString(curr_abs_path) = Below(work_dir, call.q)

\* A rename with RENAME_NOREPLACE does not replace the object that the target
\* has named ever since the call began.  (One that another user puts there
\* between the check and the rename can be replaced.)
NoReplaceKeeps ==
    call.op = "rename" /\ "noreplace" \in call.flags =>
        call.replaced = None \/ call.replaced # call.was

\* The byte b is one that belongs at position i.
InPlace(b, i) == b.at = i \/ b.by = "nobody"

\* Every byte arrives at the position it was meant for, over any number of
\* turns, short transfers and changes of the file's length by others: in the
\* files on the server, and in the buffer of a read whose seeks succeeded.
BytesInPlace ==
    /\ \A h \in Handle : \A i \in DOMAIN data[h] : InPlace(data[h][i], i - 1)
    /\ call.op = "read" /\ ~ call.skewed =>
        \A i \in DOMAIN call.buf : InPlace(call.buf[i], call.off + i - 1)

\* A read or write that reports success moved exactly what it reports; a read
\* reports less than was asked for only at the end of the file (the kernel
\* fills the rest of a short read with zeros).
ReportsWhatItMoved ==
    (call.op \in {"read", "write"} /\ call.st = "returned"
        /\ ~ call.skewed /\ ~ call.disturbed) =>
        LET content == data[call.h]
        IN  /\ call.done <= call.size
            /\ call.op = "read" =>
                /\ call.buf = SubSeq(content, call.off + 1, call.off + call.done)
                /\ call.done < call.size => Len(content) <= call.off + call.done
            /\ call.op = "write" =>
                \A i \in call.off + 1 .. call.off + call.done :
                    i \in DOMAIN content /\ content[i] = [by |-> "ours", at |-> i - 1]

\* Every rename, read and write returns, whatever other users do meanwhile.
CallsReturn == call # Idle ~> call = Idle
=============================================================================
