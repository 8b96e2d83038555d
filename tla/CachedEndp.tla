----------------------------- MODULE CachedEndp -----------------------------
(***************************************************************************)
(* The caching layer (src/endp/cached.c, include/endp/cached.h) between    *)
(* the FUSE handlers (src/core.c) and the SFTP endpoint (src/endp/sftp.c): *)
(* three file caches and the map from open handles to paths.  FUSE runs    *)
(* single-threaded, so handlers do not overlap and each is one action; the *)
(* clock and other users of the server move between them.                  *)
(*                                                                         *)
(* The server is external.  hist records the versions of every path, with  *)
(* the kind of object each one is and the moment it began; attributes and  *)
(* link targets are represented by the version they belong to.  A remote   *)
(* operation that fails changes nothing and is left out, except where a    *)
(* part of it was carried out or cached.  Failing allocations inside a     *)
(* cache belong to FileCache, except those of put and of readdir.          *)
(***************************************************************************)
EXTENDS PathOps, FileCacheOps, FiniteSets

CONSTANTS
    UserPath,   \* the paths the mount's users name, the root among them
    Handle,     \* values of open file handles
    DirHandle,  \* open directories
    MaxVer,     \* bound on the versions of a path
    MaxNames,   \* bound on the length of a listing
    Ops         \* what the users of a run do, and what may go wrong in it

VARIABLES
    hist,       \* server: [UserPath -> Seq([at, kind])], the last one current
    caches,     \* [attr, dir, symlink]
    open,       \* [Handle -> the path libfuse has for it, None if closed]
    orphans,    \* open handles whose file others have taken that path from
    handle_path,\* handle_path_map: [Handle -> UserPath or None]
    dirs,       \* [DirHandle -> None or [path, st, rest]], rest the [name, stat]
                \* that the server has sent and readdir not delivered
    now,
    changed     \* history: [UserPath -> [attr, link]], the versions the mount
                \* last brought about, and last brought about by naming anew

files == <<open, orphans, handle_path>>
vars == <<hist, caches, files, dirs, now, changed>>

NameOf(p) == SubSeq(p, FindLastSeperator(p) + 1, Len(p))

Parent(p) == PushEntry(p, DotDot)

Children(p) == {q \in UserPath \ {Root} : Parent(q) = p}

Below(p) == {x \in UserPath : IsPrefix(p \o <<"/">>, x)}

\* The path of what was at or below p, once p has become q.
Moved(x, p, q) == IF x = p THEN q ELSE q \o SubSeq(x, Len(p) + 1, Len(x))

Names == {Dot, DotDot} \cup {NameOf(p) : p \in UserPath \ {Root}}

\* A version as the caches store it; the attributes of a file that once was p; a
\* stat structure that no reply filled in; and the attributes of the directory
\* above the mounted one.
Version(p, v) == [path |-> p, ver |-> v]

Former(p) == [path |-> p, ver |-> 0]

Zero == [path |-> None, ver |-> 0]

Above == [path |-> None, ver |-> 1]

\* The mount sees whole directories: what is above a path is a path.  libfuse
\* puts its paths together from names, so each is the path of its directory, a
\* separator and a name.  Paths that occur as keys besides: an entry of the root
\* is cached as "//name".
ASSUME CachedAssumption ==
    /\ UserPath \subseteq Seq(STRING) /\ IsFiniteSet(UserPath)
    /\ Root \in UserPath /\ \A p \in UserPath : Parent(p) \in UserPath
    /\ \A p \in UserPath \ {Root} :
        p = (IF Parent(p) = Root THEN <<>> ELSE Parent(p)) \o <<"/">> \o NameOf(p)
    /\ Path = UserPath \cup {PushEntry(Root, NameOf(p)) : p \in Children(Root)}
    /\ \A p \in Children(Root) : PushEntry(Root, NameOf(p)) \notin UserPath
    /\ MaxVer \in Nat \ {0} /\ MaxNames \in Nat
    /\ None \notin UserPath \cup Seq(Names) \cup Handle

\* What is stored as attributes and link targets.
StatData == {Zero, Above} \cup {Version(p, v) : p \in UserPath, v \in 0 .. MaxVer}

ASSUME StatAssumption == None \notin StatData

\* What is below a path is in it or in what is below it.  When a path is replaced
\* in those below it, their directories change in the same way, and the names stay.
ASSUME BelowAssumption ==
    \A p, q \in UserPath \ {Root} :
        /\ p \notin Below(p) /\ Root \notin Below(p)
        /\ \A x \in UserPath \ {Root} : x \in Below(p) <=> Parent(x) \in {p} \cup Below(p)
        /\ \A x \in Below(p) :
            LET y == Moved(x, p, q)
            IN  y \in UserPath => /\ y \in Below(q) /\ Moved(y, q, p) = x
                                 /\ NameOf(y) = NameOf(x)
                                 /\ Parent(y) = Moved(Parent(x), p, q)

\* These choices are about renames.
ASSUME RenameAssumption == RenameOntoCached \/ RenameMayFail => "rename" \in Ops

\* The path the server sees behind a key.
Canon(k) == IF k \in UserPath THEN k ELSE Tail(k)

Ver(p) == Len(hist[p])

KindOf(p) == Last(hist[p]).kind

Empty(p) == \A q \in Children(p) : KindOf(q) = "none"

\* The path of an open handle whose path was removed, with something else under
\* it by then: libfuse has none, and answers all calls but the last itself.
Unlinked == <<>>

\* The server's paths in the domain of ks become what ks says.  The root has a
\* single version: what is cached for it is no subject of the properties.
Serve(ks) ==
    /\ \A p \in DOMAIN ks \ {Root} : Ver(p) < MaxVer
    /\ hist' = [p \in UserPath |-> IF p \in DOMAIN ks \ {Root}
                               THEN Append(hist[p], [at |-> now, kind |-> ks[p]])
                               ELSE hist[p]]

\* p becomes k, and the directory it is in gets a new version.
ServeEntry(p, k) == Serve([x \in {p, Parent(p)} |-> IF x = p THEN k ELSE "dir"])

\* The paths in S have just been changed by the mount itself; if renewed, they
\* name something else or nothing now.
Mine(S, renewed) ==
    changed' = [p \in UserPath |->
        IF p \notin S \ {Root} THEN changed[p]
        ELSE [attr |-> Ver(p) + 1,
              link |-> IF renewed THEN Ver(p) + 1 ELSE changed[p].link]]

Value(p) == Version(p, Ver(p))

-----------------------------------------------------------------------------
(* Plausible mistakes, used to show that the properties notice them. *)

\* Symlink targets forgotten by an invalidation.
Mut_InvalAll(c, p) ==
    [c EXCEPT !.attr = FileInvalidated(@, p, now),
              !.dir = FileInvalidated(@, p, now)]

\* Symlink targets forgotten by a rename.
Mut_RenameAll(c, p, q, lost) ==
    [c EXCEPT !.attr = FileRenamed(@, p, q, now),
              !.dir = FileRenamed(@, p, q, now)]

\* A hit stored again, and thereby made young again.
Mut_LookedAttr(c, p, v, grow) ==
    LET w == FilePeeked(c, p, now)
    IN  IF w = None /\ v = None THEN Evicted(c, now)
        ELSE FileGiven(FileTaken(c, p, now, grow), p,
                         IF w = None THEN v ELSE w, now)

\* An entry given back before it is written.
Mut_PutAttr(c, p, v, grow) ==
    FileGiven(FileTaken(c, p, now, grow), p, None, now)

\* An error of the server leaves the listing out of its cache's reach.
Mut_Settled(c, p, data, outcome) ==
    IF outcome = "eof" THEN FileGiven(c, p, data, now) ELSE c

\* A listing loses its last entry.
Mut_Collected(old, entries) ==
    old \o [i \in 1 .. Len(entries) - 1 |-> entries[i].name]

\* close() that keeps the mapping.
Mut_Unhandled(h, lost) == [g \in Handle |-> IF g \in lost THEN None ELSE handle_path[g]]

-----------------------------------------------------------------------------
(* The SFTP endpoint, as far as the calls below succeed *)

\* sftfs_sftp_getattr(): None for an error.  A handle h is asked by fstat, which
\* answers for the file opened, whatever the path names now; when that fails,
\* stat() of the path answers, as it does without a handle.
SftpGetattr(p, h) ==
    IF h \in orphans THEN Former(p)
    ELSE IF KindOf(p) = "none" THEN None ELSE Value(p)

\* sftfs_sftp_readlink().
SftpReadlink(p) == IF KindOf(p) = "link" THEN Value(p) ELSE None

SftpMake(p, k) ==
    /\ p # Root /\ KindOf(p) = "none" /\ KindOf(Parent(p)) = "dir"
    /\ ServeEntry(p, k)

\* sftfs_sftp_mkdir().
SftpMkdir(p) == SftpMake(p, "dir")

\* sftfs_sftp_symlink().
SftpSymlink(p) == SftpMake(p, "link")

\* sftfs_sftp_unlink().
SftpUnlink(p) == KindOf(p) \in {"file", "link"} /\ ServeEntry(p, "none")

\* sftfs_sftp_rmdir().
SftpRmdir(p) == p # Root /\ KindOf(p) = "dir" /\ Empty(p) /\ ServeEntry(p, "none")

\* sftfs_sftp_rename(): onto nothing, or, when the caller and the server allow
\* it, of a file or link onto one and of a directory onto an empty one.  What is
\* below a directory moves with it, as far as UserPath has room for it.
SftpRename(p, q) ==
    /\ p # q /\ p # Root /\ q # Root /\ q \notin Below(p)
    /\ KindOf(p) # "none" /\ KindOf(Parent(q)) = "dir"
    /\ KindOf(q) # "none" => (KindOf(p) = "dir" <=> KindOf(q) = "dir")
    /\ \A x \in Below(q) : KindOf(x) = "none"
    /\ \A x \in Below(p) : Moved(x, p, q) \in UserPath
    /\ LET from == {p} \cup {x \in Below(p) : KindOf(x) # "none"}
           to == {Moved(x, p, q) : x \in from}
       IN  Serve([x \in from \cup to \cup {Parent(p), Parent(q)} |->
                    IF x \in to THEN KindOf(Moved(x, q, p))
                    ELSE IF x \in from THEN "none" ELSE "dir"])

\* sftfs_sftp_chmod(), sftfs_sftp_chown(): the server follows a link p to t, which
\* is None when it leads out of the mounted directory.
SftpSetstat(p, t) ==
    /\ IF KindOf(p) = "link" THEN t # None => KindOf(t) \in {"file", "dir"}
       ELSE t = p /\ KindOf(p) # "none"
    /\ Serve([x \in {t} \cap UserPath |-> KindOf(x)])

\* sftfs_sftp_create(): opens the file, making it if need be.
SftpCreate(p) ==
    \/ KindOf(p) = "file" /\ UNCHANGED <<hist, changed>>
    \/ SftpMake(p, "file") /\ Mine({p}, TRUE)

\* sftfs_sftp_utimens().
SftpUtimens(p, t) == SftpSetstat(p, t)

\* sftfs_sftp_open(): access_flags may have O_TRUNC in them.
SftpOpen(p, trunc) ==
    KindOf(p) = "file" /\ IF trunc THEN Serve([x \in {p} |-> "file"]) ELSE UNCHANGED hist

\* The path that names the file behind h, if one does.
Written(h) == IF h \in orphans THEN {} ELSE {open[h]} \cap UserPath

\* sftfs_sftp_write(): the file behind h changes, also when the loop ends in an
\* error after its first turn.
SftpWrite(h) == Serve([p \in Written(h) |-> "file"])

\* sftfs_sftp_opendir().
SftpOpendir(p) == KindOf(p) = "dir"

\* The names a listing of p consists of.
Entries(p) ==
    IF KindOf(p) # "dir" THEN <<>>
    ELSE <<Dot, DotDot>>
         \o SetToSeq({NameOf(q) : q \in {r \in Children(p) : KindOf(r) # "none"}})

\* The attributes the server sends along with an entry of p.
EntryStat(p, name) ==
    IF p = Root /\ name = DotDot THEN Above ELSE Value(Canon(PushEntry(p, name)))

\* What sftfs_sftp_readdir() finds in the open directory d: a handle read again
\* goes on with what it was sent the first time.
Offered(d) ==
    IF d.st = "read" THEN d.rest
    ELSE LET names == Entries(d.path)
         IN  [i \in DOMAIN names |-> [name |-> names[i], stat |-> EntryStat(d.path, names[i])]]

-----------------------------------------------------------------------------
(* Helpers of cached.c *)

\* sftfs_cache_get_attr(): None for a miss.
GetAttr(c, p) == FilePeeked(c, p, now)

\* sftfs_cache_put_attr(): take, write, give.
PutAttr(c, p, v, grow) ==
    FileGiven(FileTaken(c, p, now, grow), p, v, now)

\* sftfs_cached_fetch_attr(), and on a miss sftfs_cached_store_attr() of the
\* server's answer v.
LookedAttr(c, p, v, grow) ==
    IF GetAttr(c, p) # None \/ v = None THEN Evicted(c, now)
    ELSE PutAttr(c, p, v, grow)

\* sftfs_cache_get_symlink(): None for a miss.
GetSymlink(c, p) == FilePeeked(c, p, now)

\* sftfs_cache_put_symlink(): an entry whose target finds no memory is dropped.
PutSymlink(c, p, v, grow, stored) ==
    LET taken == FileTaken(c, p, now, grow)
    IN  IF stored THEN FileGiven(taken, p, v, now) ELSE FileDropped(taken, p, now)

\* sftfs_cached_fetch_symlink(), sftfs_cached_store_symlink().
LookedSymlink(c, p, v, grow, stored) ==
    IF GetSymlink(c, p) # None \/ v = None THEN Evicted(c, now)
    ELSE PutSymlink(c, p, v, grow, stored)

\* sftfs_cached_inval_attr().
InvalAttr(c, p) == [c EXCEPT !.attr = FileInvalidated(@, p, now)]

\* sftfs_cached_inval_all().
InvalAll(c, p) ==
    [c EXCEPT !.attr = FileInvalidated(@, p, now),
              !.dir = FileInvalidated(@, p, now),
              !.symlink = FileInvalidated(@, p, now)]

\* sftfs_cached_inval_all_dir().  Nothing is cached under a path that is no key.
InvalAllDir(c, p) ==
    IF HasBaseDir(p) /\ InvalBaseDir(p) \in Path
    THEN InvalAll(InvalAll(c, p), InvalBaseDir(p))
    ELSE InvalAll(c, p)

\* sftfs_cached_rename_all(), which finds no memory for the new path in the
\* caches lost.
RenameAll(c, p, q, lost) ==
    [x \in DOMAIN c |-> IF x \in lost THEN FileRenameLost(c[x], p, now)
                        ELSE FileRenamed(c[x], p, q, now)]

\* sftfs_cache_peek_dir(): None when the handle is not valid.
PeekDir(c, p) == FilePeeked(c, p, now)

\* sftfs_cache_take_dir(): the cached listing as it is, if there is one, or a
\* new, empty one.
TakeDir(c, p, grow) == FileTaken(c, p, now, grow)

\* sftfs_cached_dir_exists().
DirExists(c, p) == PeekDir(c.dir, p) # None

\* Something is cached under p.
Cached(p) == \E c \in DOMAIN caches : FilePeeked(caches[c], p, now) # None

\* sftfs_cached_get_handled_path().
HandledPath(h) == handle_path[h]

\* sftfs_cached_handle_path(): a handle that has just been opened is not in the
\* map, so nothing is removed before it is inserted.
Handled(h, p) == [handle_path EXCEPT ![h] = p]

\* sftfs_cached_unhandle_path(): removal by hash takes entries behind h's in
\* its bucket along (HTable); lost are the handles of those.
Unhandled(h, lost) ==
    [g \in Handle |-> IF g = h \/ g \in lost THEN None ELSE handle_path[g]]

\* readdir_callee() of core.c takes names until its buffer has no room: the
\* names it is called with.  A run has buffers for one name and for all.
Passed(names, room) == SubSeq(names, 1, IF room < Len(names) THEN room + 1 ELSE Len(names))

Rooms == IF "full" \in Ops THEN {1, MaxNames} ELSE {MaxNames}

\* A chain may be reversed by a growth of its table (FileCacheOps), which shows
\* only when it can hold two entries: those of paths with one hash, or the two
\* that a rename onto a cached path leaves.
Growths ==
    IF RenameOntoCached \/ \E p, q \in Path : p # q /\ Hash[p] = Hash[q]
    THEN BOOLEAN ELSE {FALSE}

\* An entry of fetch_dir_entries_with_attr(), unless an earlier one has failed.
FetchEntry(a, p, name, grow) ==
    LET key == PushEntry(p, name)
        v == SftpGetattr(Canon(key), None)
    IN  IF ~ a.success THEN a
        ELSE [attr |-> LookedAttr(a.attr, key, v, grow),
              success |-> GetAttr(a.attr, key) # None \/ v # None]

\* fetch_dir_entries_with_attr(): every name of the cached listing goes through
\* getattr(), until one fails.
FetchWithAttr(attr, p, names, grow) ==
    LET upto[n \in 0 .. Len(names)] ==
            IF n = 0 THEN [attr |-> attr, success |-> TRUE]
            ELSE FetchEntry(upto[n - 1], p, names[n], grow)
    IN  upto[Len(names)]

\* sftfs_cached_fetch_dir_entries() for the open directory d.
FetchDirEntries(d, plus, grow, room) ==
    LET names == PeekDir(caches.dir, d.path)
    IN  IF d.st # "cached" \/ names = None
        THEN [attr |-> caches.attr, success |-> FALSE]
        ELSE IF plus THEN FetchWithAttr(caches.attr, d.path, Passed(names, room), grow)
        ELSE [attr |-> caches.attr, success |-> TRUE]

\* sftfs_cache_add_dir_entry() for the entries of one remote readdir.
Collected(old, entries) == old \o [i \in DOMAIN entries |-> entries[i].name]

\* The attributes cached_readdir_callee() stores for them: a stat structure that is
\* filled in only when attributes were asked for.
CalleeAttrs(attr, p, entries, plus, grow) ==
    LET upto[n \in 0 .. Len(entries)] ==
            IF n = 0 THEN attr
            ELSE PutAttr(upto[n - 1], PushEntry(p, entries[n].name),
                         IF plus THEN entries[n].stat ELSE Zero, grow)
    IN  upto[Len(entries)]

\* sftfs_cached_setup_dir_caching(): the listing the callback will append to,
\* and the cache it was taken from.
Setup(c, p, grow) ==
    LET taken == TakeDir(c, p, grow)
        data == taken[Hash[p]][HeldAt(taken, p)].data
    IN  [cache |-> taken, dir |-> IF data = None THEN <<>> ELSE data]

\* sftfs_cached_teardown_dir_caching(): a listing is given back also after an
\* error of the server; it is dropped when an entry could not be cached.
Settled(c, p, data, outcome) ==
    IF outcome = "nomem" THEN FileDropped(c, p, now)
    ELSE FileGiven(c, p, data, now)

-----------------------------------------------------------------------------
(* Operations on attributes and links *)

Init ==
    /\ \E kind \in [UserPath -> {"none", "file", "dir", "link"}] :
        /\ \A p \in UserPath : Children(p) # {} => kind[p] = "dir"
        /\ hist = [p \in UserPath |-> <<[at |-> 0, kind |-> kind[p]]>>]
    /\ caches = [attr |-> EmptyCache, dir |-> EmptyCache,
                 symlink |-> EmptyCache]
    /\ open = [h \in Handle |-> None]
    /\ orphans = {}
    /\ handle_path = [h \in Handle |-> None]
    /\ dirs = [x \in DirHandle |-> None]
    /\ now = 0
    /\ changed = [p \in UserPath |-> [attr |-> 0, link |-> 0]]

\* sftfs_cached_getattr(): libfuse passes the handle along when it was an open file
\* whose attributes the kernel asked for.  The root's attributes, which no property
\* is about, are asked for where the run says so.
Getattr(p, h) ==
    /\ "getattr" \in Ops
    /\ p = Root => "root" \in Ops
    /\ h # None => open[h] = p
    /\ \E grow \in Growths :
        caches' = [caches EXCEPT !.attr = LookedAttr(@, p, SftpGetattr(p, h), grow)]
    /\ UNCHANGED <<hist, files, dirs, now, changed>>

\* sftfs_access() of core.c decides on the attributes of getattr().
Access(p) == Getattr(p, None)

\* sftfs_cached_readlink().
Readlink(p) ==
    /\ "readlink" \in Ops
    /\ \E grow \in Growths, stored \in BOOLEAN :
        caches' = [caches EXCEPT !.symlink =
                    LookedSymlink(@, p, SftpReadlink(p), grow, stored)]
    /\ UNCHANGED <<hist, files, dirs, now, changed>>

\* What the cache is told after attributes were set under the path p, of t in
\* truth (the history variable leaves out what was reached through a link).
AttrSet(p, t) ==
    /\ "setattr" \in Ops
    /\ Mine({p} \cap {t}, FALSE)
    /\ caches' = InvalAttr(caches, p)
    /\ UNCHANGED <<files, dirs, now>>

\* sftfs_cached_chmod().  The kernel follows links beforehand.
Chmod(p) == KindOf(p) # "link" /\ SftpSetstat(p, p) /\ AttrSet(p, p)

\* sftfs_cached_chown().
Chown(p, t) == SftpSetstat(p, t) /\ AttrSet(p, t)

\* sftfs_cached_utimens().
Utimens(p, t) == SftpUtimens(p, t) /\ AttrSet(p, t)

\* sftfs_cached_mkdir().
Mkdir(p) ==
    /\ "mkdir" \in Ops
    /\ SftpMkdir(p) /\ Mine({p}, TRUE)
    /\ caches' = InvalAllDir(caches, p)
    /\ UNCHANGED <<files, dirs, now>>

\* sftfs_cached_symlink().
Symlink(p) ==
    /\ "symlink" \in Ops
    /\ SftpSymlink(p) /\ Mine({p}, TRUE)
    /\ caches' = InvalAllDir(caches, p)
    /\ UNCHANGED <<files, dirs, now>>

\* libfuse forgets the path p, and with it those of what is open below.
ForgetNode(p) ==
    LET S == {p} \cup Below(p)
    IN  /\ open' = [h \in Handle |-> IF open[h] \in S THEN Unlinked ELSE open[h]]
        /\ dirs' = [x \in DirHandle |->
                        IF dirs[x] # None /\ dirs[x].path \in S
                        THEN [dirs[x] EXCEPT !.st = "gone"] ELSE dirs[x]]

\* sftfs_cached_unlink().  libfuse asks for it only when the file is not open.
Unlink(p) ==
    /\ "unlink" \in Ops
    /\ \A h \in Handle : open[h] # p
    /\ SftpUnlink(p) /\ Mine({p}, TRUE)
    /\ caches' = InvalAllDir(caches, p)
    /\ ForgetNode(p)
    /\ UNCHANGED <<orphans, handle_path, now>>

\* sftfs_cached_rmdir().
Rmdir(p) ==
    /\ "rmdir" \in Ops
    /\ SftpRmdir(p) /\ Mine({p}, TRUE)
    /\ caches' = InvalAllDir(caches, p)
    /\ ForgetNode(p)
    /\ UNCHANGED <<orphans, handle_path, now>>

\* What is open at or below p is at or below q for libfuse now, which forgets what
\* was there.
MoveNode(p, q) ==
    LET S == {p} \cup Below(p)
        T == {q} \cup Below(q)
    IN  /\ open' = [h \in Handle |-> IF open[h] \in S THEN Moved(open[h], p, q)
                                    ELSE IF open[h] \in T THEN Unlinked ELSE open[h]]
        /\ dirs' = [x \in DirHandle |->
                        IF dirs[x] = None THEN None
                        ELSE IF dirs[x].path \in S
                             THEN [dirs[x] EXCEPT !.path = Moved(dirs[x].path, p, q)]
                        ELSE IF dirs[x].path \in T THEN [dirs[x] EXCEPT !.st = "gone"]
                        ELSE dirs[x]]

\* sftfs_cached_rename().  libfuse moves an open target away beforehand.  Only the
\* two paths are cached under other names; changed by the call are they, too.
Rename(p, q) ==
    /\ "rename" \in Ops
    /\ RenameOntoCached \/ ~ Cached(q)
    /\ \A h \in Handle : open[h] # q
    /\ SftpRename(p, q) /\ Mine({p, q}, TRUE)
    /\ \E lost \in IF RenameMayFail THEN SUBSET DOMAIN caches ELSE {{}} :
        caches' = RenameAll(caches, p, q, lost)
    /\ MoveNode(p, q)
    /\ UNCHANGED <<orphans, handle_path, now>>

-----------------------------------------------------------------------------
(* Open files *)

\* sftfs_cached_open(): the handle is mapped to its path.  Nothing is invalidated
\* when the file is truncated (nor is it a change for the history variable).
Open(p, h, trunc) ==
    /\ "open" \in Ops
    /\ SftpOpen(p, trunc) /\ open[h] = None
    /\ open' = [open EXCEPT ![h] = p]
    /\ handle_path' = Handled(h, p)
    /\ UNCHANGED <<caches, orphans, dirs, now, changed>>

\* sftfs_cached_create(): the handle is not mapped.
Create(p, h) ==
    /\ "create" \in Ops
    /\ open[h] = None
    /\ SftpCreate(p)
    /\ open' = [open EXCEPT ![h] = p]
    /\ caches' = InvalAllDir(caches, p)
    /\ UNCHANGED <<orphans, handle_path, dirs, now>>

\* sftfs_cached_write(): the file changes under whatever path it has now; the
\* attributes of the path the handle is mapped to are invalidated, unless the
\* server reported an error after a part was written (the history variable
\* leaves writes that invalidate nothing out).
Write(h, failed) ==
    /\ "write" \in Ops /\ open[h] \notin {None, Unlinked}
    /\ SftpWrite(h)
    /\ IF failed \/ HandledPath(h) = None
       THEN UNCHANGED <<changed, caches>>
       ELSE /\ Mine(Written(h), FALSE)
            /\ caches' = InvalAttr(caches, HandledPath(h))
    /\ UNCHANGED <<files, dirs, now>>

\* sftfs_cached_close().
Close(h) ==
    /\ open[h] # None
    /\ open' = [open EXCEPT ![h] = None]
    /\ orphans' = orphans \ {h}
    /\ \E lost \in SUBSET (Handle \ {h}) :
        /\ lost # {} => handle_path[h] # None
        /\ handle_path' = Unhandled(h, lost)
    /\ UNCHANGED <<hist, caches, dirs, now, changed>>

-----------------------------------------------------------------------------
(* Directories *)

\* sftfs_cached_opendir(): handle 0 when the listing is cached.  The root is opened
\* where the run says so.
Opendir(p, x) ==
    /\ "opendir" \in Ops
    /\ p = Root => "root" \in Ops
    /\ dirs[x] = None
    /\ \/ /\ DirExists(caches, p)
          /\ dirs' = [dirs EXCEPT ![x] = [path |-> p, st |-> "cached", rest |-> <<>>]]
       \/ /\ ~ DirExists(caches, p) /\ SftpOpendir(p)
          /\ dirs' = [dirs EXCEPT ![x] = [path |-> p, st |-> "unread", rest |-> <<>>]]
    /\ caches' = [caches EXCEPT !.dir = Evicted(@, now)]
    /\ UNCHANGED <<hist, files, now, changed>>

\* sftfs_cached_closedir().
Closedir(x) ==
    /\ dirs[x] # None
    /\ dirs' = [dirs EXCEPT ![x] = None]
    /\ UNCHANGED <<hist, files, caches, now, changed>>

\* A readdir that may happen: plain ones and repeated ones are part of a run by
\* choice.
ReaddirCalled(x, plus) ==
    /\ dirs[x] # None /\ dirs[x].st # "gone"
    /\ plus \/ "readdir" \in Ops
    /\ dirs[x].st = "read" => "rewind" \in Ops

\* sftfs_cached_readdir() answered from the cache, or by the error of the
\* remote opendir that the missing listing calls for.
ReaddirFetched(x, plus) ==
    /\ ReaddirCalled(x, plus)
    /\ \E grow \in Growths, room \in Rooms :
        LET f == FetchDirEntries(dirs[x], plus, grow, room)
        IN  /\ f.success \/ (dirs[x].st = "cached" /\ ~ SftpOpendir(dirs[x].path))
            /\ caches' = [caches EXCEPT !.attr = f.attr, !.dir = Evicted(@, now)]
    /\ UNCHANGED <<hist, files, dirs, now, changed>>

\* sftfs_cached_readdir() answered by the server, n entries of what the handle
\* has to offer; a handle that stands for a cached listing is opened for the
\* purpose and closed again.  outcome: "eof", the end was reached; "error", the
\* server failed after n entries; "nomem", the entry after the n-th could not
\* be cached; "nosetup", setup_dir_caching() failed.  Without it the caller's full
\* buffer ends the readdir, with it the rest is collected all the same.
ReaddirRemote(x, plus, outcome) ==
    /\ ReaddirCalled(x, plus)
    /\ outcome # "eof" => outcome \in Ops
    /\ \E grow \in Growths, room \in Rooms :
        LET d == dirs[x]
            f == FetchDirEntries(d, plus, grow, room)
            offered == Offered(d)
            ctx == Setup(caches.dir, d.path, grow)
        IN  /\ ~ f.success
            /\ d.st = "cached" => SftpOpendir(d.path)
            /\ \E n \in 0 .. Len(offered) :
                LET entries == SubSeq(offered, 1, n)
                    passed == IF outcome = "nomem" THEN n + 1 ELSE n
                IN  /\ outcome = "eof" => n = Len(offered)
                    /\ outcome = "nosetup" => n = Len(Passed(offered, room))
                    /\ outcome = "nomem" => n < Len(offered)
                    /\ Len(ctx.dir) + n <= MaxNames
                    /\ caches' =
                        IF outcome = "nosetup" THEN [caches EXCEPT !.attr = f.attr]
                        ELSE [caches EXCEPT
                                !.attr = CalleeAttrs(f.attr, d.path, entries, plus, grow),
                                !.dir = Settled(ctx.cache, d.path,
                                                Collected(ctx.dir, entries), outcome)]
                    /\ dirs' = IF d.st = "cached" THEN dirs
                               ELSE [dirs EXCEPT
                                        ![x].st = "read",
                                        ![x].rest = SubSeq(offered, passed + 1, Len(offered))]
    /\ UNCHANGED <<hist, files, now, changed>>

-----------------------------------------------------------------------------
(* The world around the mount *)

\* Another user of the server changes an object ...
OtherSetattr(p) ==
    /\ "other" \in Ops
    /\ KindOf(p) # "none" /\ Serve([x \in {p} |-> KindOf(p)])
    /\ UNCHANGED <<caches, files, dirs, now, changed>>

\* ... makes a file or a directory, or removes one.
OtherMakes(p, k) ==
    /\ "other" \in Ops
    /\ SftpMake(p, k)
    /\ UNCHANGED <<caches, files, dirs, now, changed>>

OtherRemoves(p) ==
    /\ "other" \in Ops
    /\ SftpUnlink(p) \/ SftpRmdir(p)
    /\ orphans' = orphans \cup {h \in Handle : open[h] = p}
    /\ UNCHANGED <<caches, open, handle_path, dirs, now, changed>>

Tick ==
    /\ now < MaxTime
    /\ now' = now + 1
    /\ UNCHANGED <<hist, caches, files, dirs, changed>>

Next ==
    \/ \E p \in UserPath :
        \/ Access(p) \/ Readlink(p) \/ Chmod(p)
        \/ \E h \in Handle \cup {None} : Getattr(p, h)
        \/ \E t \in UserPath \cup {None} : Chown(p, t) \/ Utimens(p, t)
        \/ Mkdir(p) \/ Symlink(p) \/ Unlink(p) \/ Rmdir(p)
        \/ \E q \in UserPath : Rename(p, q)
        \/ \E h \in Handle : Create(p, h) \/ \E trunc \in BOOLEAN : Open(p, h, trunc)
        \/ \E x \in DirHandle : Opendir(p, x)
        \/ OtherSetattr(p) \/ OtherRemoves(p)
        \/ \E k \in {"file", "dir"} : OtherMakes(p, k)
    \/ \E h \in Handle : Close(h) \/ \E failed \in BOOLEAN : Write(h, failed)
    \/ \E x \in DirHandle :
        \/ Closedir(x)
        \/ \E plus \in BOOLEAN :
            \/ ReaddirFetched(x, plus)
            \/ \E outcome \in {"eof", "error", "nomem", "nosetup"} :
                ReaddirRemote(x, plus, outcome)
    \/ Tick

Spec == Init /\ [][Next]_vars

-----------------------------------------------------------------------------
(* Properties *)

\* The entries of cache c that a call made now would still serve.
Served(c) ==
    UNION {{c[h][i] : i \in {j \in DOMAIN c[h] : c[h][j].st = "listed"
                                                /\ ~ Expired(c[h][j], now)}} :
            h \in HashVal}

\* Version i of p was the server's within the last age ticks.
Recent(p, i, age) == i = Ver(p) \/ now - hist[p][i + 1].at <= age

\* Type invariant: every entry that can be served holds a stat structure, a
\* link target of its own path, or a listing made of names.
TypeOK ==
    /\ \A p \in UserPath : KindOf(p) \in {"none", "file", "dir", "link"}
    /\ \A x \in Served(caches.attr) : x.data # None
    /\ \A x \in Served(caches.dir) : x.data \in Seq(Names)
    /\ \A x \in Served(caches.symlink) : x.data # None
    /\ \A h \in Handle : open[h] \in UserPath \cup {None, Unlinked}
    /\ orphans \subseteq {h \in Handle : open[h] # None}
    /\ \A h \in Handle : handle_path[h] \in UserPath \cup {None}
    /\ \A x \in DirHandle :
        dirs[x] # None => dirs[x].st \in {"cached", "unread", "read", "gone"}
    /\ now \in 0 .. MaxTime

\* Others have taken a file from p.
LostFile(p) ==
    \E i \in 2 .. Ver(p) : hist[p][i - 1].kind = "file" /\ hist[p][i].kind = "none"

\* The attributes and link targets served for a path other than the root are
\* those of that path, as they were within the last ttl: getattr() and
\* readdir() with attributes never make an old answer young again.  Only a path
\* that lost a file, which the mount may have had open, can have the attributes of
\* that file instead (getattr() asks an open handle, and stores under the path).
AttrBounded ==
    \A x \in Served(caches.attr) \cup Served(caches.symlink) :
        LET p == Canon(x.path)
        IN  p # Root =>
                \/ x.data.path = p /\ x.data.ver > 0 /\ Recent(p, x.data.ver, TTL)
                \/ x.data = Former(p) /\ LostFile(p)

\* The mount reads its own writes.  No attributes older than its own last change
\* of a path are served under that path (chmod(), chown(), utimens() of what is no
\* link, mkdir(), symlink(), unlink(), rmdir(), create(), and a successful write()
\* through a mapped handle), and no link target older than the last time it made
\* or removed what the path names: setting attributes forgets no link target.
\* Former files are excepted, as in AttrBounded.
ReadYourWrites ==
    /\ \A x \in Served(caches.attr) :
        x.path \in UserPath \ {Root} =>
            x.data = Former(x.path) \/ x.data.ver >= changed[x.path].attr
    /\ \A x \in Served(caches.symlink) :
        x.path \in UserPath \ {Root} => x.data.ver >= changed[x.path].link

\* A name missing from a cached listing was missing on the server at some
\* moment of the last ttl, however often the listing was taken, extended by
\* another reader and given back.
ListingComplete ==
    \A x \in Served(caches.dir) : \A q \in Children(x.path) :
        NameOf(q) \in Range(x.data)
        \/ \E i \in 1 .. Ver(q) : hist[q][i].kind = "none" /\ Recent(q, i, TTL)

\* The map of open handles names, for each handle in it, the path libfuse has for
\* the file: a handle value that is used again after close() never meets the path
\* of its previous owner, though create() maps none and removal by hash removes
\* more than one.
HandleMapSound ==
    \A h \in Handle :
        handle_path[h] # None => open[h] \in {handle_path[h], Unlinked}

\* No handler leaves an entry of a cache taken, whatever way it ends: an entry
\* without an owner would be neither served nor evicted again.  The exception is a
\* rename that finds no memory for the new path (file.c:174).
NothingHeld ==
    \A c \in DOMAIN caches : \A h \in HashVal :
        \A i \in DOMAIN caches[c][h] :
            caches[c][h][i].st \in {"listed"} \cup (IF RenameMayFail THEN {"lost"} ELSE {})

\* Nothing is served under a path that a call of the mount has removed or renamed
\* away, unless somebody made it anew: rename() moves what is cached in all three
\* caches, or, without memory, hides it.  That is so for the path the call names
\* (changed says which).  What is below a renamed directory stays cached under its
\* old path, but no path is served that did not exist within the last ttl.
\* Renaming onto a cached path, which leaves two entries, is left out of the run.
GoneNotServed ==
    \A p \in UserPath \ {Root} :
        /\ KindOf(p) = "none" /\ changed[p].link = Ver(p) => ~ Cached(p)
        /\ Cached(p) => \E i \in 1 .. Ver(p) : hist[p][i].kind # "none" /\ Recent(p, i, TTL)
=============================================================================
