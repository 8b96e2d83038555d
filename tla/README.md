# Verification of sftfs

TLA+ models of `sftfs`, a FUSE filesystem that mounts a directory of an SFTP
server, with model-checking runs for TLC and proofs for TLAPS. File names below
are relative to the repository; `cached.c:120` means `src/endp/cached.c`,
line 120.

## The system

    kernel -- libfuse -- core.c -- cached.h/cached.c -- sftp.c -- libssh -- server
                                     |  attr / dir / symlink cache   handle map
                                     |        file.c                    |
                                     |        cache.c                   |
                                     +--- list.c + htable.c ------- htable.c

| Part | State | Operations | What makes it correct |
|---|---|---|---|
| LRU list (`cache/list.c`) | head, tail, links and time stamps in the nodes, a debug counter | insert, remove, refresh, evict the expired head | the pointers are a list in both directions, in the order of the time stamps; nothing expires early, nothing expired hides behind a fresh head |
| hash table (`abs/htable.c`) | buckets, entry count | new entry (growing first), insert, lookup and lookup_next, remove, remove_hash, rehash, clear, iteration | every entry in the bucket of its hash, once; counted; found; growth loses nothing |
| generic cache (`cache/cache.c`) | a table and a list over the same entries | alloc, free, take, give, invalidate, rehash, peek, peek_next, clear | listed entries and taken entries are told apart; expired ones are gone before anything is looked up |
| file cache (`cache/file.c`) | the path in each entry | take, give, drop, peek, invalidate, rename | a map from paths to data with a time to live |
| attribute, directory, symlink cache (`cache/attr.c`, `dir.c`, `symlink.c`) | a `struct stat`, a list of names, a link target | get and put; take, fill, give | what is read is what was put |
| caching endpoint (`endp/cached.c`, `endp/cached.h`) | three caches, the map from handles to paths, the context of a readdir in progress | one wrapper per filesystem operation | what is served was true within the ttl; the mount reads its own writes; no exit of readdir forgets a taken entry |
| SFTP endpoint (`endp/sftp.c`) | the session, one buffer for the current absolute path | one request, or a loop of requests, per operation | the buffer names the path asked for; reads and writes move exactly the bytes they report, to their places; a rename that must not replace spares its target; every call returns |
| strings (`abs/str.c`) | size, capacity, characters | create, reserve, resize, extend, append, assign | terminated where the content ends, whatever was there before |
| FUSE handlers (`core.c`) | none | pass their arguments on | - |
| start-up (`main.c`, `ssh.c`) | options, session, endpoint | parse, connect, construct layer by layer, mount, tear down | connects as the command line says; every failure undoes what came before it |
| host key dialogue (`ssh_cli.c`) | four bytes of an answer | ask until "yes" or "no" | what the user answered decides |
| password prompt (`password_prompt.c`) | the password, the saved signal dispositions, `ongoing_prompt`, the dumpable flag | start, do, stop; a handler for every unsafe signal | the password is erased before a signal ends or stops the process, and on every way out; the process is left as it was |

The program is single-threaded (`main.c:225` adds `-s`), so the wrappers of
`cached.h` never overlap. What is hard in it: time passes and other users of the
server change files between any two calls; a cached answer is kept by three
caches under keys built from paths; allocations and requests fail half-way;
directories are read by several handles that share one cached listing; and the
list, the table and the caches hold pointers whose consistency shows only
after long sequences of calls. During the password prompt signals arrive between
any two steps.

## Modules

| Module | Models | Remarks |
|---|---|---|
| `LruQueue` | what the list promises: a queue with time stamps | abstract specification |
| `CacheList` | `list.c`, `list.h` pointer by pointer | operations are operators on a list value; actions apply them under the callers' contract |
| `CacheListHist` | `CacheList` with the history variable `order` | refinement mapping to `LruQueue` |
| `CacheListProofs` | theorems about the two above | |
| `Primes` | the list of primes and the sizes asked for | constants of the next three |
| `PrimeSearch`, `PrimeSearchProofs` | `prime_lower_bound()`, one action per turn of the loop | any non-decreasing list |
| `ChainTable` | what the table promises: per hash a chain, newest first | abstract specification |
| `HTable` | `htable.c`; a bucket is a sequence, a link a position in it | the operations of the caches and of the handle map in one specification, for any list of primes |
| `TableCreation` | `sftfs_htable_create()` as the search followed by the creation, and the life of the table after it | composes `PrimeSearch` and `HTable` |
| `HTableProofs` | theorems about the table, and that it is a `ChainTable` | |
| `Subsequence` | what a loop that removes entries leaves of a sequence | a recursive function, since `SelectSeq` is opaque to the provers |
| `FileCacheOps` | `cache.c` and `file.c` as operators on a cache value | a cache is the chains of `ChainTable`; the list appears as "listed" or "taken" and the time stamp of an entry, which is what `LruQueue` shows of it |
| `PathCache` | what a file cache promises: a map with a time to live | abstract specification |
| `FileCacheOpsProofs` | lemmas about the operations of `FileCacheOps`, for any data | used by the two proof modules below |
| `FileCache` | one file cache and its callers, with failing allocations | |
| `FileCacheProofs` | theorems about the file cache | |
| `PathOps` | the path arithmetic of `cached.c` on characters | the off-by-one of `cached.c:120` and the `//name` keys come from here |
| `CachedEndp` | the caching endpoint over three `FileCacheOps` caches and a server | server, other users and clock are the environment |
| `CachedEndpProofs` | theorems about the caching endpoint | |
| `StrOps` | `str.c`: the memory behind a string, cell by cell | operators only |
| `SftpEndp` | `sftp.c` request by request: path buffer, rename, read and write | server and other users are the environment |
| `PasswordPrompt` | `password_prompt.c` and the attempts of `ssh_cli.c`, one action per step of the main thread, one per delivery of a signal | |
| `Startup` | `main.c`, `ssh.c`, the dialogue of `ssh_cli.c`, construction and destruction of the endpoint | |
| `Mount` | the composition of the three above: a session from the command line to the unmounting | |
| `ConnectionProofs` | theorems about `Startup` and `PasswordPrompt` | |
| `MountProofs` | theorems about `SftpEndp` and about a session | |
| `MC...` | instances for TLC | |

**State and actions of `CachedEndp`.** `caches` holds the three caches,
`handle_path` the handle map, `dirs` the open directories (a handle of 0, i.e. a
cached listing, is `"cached"`; a remote one is `"unread"`, or `"read"` with the
entries the server has sent and readdir not delivered, names and attributes as they
were then; `"gone"` when libfuse has no path for it any more). `open` is the path
libfuse has for a handle (`Unlinked` when it has none), and `orphans` are the handles
whose file others have taken from that path: getattr through one of them answers for
the former file (`Former`), which is then cached under the path (`sftp.c:205`).
`hist` is the server: for each path the sequence of its versions, each with its kind
and the moment it began, and `changed` the versions that the mount's own last
invalidating operation produced, and the last one that made or removed what the path
names. A cached attribute or link target is the path and version it came from; a
cached listing is the sequence of names. Each wrapper of `cached.h` is one action;
`ReaddirFetched` and `ReaddirRemote` are the two halves of `sftfs_cached_readdir()`.
A rename takes what is below a directory along on the server and in libfuse
(`MoveNode`), but only the two named paths in the caches. A link leads to some path
of the mount or out of it; `chown()` and `utimens()` of a link change what it leads
to. The constant `Ops` selects which operations and failures a run contains. The
buffer the kernel offers to a readdir holds `room` names; the callback of `core.c`
is called once more when it is full.

**`TableCreation`.** While the search runs, `table` is a table created before, still
empty, as in `sftfs_cached_construct()`; `Create` replaces it by one of the size
found, `Use` is any operation of `HTable`. In `HTable` itself the answer of the
search is an operator (`PrimeLowerBound`), which growth uses as well.

**`SftpEndp`.** `curr_abs_path` is the string of `StrOps` that every handler cuts
back and extends. `call` is the rename, read or write in progress: one action for
its beginning, one for each request or turn of its loop, one for its return;
handlers with a single request are one action (`WithPath`). `tree` says which
object a path names, `data` what an open file contains; a byte carries who wrote it
and the position it is meant for. `asked`, and in a call `was`, `replaced`,
`skewed` (a seek failed) and `disturbed` (somebody else changed the file), are
history.

**`PasswordPrompt`.** `main` is the next step of the main thread, through
`sftfs_password_prompt_start()`, `_do()`, the callback and `_stop()`, with the loops
over the signals as `Cover` and `Uncover` (`sig`, `upto`). `disp` are the process's
dispositions, `prompt.handlers` the saved ones. `Deliver(s)` is a signal: the
default action, nothing, or `ErasingHandler(s)`. Every system call and allocation
may fail (`PromptFaults`); `lasting` remembers the failures whose effect the code
cannot undo. `proc.by` is the signal that ended or stopped the process.

**`Startup`.** `stage` is the place in `main()`. Arguments are handled one per step,
the answer to the host key question one line per step; `GetLine` is `get_line()`
with its three characters, and `stray` the newline it may find behind what it
read. `held` are the things allocated: `Acquire` adds the next of `Layers` or fails,
`Release` takes the last away. `build` is the build with or without
`SFTFS_CACHED`.

**`Mount`** runs them one after the other: `BeginAuthorization` and
`EndAuthorization` are the call of `handle_host_authorization()` and its return,
`BuildEndpoint` ends with the construction of the path buffer, the server is
observed from then on until `TearDown`. Variables of a part that is over are
reset.

## Runs

All properties are explained where they are defined. Each has a mutation of the
model (`Mut_...`) that makes TLC refute it.

| Run | What it asks | Bounds |
|---|---|---|
| `cachelist` | Is the list the queue of `LruQueue`, sorted, evicted neither early nor late? | 4 nodes (an inner node with two neighbours and one outside), ttl 1, clock to 4: every node can expire and be given again |
| `htable` | Does the search for a size end, in time and with the right prime? Is the table made of it consistent, its load bounded, and is it a `ChainTable`? | the first five primes, the last one twice as in the real list, and every size asked for from 0 to beyond the last; 6 entries: growth from 2 to 5 to 11 buckets and from 3 to 7; 4 hashes that collide pairwise, differently in each size |
| `htable_remove_hash` | Does remove_hash take the entries of its hash only? **Violated** | as above, created for size 0 |
| `filecache` | Is a file cache a `PathCache`? Is the entry found that is listed, and no other? | 3 paths, two of which collide; 2 values; ttl 1, clock to 3; renames only onto uncached paths |
| `filecache_rename` | Is an invalidated path gone, also after renames onto cached paths? **Violated** | as above |
| `cached_attr` | Are attributes and links bounded by the ttl and by the mount's own changes? Does the handle map stay true? | `/`, `/d`, `/d/f`; 2 handles; 3 versions per path; ttl 1, clock to 2; the attributes of the root are not asked for |
| `cached_dir` | Is a cached listing complete up to the ttl when two readers share it? | `/`, `/g`; 2 directory handles; ttl 1, clock to 2; listings up to 6 names (two full copies); buffers for one name and for all |
| `cached_fail` | Does every exit of every handler give back what it took? | `/`, `/d`, `/g`; 1 directory handle, 1 file handle; ttl 0, clock to 1; 2 versions; listings of up to 4 names; renames with and without memory |
| `cached_rename` | Is anything served under a path the mount removed or renamed away? | `/`, `/d`, `/d/f`, `/g`, `/g/f`: either directory can be renamed with what it contains; 1 file and 1 directory handle; ttl 0, clock to 1; renames only onto uncached paths |
| `mount` | Does the program connect as asked, obey the answer, erase the password in time, leave the process as it was, release everything, and do its calls do what they report? | about 130 command lines (9 targets, ports on both sides of their range, help, unknown options, in two orders); all pairs of 7 answers, whole and cut off; 5 signals; 2 password attempts; 2 mounted directories (one the root), 2 paths, 2 objects, 1 open file; files and transfers of up to 2 bytes at offsets 0 and 1 |
| `startup_target` | Is a target of the form the usage message gives understood? **Violated** | as `mount` |
| `startup_no` | Does the answer "no" end the dialogue? **Violated** | as `mount` |

A ttl of 1 with the clock running to at least 2 lets an entry be young, exactly
ttl old, and expired; a restamped entry is caught when the clock reaches 2. With
3 versions an object can be made, changed and removed. `MaxNames` stops the
growth of listings that readdir keeps appending to. No two keys have the same hash
in the runs of `CachedEndp`: collisions are the business of `FileCache`, and of the
proofs. A chain has at most one entry then, and a growth of its table, which reverses
chains, changes nothing; `Growths` leaves the choice out where it makes no difference
(the states are the same with it, the time twice as long). No property is
about what is cached for the root: `"root"` in `Ops` says whether the root itself is
opened and asked for, which only `cached_dir` does, where its listing is the subject.
Removal of directories is part of `cached_attr` and `cached_fail`, and of the
theorem `Gone`; `cached_rename` has `unlink()` and `rename()`, with which it is large
enough. Handles and directory handles are
symmetric in the runs that declare it.

In `mount` the signals are one that is safe, one of each default action, one
ignored from the start (as under `nohup`) and one with a handler of somebody else;
which number a signal has decides only the order of the loops. Two attempts
instead of `PASSWORD_ATTEMPTS` = 3 are enough for a second prompt to meet what the
first left. Two bytes in two turns are a short transfer and its continuation. A byte
is known by who wrote it and the position it is meant for; one in a gap and one
written after a failed seek are meant for none and are not told apart (`Stray`).

Deadlock is checked everywhere except in `mount` and the two runs with its
specification, where the program exits.

**Fairness.** `Mount` states weak fairness of the
next step of a call in progress (`Answered`): the code waits for nobody but the
server inside of a call, and the server answers. Turns of read and write that
fail are not part of the fair action, so that `CallsReturn` does not rest on an
error ending the loop. Everything else is safety; the filesystem waits for calls
and owes no progress, and nobody owes the prompt a password.

**What the refuted properties show.**
- `sftfs_htable_remove_hash()` removes all entries behind the first match in its
  bucket (`htable.c:263`); `test/ut/htable.c:118` says "removes all entries with
  same hash". The handle map forgets other open files this way, and writes to
  them no longer invalidate their attributes.
- `sftfs_cache_rename_file()` leaves an entry already cached under the new path
  in place (`file.c:165`); after an invalidation it is served again, contrary to
  `test/ut/cache/file.c:160-161`.
- `parse_target()` takes a target without `@` to begin at the null pointer plus one
  (`main.c:51`), although the usage message (`main.c:105`) and `README.md:38` make the
  user optional. `ConnectsAsAsked` shows that all other targets are taken apart
  rightly or refused.
- `get_line()` finds the newline of "no" in its four bytes and makes the line empty
  (`ssh_cli.c:28`): the question is asked again, and a later "yes" accepts the host,
  although the prompts offer "yes/no" and 'yes' or 'no' (`ssh_cli.c:39`, `:52`).
  `AnswerDecides` holds nevertheless, and would hold of a program that understood
  "no": a longer line that begins with "no" is a refusal, and nothing but "yes" accepts.

**Limits of the positive results.** `AttrBounded` excludes the root, whose
attributes are overwritten by those of the directory above it when it is listed
(`cached.c:367`), and runs with plain readdirs, which store zeroed attributes
(`cached.c:375`), and with repeated ones, which store what was sent earlier. A path
from which others took a file can be served the attributes of that file: getattr
through an open handle asks for the file behind the handle (`sftp.c:205`) and caches
the answer under the path; `AttrBounded` allows this only where it can happen
(`LostFile`).

`ReadYourWrites` speaks of the keys the users name; the `//name`
keys of the root's entries are missed by invalidation and fall under
`AttrBounded` only. Of link targets it says that they are no older than the time the
mount last made or removed the path, and no more: `chmod()`, `chown()`, `utimens()`
and `write()` invalidate attributes only, so that the target of a link that somebody
else has replaced by a file is served for its ttl even after the mount has changed
that file. (The attempt to prove the stronger form showed this; it takes more
versions of a path than the run has.) It leaves out changes that do not invalidate
the path they change, by design or mistake: writes that fail half-way or go through
unmapped handles, an open that truncates (`sftp.c:454`), and `chown()` or `utimens()`
of a link, which change its target (`sftp.c:374`, `:627`) and invalidate the link.
Listings are not invalidated in their directory's change at all (`cached.c:120`), so
there is no such property for them; a name that was removed can be listed as
long as readers keep restamping it. `sftfs_cache_take_dir()` hands out a listing
that is cached already without emptying it (`dir.c:42`), so that names are listed
twice after two opendirs; `ListingComplete` does not exclude that.

`GoneNotServed` holds of the paths a call names. What is below a renamed directory
stays cached under its old path (`cached.h:118`), for the time to live, which is its
second part. `HandleMapSound` is checked without renames, which leave the old path
in the map; it does not say that every open file is mapped (`create()` maps none).
`NothingHeld` names the one entry that is lost, by a rename that finds no memory
(`file.c:174`).

`ErasedInTime` speaks of builds with `NDEBUG` (`handling`): others switch the
handlers off (`ssh_cli.c:120`). It exempts the signals `is_safe_signal()` lists,
`SIGPOLL` (which is `SIGIO`) and `SIGPWR` among them although their default action
ends the process, and a stop signal that was handled once, whose default action
stays restored (`password_prompt.c:79`). `PromptLeavesNoTrace` exempts what a failed
`sigaction()`, `munlock()` or `prctl()` leaves, and a dumpable flag of 2, which the
kernel does not let a process set. `AnswerDecides` does
not say what becomes of a line that is just "no" (`NoRefuses` does), and excepts
dialogues in which `get_line()` met a newline behind its buffer (`strayed`). `AllReleased` names the three ways out that do leak: a failed
connection, a failed construction without the cache, and a failing `fuse_main()`.
`BytesInPlace` and `ReportsWhatItMoved` exempt transfers during which a seek
failed, which the code ignores (`sftp.c:474`). `NoReplaceKeeps` protects the target
that was there when the call began; one that appears between the two requests
(`sftp.c:328`) can be replaced.

## Proofs

Every theorem holds for all values of the constants that satisfy the named
assumptions of its module; TLC evaluates the assumptions in the runs. An inductive
invariant was checked on a run before it was proved.

**List** (`CacheListProofs`), for every set of nodes, every ttl and every bound of the
clock, from `NullAssumption` (the null pointer is no node) and `TimeAssumption`
(times are natural numbers):

- `ChainInvariant`: `IInv` holds always: there is a sequence `s` of nodes such
  that the pointers are exactly `s` (`Chain`) and the time stamps do not decrease
  along it (`Sorted`). None of the checked properties is inductive by itself,
  because what an operation does to one pointer depends on all the others being
  those of one list; the existence of `s` is what the induction carries. The
  lemmas `InsertedChain`, `RemovedChain` and `EvictionIsRemoval` say what the
  three pointer manipulations do to a chain, `UnlinkedMeansOutside` that
  `sftfs_cache_list_node_unlinked()` is membership, one `...Step` lemma per
  action puts them together.
- `TypeCorrect`, `HeadFreshCorrect`, `DecrementAssertCorrect`,
  `NoEarlyEvictionCorrect`: the properties of `cachelist`, from `IInv`.
- `HistoryInvariant`, `ListIsChainCorrect`, `HistoryCorrect`, `Refinement`: the chain
  is the order in which the nodes were given, the history variable blocks no
  step (`HistoryNeverBlocks`), and `CacheListHist` implements `LruQueue`.

**Binary search** (`PrimeSearchProofs`), for every non-empty list that does not decrease
and every target (`PrimeAssumption`, `OrderAssumption`, `TargetAssumption`). The
invariant `Interval` says that what lies left of the interval is too small and its
right end large enough (`Narrowing`), and that it is no longer than halving the list
once per turn leaves (`EndsInTime`); `TurnHalves` is the arithmetic of a turn.
Theorems `SearchTypes`, `SearchEnds`, `LowerBoundCorrect`.

**Hash table** (`HTableProofs`), for every set of entries, hashes and list of primes, from
`HashAssumption` (hashes are natural numbers, and the null link is neither a hash nor
an entry), `PrimeAssumption` (the list is not empty and has no zero), `TargetAssumption` and
`EntryAssumption`: there are no more entries than the largest listed table may hold.
The last prime of `htable_primes.h` is the largest below 2^64, more than there are
addresses; a shorter list would break the bound of the load and nothing else.

- The invariant is `TableInv`. `Holds(t, hs, A)` says that every bucket of `t` lists
  (`Listed`: each once, and no other) the entries of `A` whose hash selects it, and that
  `nr_entries` counts `A`; in `TableInv`, `A` is the set of the allocated entries, and the
  load is at most 3/4 of the buckets plus one. `Holds` is a statement about any table,
  because an operation passes through tables that are not states: one entry short
  between extraction and insertion, or half migrated. `InsertGives`, `ExtractGives`,
  `MovedGives` and `MigratedGives` say what each piece does to `A`, the last two by
  induction over the entries of a bucket and over the buckets (`UpTo`).
- `VisitedGives` follows `lookup` and `lookup_next`: the positions with the hash, in
  ascending order. `FindGives` concludes that `find_entry_link()` finds every entry of
  `A`, so the removal and the re-hashing the caches make are never refused.
- `TableTypes`, `InBuckets`, `Counts`, `Walks`: the properties of `htable`, from `TableInv`.
- `Iterates`: what lies before a position, in earlier buckets or earlier in its own,
  is what `next_entry()` has visited when it stands there (`Standing`); one step moves
  one entry on (`OnwardGives`), until the count of the entries is reached.
- `Implements`: the table is a `ChainTable`. `TableInv` does not speak of order, and
  needs not: the chain of a hash is determined by its entries and the order they have
  in their bucket (`OneChain`), and `Ahead(s, x, y)` says of two entries which comes first.
  Pushing, removing and cutting a bucket keep that order, a migration turns it around
  for every two entries of one hash (`Turned`), although it need not turn the bucket
  around. `PushedView`, `TakenView`, ... translate this into what a walk sees, and
  `ChainStep` maps every action to one of `ChainTable`.

**File cache** (`FileCacheOpsProofs`, `FileCacheProofs`), for every set of paths, hash function, set of data,
ttl and table size, from `FileCacheAssumption` and `DataAssumption`: the hash of a path
is a hash, times are natural numbers, and "no entry" (`None`) is no data, no path and
nothing a peek can see. The theorems have one hypothesis more, `StrEqDecides`: among paths with the
same hash none is the beginning of another one, because `str_eq()` compares the
length of the stored path only (`file.c:84`). Where paths violate it the cache can
answer with another path's entry; that hazard has no property.

- `Chains`: `FileCacheInv` holds always. It says of every chain (`ChainInv`) that its
  entries hash to it, that the caller's entry is the only taken one and has the
  caller's path, that what is listed has data, and, where nothing is renamed onto
  a cached path, that no path has two entries besides those that were lost. The
  uniqueness is what the properties lack to be inductive: to take an entry hides
  the path only if there is no second one.
- `Types`, `Reachable` need nothing else; `Misses`, `Hides` and `Implements` hold where
  nothing is renamed onto a cached path (`~ RenameOntoCached`), and the run
  `filecache_rename` shows that `Hides` fails otherwise.
- The argument: `Drawn` says that a sequence consists of some of the entries of
  another one; eviction (`UnexpiredGives`), growth of the table (`ReverseGives`) and
  removal (`RemoveAtGives`) draw, and what is drawn from a good chain is a good
  chain (`DrawnChain`). `PeekedIs` shows that the loop of `peek` and `peek_next` visits
  exactly the listed entries although `maybe_unlisted_entry()` cannot tell the only
  listed entry from an unlisted one, `FindGives` what `find_entry()` returns. One
  lemma per function of `file.c` (`FileTakenGives` ... `FileRenamedGives`) states the
  set of entries that are listed after it; the `...View` lemmas translate that into
  what a peek sees, and `AbstractStep` maps every action to one of `PathCache` or
  to a stutter.

**Caching endpoint** (`CachedEndpProofs`), for every finite set of paths, set of handles, hash
function, ttl, and bounds of the clock, the versions and the listings, from
`FileCacheAssumption`, `CachedAssumption` (paths are put together from names: each is
the path of its directory, a separator and a name, and the keys are the paths and the
`//name` keys of the root's entries; "no entry" is none of them and no handle),
`StatAssumption` ("no entry" is no attributes), `BelowAssumption` (what is below a
path is in it or in something below it, and replacing the path replaces it in all
of them alike) and `RenameAssumption` (choices about renames are made where there are
renames). Seven theorems state the seven properties of the four runs. Which
operations a property may be mixed with is part of the theorem: each hypothesis
names a member of `Ops` that breaks the property in the code.

| Theorem | Property | Hypotheses besides `StrEqDecides` | Because |
|---|---|---|---|
| `Typed` | `TypeOK` | | |
| `Released` | `NothingHeld` | | |
| `Mapped` | `HandleMapSound` | no rename | rename leaves the handle map as it is (`cached.h:118`) |
| `Bounded` | `AttrBounded` | no plain readdir, no handle read again, no rename | a plain readdir stores zeroed attributes (`cached.c:375`), a repeated one what the server sent earlier; a rename moves attributes to another path and stamps them anew |
| `OwnWrites` | `ReadYourWrites` | the same | the same |
| `Complete` | `ListingComplete` | no listing ends in an error, no handle is read again | a listing cut short is cached like a complete one (`cached.c:436`) |
| `Gone` | `GoneNotServed` | nobody else changes the tree, no handle is read again, no rename onto a cached path | a name read before its removal is stored after it, and so is the listing of an open directory that somebody else removed; and `filecache_rename` |

- `BaseInv` is what every run of the system satisfies, whatever its users do
  (`BaseAlways`): each of the three caches is a good one with nobody holding an entry
  (`CacheInv` of `FileCacheOpsProofs`, at attributes, listings and link targets), a
  listing consists of names of its own directory (`ListsNames`), what exists on the
  server is in a directory (`TreeInv`), a mapped handle is open (`FilesInv`), an open
  directory has the names of its directory yet to deliver (`DirsInv`), and the history is
  one of versions the server had (`HistInv`, `ChangedInv`). None of its parts is
  inductive alone: what a readdir stores is an entry of the right directory because the
  handle's rest is, that there is such a directory is a statement about the server, and
  that a key is a key (`KeyIs`, `KeyOfChild`) rests on how paths are made of names.
- Every step does one of two things (`BaseNext`): it `Reads`, that is, leaves the
  server alone and stores at most what the server says now (`FreshAttrs`, `FreshDirs`,
  `FreshLinks`), or it `Changes` the server, stores nothing, and forgets what the
  mount changed (`Forgets`). One `...Step` lemma per handler shows which, from the
  lemmas of `FileCacheOpsProofs` about single calls; `FetchUpTo` and `CalleeUpTo` do the
  loops over a listing by induction over its positions. Handlers are not looked at again
  after that.
- Each of the deeper properties is then one more invariant about entries, kept by
  `Reads` because what is stored is fresh and by `Changes` because time and versions
  only grow: `BoundedInv` (the version an entry has was the server's when it was
  stamped, `Dated`, or the entry is a former file's), `OwnInv`, `CompleteInv` (every name of the directory is listed or
  was missing at the stamp or later, `Accounts`), `GoneInv`. The properties themselves
  are not inductive, since they speak of the present: that an entry is `Recent` does not
  say that it will be a tick later, its stamp does.
- `LostInv` says that a handle whose file others took is open under a path that lost a
  file; without it an answer of such a handle could not be told from a mistake.
- `Gone` needs two: `GoneInv`, that nothing is cached under a path the mount's last
  naming left empty, and `StoodInv`, that an entry's path existed when the entry was
  stamped or later, which is all that can be said of the contents of a renamed
  directory.
- `Mapped` follows from `FilesInv`: a mapped handle is open, which is what makes it
  harmless that `create()` maps none.

The runs have hash functions without collisions, which satisfy `StrEqDecides`; the
theorems cover colliding keys that str_eq() tells apart.

**A session** (`MountProofs`; the parts around the filesystem are in `ConnectionProofs`). `Session` is the invariant `MountInv` of the composition: the
invariants of the three parts, and that the endpoint is untouched outside of
`fuse_main()` (`QuietOutside`). Every property of the run `mount` but `CallsReturn`
follows from it.

- `StartInv` (any command lines that are sequences of arguments, any typed
  characters: `StartAssumption`). `HeldInv` says for every stage what is allocated:
  the session and the first layers, in their order (`Stacked`). `ArgsInv` relates
  the options to the arguments handled so far (`TargetSeen`, `PortSeen`), `DialogueInv`
  the rest of the input to the lines read, none of which was an answer
  (`LinesLeft`). Theorems `Releases`, `Connects`, `Answers`.
- `PromptInv` (any number of signals and attempts, any set of safe signals and of
  signals ignored from the start: `PromptAssumption`). It says for every place of the
  main thread which signals are covered (`Covered`, by the position of the loop over
  them), what is saved for them, and that the password exists only while
  `ongoing_prompt` points to it. `ErasedInTime` is not inductive: whether a signal
  finds the handler depends on how far the loop has come. Theorems `Erases`,
  `HandlerHasPrompt`, `NoTrace`.
- `SftpInv` (any cells, directories, paths, objects, handles and sizes:
  `StrAssumption`, `SftpAssumption`). `PathBuf` says that the buffer has its capacity
  and begins with the directory, which makes `PathsAsAsked` inductive although
  earlier, longer paths stay behind the terminator; `TransferKept` that a transfer
  has moved the bytes before `done` to their places; `RenameKept` that a rename
  remembers what it saw. Theorems `Paths`, `NoReplace`, `InPlaceAlways`, `Reports`.
- `MountTypes`: the types.

**Only model-checked.** Termination of calls (`CallsReturn`): liveness is out of the
prover's reach. That `TableCreation` puts the search and the table together rightly.
Every other property a passing run checks is stated by a theorem.

## Not modelled

Conversion of attributes, error numbers and the numbers of `statfs`; memory
management of entries' data (a dropped listing is leaked, `file.c:142`); the
failure of a table's growth, which the code does not survive (`htable.c:111`);
the kernel's own caches; signals outside
of the password prompt; the choice of the endpoint at compile time; logging. In
`CachedEndp` a remote call that fails without effect is not a step; in `SftpEndp`
it is, because it changes the path buffer.

## Plan

1. (done) list, table, file cache, caching endpoint; proofs of list and search.
2. (done) `StrOps`, `SftpEndp`, `PasswordPrompt`, `Startup` and their composition
   `Mount`; full buffers of readdir.
3. (done) proofs of `FileCache`, with the refinement of `PathCache`, of `Mount` with its
   parts, and of `HTable`, with the refinement of `ChainTable`.
4. (done) proofs of `CachedEndp`. Its lemmas about single calls, formerly part of the
   proofs of `FileCache`, hold for any data (`FileCacheOpsProofs`), and the model keeps its
   listings with recursive functions, which the provers can unfold.

Left: the conversion of attributes and error numbers, and a listing cut short by an
error, which no property accounts for.
