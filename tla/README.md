# A TLA+ model of JFSfuse

JFSfuse is a JFS implementation in user space: it mounts a JFS image through
FUSE, and in writable builds changes it under a metadata journal. This
directory holds TLA+ modules of its parts, TLC models of them, and proofs that
TLAPS checks. Paths below are relative to the repository; `src/src/` is the
crate.

## The system

| part | source | how it interacts |
|---|---|---|
| transaction manager | `transaction.rs` | one transaction at a time; `commit()` flushes file data, journals the dirty pages, writes them home, flushes |
| log manager | `journal/logmgr.rs` | buffers records in units of two log pages; `flush_journal()` writes the pages, syncs, stores the end of the log in the logsuper |
| journal recovery | `journal/recovery.rs` | at mount: forward scan of the log, backward replay of committed after-images, `LOGREDONE` |
| mount, unmount | `volume.rs` | `mount()` checks the superblock, runs the recovery, checks the root and marks the volume `FM_DIRTY`; `umount()` flushes and marks it `FM_CLEAN` |
| volume operations | `volume.rs`, `inode.rs` | create, unlink, rename, write, ... : each begins a transaction, updates cached inode pages, marks them dirty, commits or aborts |
| page cache | `storage/mod.rs` | keyed by (inode, block); two inodes of one inode-table block have two copies of it |
| storage | `storage/*.rs` | image file with write, flush, sync; a fault injector for tests |
| block allocation map | `alloc/dmap.rs` | extents are taken from a free map; written back after each commit |
| extent tree, directory tree | `btree/*.rs` | inline B+-tree roots in the dinode |
| FUSE layer | `fuse/*.rs` | request dispatch, handles, lookup counts, POSIX and flock locks, interrupts |
| mkfs, jfsck, mount program | `mkfs.rs`, `bin/*.rs` | layout of a new image, checking and repair, process start |

Operations that change a volume run under the write lock of the `RwLock` in
`Fuse3Fs`; only those that read (getattr, read, readdir, access, ...) share it
and run at the same time. So an operation has the volume to itself, and the
concurrency that matters is that of a running operation with errors of the
storage, with a loss of power at any step, with what earlier operations left
in the cache and in the log, with the kernel's own view of handles and
entries, and with other programs on the same image, which nothing locks.

## Modules

* `TransactionManager` - pages, dirty list, commit and abort over a storage
  with a durable and a volatile part. Variables: the running transaction
  (`active`, `dirty_pages`, the place in `commit()`), the cache (`cached`,
  `page`, `dirty`), the inode-table blocks (`meta`, and `mdur`: per block every
  content a power loss may leave), counters of file data written and synced,
  and the journal reduced to buffered and durable records. Every storage and
  journal call of `commit()` is a step that may fail.
* `LogManager` - `append_log_record()`, `commit_transaction()` and
  `flush_journal()` with the real sizes in bytes. A log page is the set of
  records with bytes in it; a page write is atomic, a record on two pages is
  not. `ddur` and `sup_dur` hold what a power loss may leave.
* `JournalRecovery` - the backward replay: commit, mount, redo and no-redo
  records, page trackers, finalization, the `LOGREDONE` mark, and a power loss
  or an error at any step followed by another attempt.
* `JournaledVolume` - the composition: the steps of `commit()` that touch the
  image, `LogManager` (EXTENDS) and `JournalRecovery` (INSTANCE, its
  `LOGREDONE` mark substituted by the state of the log manager's logsuper) on
  one image file that loses power and is mounted again. The forward scan
  (`Scan`) reads the log pages as they are, so torn records and records of an
  earlier mount are seen as the code sees them.
* `Xtree` - the inline extent root: lookup, insert, truncate, punch and take as
  operators on a sequence of extents. A root is split, merged and cut as the
  code does it, with the slot limit and `nextindex` behind it.
* `FileSpace` - the operations of `volume.rs` that move blocks between the
  allocation map (`alloc/dmap.rs`) and the extents of files: write, truncate,
  fallocate, punch, move between files, unlink, create, fsync, sync, eviction,
  unmount and mount. One action per operation, since each has the write lock;
  its disjuncts are the ways it ends: committed, commit failed, aborted, or
  returned with the transaction left open. `inode` is what a read of the dinode
  returns (cache or disk), `disk` what a mount finds. `tainted` records the
  cases in which the code is known to break its own rules (the known defects
  below), so that the invariants say exactly where they hold.
* `Dtree` - the inline directory root: the sorted table, the slots and the
  chain of free slots, with insert, remove, lookup and entries.
* `Namespace` - the operations of `volume.rs` on names: create, mkdir, mknod,
  symlink, link, unlink, rmdir, rename, setattr, setxattr, open, release,
  fsync, sync, eviction and mount. The page cache is modelled with its copies
  per inode, LRU order and limit. An operation is a script (read, update a
  copy, mark it dirty) that ends in a commit, a failed commit with a prefix of
  its pages written, an abort, or an error that leaves the transaction open.
  `disk` is the inode table on the image, `cache` the copies, `hurt` names the
  cases behind which the code has no rule any more.
* `MountState` - the programs on an image as processes: the writable mount,
  `mount --ro` and all modes of `jfsck`, each step by step through
  `open_from_storage()`, the marks and their syncs, commits, the signal
  handler, `destroy()` and `umount()`. `fsstate`/`logstate` are the marks,
  `*_dur` what a power loss may leave of them, `unsynced` the kinds of writes
  it may drop, `torn` that an update has reached only some of its blocks,
  `prog` the processes with their program counters and what they read. `hurt`
  names what happened that the marks cannot survive.
* `FuseLayer` - the server and the kernel: the handle table, lookup counts and
  the volume's counts of open handles, which are kept per inode-table block,
  against the references (`known`) and handles (`held`) of the kernel. One
  action per handler, and one per way it fails half-way. `hurt` records the
  omissions after which the counts are off.
* `LockTable` - POSIX byte-range locks and flock locks of `fuse/mod.rs`, with
  the u64/i64 conversions of requests at a small width. Nothing dispatches
  these requests from the kernel with the FUSE library in use; they are the API
  that the tests call.
* `MC*` - constants for TLC. `TransactionManagerProofs`, `LockTableProofs`,
  `FuseLayerProofs` and `MountStateProofs` - the proofs.

Operators with the comment "Mutant of X" are faulty variants of X: replacing X
by them makes the property they are listed with in `PROJECT.json` fail. They
are used by nothing else.

## Model-checking runs

| run | result |
|---|---|
| `transactions` | three inodes in two blocks, two transactions, every call may fail, with and without a journal: write-ahead and ordered-data order, no dirty page outside a transaction, an acknowledged transaction is durable |
| `log_manager` | up to six records in three buffer units, every call may fail: records do not overlap, an acknowledged commit is stable, the stored end is never ahead, a commit record is never durable before its pages |
| `recovery` | all logs of up to four records over two transactions and two aggregates, one interruption: only committed images are written, the result is a function of the log, the replay ends |
| `volume` | up to seven records, three mounts, a power loss or error anywhere: nothing torn or undecided reaches a block; acknowledged blocks survive as long as no mount replays the log |
| `locks` | three owners, offsets of three bits so that sums wrap and negative starts convert: exclusion of POSIX and of flock locks, exact replies of `getlk()`, nobody's locks but the caller's change |
| `file_space` | two files, three free blocks, roots of two extents, one error or mount: truncate and take are exact for every reachable root whose split fits its slots, and outside the tainted cases no block has two owners or is both owned and free, and the free count is exact |
| `namespace` | three inodes in two table blocks, one of them shared with the root directory, two names, up to four changes, one error or mount: up to the cases in `hurt`, names lead to live inodes, link counts are exact, no inode is lost, directories form a tree, open inodes stay |
| `mount_state` | any program after any other, a `jfsck --read-only` beside them, one broken part or none, two faults: a writer is always marked, `FM_CLEAN` never stands over a torn update, readers write nothing, only sound volumes are marked, a signalled mount ends clean |
| `fuse_layer` | two inodes in one table block, three handles, one I/O error: the tables answer for every handle and entry of the kernel, and an open file is not freed |

and three runs in which TLC shows that the code does something else than its
comments or tests say (`findings` in `PROJECT.json`):

| run | what the code does |
|---|---|
| `unreplayed` | mkfs writes `LOGREDONE` and no mount ever changes it, so a journaled transaction is not recovered after a crash |
| `lost_entry` | a removed directory entry's slot is not put on the free list and the next insert may take the slot of a live entry |
| `handle_refused` | the handlers pass the opposite of the kind they need to the check of the handle, so reads, writes and readdirs on valid handles are refused |

### Known defects that the passing runs step around

The models contain these cases; the properties hold up to the first one that
happens (`tainted`, `hurt`).

* Replay writes every after-image of a block, the oldest last, since the page
  tracker never becomes complete (`journal/recovery.rs:749`), and the forward
  scan stops at the gap behind the first buffer unit (`:365`), so a replay can
  put an older image back.
* The replayed blocks and the `LOGREDONE` mark are synced together; a power
  loss can keep the mark alone, and the next mount skips the replay
  (`skipped`). `jfsck --repair` then clears `FM_DIRTY` over the torn update.
* Punching a hole into the middle of an extent gives the rest of the file the
  address of the hole (`btree/xtree.rs:541`).
* `create_file()` keeps the extents of the file that had the inode before
  (`volume.rs:1479`).
* The free map is stored in the wmap and loaded from the pmap
  (`alloc/dmap.rs:358`), so a mount finds the blocks of files free.
* Copies of one inode-table block are written one over the other (`copies`),
  and what an aborted or refused operation changed in the cache is published
  by a later one (`left`, `open`).
* `rename()` over an existing name orphans its inode (`orphan`); `rmdir()`
  frees an open directory (`opendir`); `setxattr()` on a directory writes over
  its root (`xattr`).
* `create()` ignores a failed open (`unopened`), `link()` answers with an entry
  that is not counted (`uncounted`).

Bounds. Two blocks, one of them shared by two inodes, are what the page cache
tells apart (own copy, other copy, storage). A buffer unit holds one full-page
record and some commit records, so three units see records in the middle of a
unit, at its end and after a failed flush. Four log records are enough for two
images of a block with both commits, or a no-redo record between them. Three
mounts let a log be written over an older one twice. With three owners two
readers stand against a writer; two locks of a file let an owner replace
both of its own by one. A root of two extents on three blocks reaches merges,
splits on both sides, full roots, a lost extent behind the last slot and a full
map; `Explored` stops a run behind the tainted cases it does not ask about,
where the free count has no bound. A rollback of freed blocks by a full
destination root would need a fourth block. `log_manager` and
`volume` do not check deadlock because they stop at their bounds, and
`recovery` because it stops when the volume is mounted. Three inodes in two blocks,
with a cache of two copies, let two copies of one block exist, evict each
other and be written in either order, and let a directory be moved below
another; four changes are enough to make, link, move and remove a name, and
two names are interchangeable. `namespace` stops at its bound, so it does not
check deadlock.

Two users of the image are enough for a reader beside any other program; the first user's programs follow each other, so every
program meets every image the others can leave. Two faults let a power loss
hit the mount that follows a power loss; one transaction is enough, since a
second begins where the first ended. One broken part at a time, as each stops
a program at a place of its own. Two inodes of one block and three handles
let a neighbour's handle stand for, or hide, the own one; the inodes of
`fuse_layer` are interchangeable (symmetry), which is sound as nothing in
the code orders them. It stops when the handles are used up, so it does not
check deadlock.

Fairness. `RecoveryEnds` (`recovery`) assumes weak fairness of the recovery
steps: the replay is a loop of the mounting process that waits for nobody.
`StopsClean` (`mount_state`) assumes weak fairness of the steps a process takes
by itself: its main thread wakes at least once a second to look at the signal
flag, and the threads of the session run a handler to its end without waiting
for another one. Requests, signals, unmounts from outside and faults are not
fair. `drop(session)` is assumed to return after the session has called
`destroy()`; that is the FUSE library's behaviour and not in this repository.

## Proofs

`TransactionManagerProofs` proves for every set of inodes, assignment of
inodes to blocks, number of transactions and data writes, with and without
journal and errors:

* `TypeCorrect` - `[]TypeOK`;
* `DirtyPagesAreOwned` - a dirty page is on the dirty list of the running
  transaction; inductive with `TypeOK`;
* `WriteAheadHolds` - from `JournalInv`: `WriteAhead` alone is not inductive,
  it needs that while `commit()` appends, the records of the pages before
  `idx` are buffered or durable, and while it writes, all are durable together
  with the commit record;
* `OrderedDataHolds` - from `OrderedInv`: cached pages refer only to written
  data, and from `flush_data()` to the end of `commit()` all written data is
  durable;
* `AcknowledgedIsDurable` - from `JournalInv` and `PublishInv`: the pages
  before `idx` are in place, possibly under a later copy of the same block,
  and after the last flush they are the only possible content.

`JournalInv`, `OrderedInv` and `PublishInv` are in `TransactionManager`. The
only assumption is that the block assignment is a function.

`LockTableProofs` proves for every set of files and owners, every odd
`U64_MAX` and every set of requests:

* `LockTypeCorrect`, `PosixExclusionHolds`, `FlockExclusionHolds`;
* `GetlkReplyExact` - from `LockLens`: a lock that does not run to the end of
  the file has a length that fits an i64, also when its end has wrapped, which
  is why the two conversions in `do_getlk()` are undone by `resolve_flock()`;
* `OthersKeptHolds` - an action property.

`LockInv`, their conjunction with `LockLens`, is inductive.

`FuseLayerProofs` proves for every finite set of inodes, every assignment of
inodes to table blocks and every bound on handles, entries, links and errors:

* `FuseTypeCorrect` - inductive as it stands;
* `HandlesAlwaysHeld` - with the type invariant, since a number is given out
  once: every held number is below `next_fh`;
* `LookupAlwaysCovered` - each handler that sends an entry counts it, and the
  saturating `forget()` takes away no more than the kernel gives back;
* `HeldAlwaysCounted` - an induction over cardinalities: opening adds one
  handle to the set of a block and one to its count, releasing takes one of
  each, a failing release takes the handle only. It needs `HandlesHeld`, so
  that a new handle is not one that is held already;
* `OpenNeverFreed` - an action property. The counts before a step (for
  `unlink()`) and after it (for `release()`) are above zero for the block of a
  held handle (`HeldKept`), and the two places that free a file look at them.

`MountStateProofs` proves for any users, any set of damaged images and any
number of commits and faults:

* `MountTypeCorrect`, from `Inv`: what a process must have checked on its way
  to its program counter (`Checked`) and which kinds of program get there;
* `ReadersNeverWrite` - an action property: by `Checked` a reader is never at
  a place that writes, and `recover_replay()` fails on its read-only file;
* `OnlySoundAreMarked` - an action property: three steps write `s_state`, and
  `Checked` says what lies behind each;
* `WriterAlwaysMarked` - with `Marked`, which adds the moment between the
  write of FM_DIRTY and its flush. It assumes `OneWriter`: at most one user
  runs programs that write. No code ensures it; without it `jfsck --repair`
  beside a mount clears the mark;
* `CleanIsAlwaysWhole` - under `OneWriter` too. `WholeInv` ties the image to
  the place of the one writer: blocks of an update wait for a sync only where
  it is going to sync them (`BusyPcs`), an update is torn only between its
  blocks or before the replay (`SoundPcs`), and FM_CLEAN excludes both.

Liveness (`RecoveryEnds`, `StopsClean`) is out of the prover's reach and is
only model-checked, as are the properties of `LogManager`, `JournalRecovery`,
`JournaledVolume`, `FileSpace` and `Namespace`.

## Not modelled

* Byte layouts and parsing (`types.rs`, the field accessors of `inode.rs`),
  ioctl probing and sector arithmetic, FUSE wire structures, the layout that
  mkfs writes: straight-line conversions without state of their own.
* `fuse/interrupt.rs`: no handler routes FUSE_INTERRUPT to it, and a request
  is registered only behind the handle check that refuses it.
* The cursor of `readdir`: `FuseLayer` shows that no handler reaches it. A
  readdirplus that did would send entries that nobody counts.
* Contents: attribute lists, times, owners, file data beyond which block holds
  it; a name takes one directory slot.
* A read error that `get_or_load()` turns into an empty page, and inodes that
  `allocate_inode()` finds in the 32 blocks behind the inode table.
* Two writing programs on one image at a time: nothing in the code prevents
  it, so there is no promise to check.
* A full log: `write_page()` has no bound and no code handles it.
* `alloc/imap.rs`, `find_syncpt()` and other helpers without a caller.

`PROJECT.json` lists every part with its status.
