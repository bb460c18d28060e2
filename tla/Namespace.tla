----------------------------- MODULE Namespace -----------------------------
(***************************************************************************)
(* Names and inodes: the operations of volume.rs that change directories,  *)
(* as scripts over the page cache.                                         *)
(*                                                                         *)
(* The cache is keyed by inode, and inodes of one inode-table block have   *)
(* copies of their own of the whole block.  A script reads inodes          *)
(* (Inode::read), updates copies (update_inode_page), puts copies on the   *)
(* dirty list (mark_page_dirty), and commits or aborts.  Only the copies   *)
(* on the dirty list are written, in its order; an abort or a failed       *)
(* commit leaves the copies in the cache as they are.  An operation has    *)
(* the volume to itself, so it is one action.                              *)
(*                                                                         *)
(* `want' of a script is what its updates, applied in order to the inodes  *)
(* on disk, give: what the transaction is meant to write.                  *)
(***************************************************************************)
EXTENDS Dtree

CONSTANTS
    Inodes,      \* positions of the inode table, in the order of the scan
    Root,        \* the root directory
    BlockOf,     \* the inode-table block of each
    Names,       \* names that callers use
    RootFree,    \* chain of free slots of the root directory on the image
    Capacity,    \* pages of the cache
    MaxOpen,     \* bound: handles open at a time
    MaxFaults,   \* bound: errors of the storage and mounts
    MaxChanges,  \* bound: steps that change the disk or the cache
    Explored     \* bound: values of `hurt' in which operations begin

\* "slot": insert() wrote over the slot of another entry.
\* "orphan": rename() replaced a name; the inode of it keeps its link count.
\* "copies": a commit did not write what the updates of the transaction say.
\* "left": a commit of an operation that began with changed copies of an
\*         earlier operation in the cache.
\* "torn": a failed commit wrote only some of its pages.
\* "open": sync() committed what an operation had left behind.
\* "neighbour": an inode without a name stays, as another inode of its block
\*              is open.
\* "dropped": the last handle of an inode without a name went with a mount,
\*            or with a release() whose commit failed.
\* "xattr": an attribute list was written over the directory root.
\* "opendir": rmdir() freed a directory that is open.
Hurts == {"slot", "orphan", "copies", "left", "torn", "open", "neighbour",
          "dropped", "xattr", "opendir"}

ASSUME NamespaceAssumption ==
    /\ Inodes \subseteq Nat \ {0} /\ Root \in Inodes
    /\ DOMAIN BlockOf = Inodes
    /\ Capacity \in Nat \ {0} /\ MaxOpen \in Nat /\ MaxFaults \in Nat
    /\ MaxChanges \in Nat
    /\ Explored \subseteq SUBSET Hurts

VARIABLES
    disk,      \* dinodes on disk
    cache,     \* copies of blocks, the most recently used first
    active,    \* an operation has left its transaction open
    dirty,     \* dirty list of that transaction
    handles,   \* open_handles: counts by block
    opened,    \* handles of each inode that are really open
    faults,    \* errors and mounts so far
    changes,   \* steps so far that changed the disk or the cache
    hurt       \* which of the cases above have happened

vars == <<disk, cache, active, dirty, handles, opened, faults, changes, hurt>>

Blocks == {BlockOf[i] : i \in Inodes}
InBlock(b) == {i \in Inodes : BlockOf[i] = b}
BlockOn(d, b) == [i \in InBlock(b) |-> d[i]]

FreeInode == [mode |-> "free", nlink |-> 0, numbered |-> FALSE,
              dt |-> EmptyDtRoot(<<>>, 0)]

\* The directory that mkfs makes: no entries, two links.
RootInode == [mode |-> "dir", nlink |-> 2, numbered |-> TRUE,
              dt |-> EmptyDtRoot(RootFree, Root)]

\* The dinode of a new directory: its slots hold "." and "..".
NewDir(d, i, p) ==
    [mode |-> "dir", nlink |-> 2, numbered |-> TRUE,
     dt |-> [slot |-> [d.dt.slot EXCEPT ![1] = LdtEntry(".", i),
                                        ![2] = LdtEntry("..", p)],
             stbl |-> <<1, 2>>, free |-> <<>>, idotdot |-> p]]

EmptyVolume == [i \in Inodes |-> IF i = Root THEN RootInode ELSE FreeInode]

\* A volume on which an earlier mount has made a directory.
Subdirectory(i, name) ==
    [EmptyVolume EXCEPT
        ![Root] = [@ EXCEPT !.nlink = @ + 1, !.dt = insert(@, name, i)],
        ![i] = NewDir(@, i, Root)]

Init ==
    /\ disk \in {EmptyVolume, Subdirectory(Min(Inodes),
                                           CHOOSE n \in Names : TRUE)}
    /\ cache = <<>>
    /\ active = FALSE
    /\ dirty = <<>>
    /\ handles = [b \in Blocks |-> 0]
    /\ opened = [i \in Inodes |-> 0]
    /\ faults = 0
    /\ changes = 0
    /\ hurt = {}

-----------------------------------------------------------------------------
(* The page cache and the transaction, as functions of the script so far *)

Begin == [disk |-> disk, cache |-> cache, dirty |-> <<>>, want |-> disk]

Places(s, i) == {k \in DOMAIN s.cache : s.cache[k].ino = i}
PlacesOfBlock(s, b) == {k \in DOMAIN s.cache : BlockOf[s.cache[k].ino] = b}
Place(s, i) == CHOOSE k \in Places(s, i) : TRUE

\* Any copy of the block: the one used last, or the disk.
peek_block(s, b) ==
    IF PlacesOfBlock(s, b) = {} THEN BlockOn(s.disk, b)
    ELSE s.cache[Min(PlacesOfBlock(s, b))].data

\* find_inode_page() finds the number of the inode in its block.
Found(s, i) == i \in Inodes /\ peek_block(s, BlockOf[i])[i].numbered

\* Inode::read: the copy of this inode, or the disk.
Read(s, i) ==
    IF Places(s, i) = {} THEN s.disk[i] ELSE s.cache[Place(s, i)].data[i]

Dir(s, i) == Read(s, i).dt
IsDir(s, i) == Read(s, i).mode = "dir"

Used(s, i) ==
    LET k == Place(s, i) IN <<s.cache[k]>> \o RemoveAt(s.cache, k)

\* Mutant of InLimit: the cache has no limit.
InNoLimit(q) == q

InLimit(q) == SubSeq(q, 1, Min({Capacity, Len(q)}))

\* What get_or_load() puts into a new entry.
LoadedCopy(s, i) == peek_block(s, BlockOf[i])

\* A new entry pushes the least recently used one out, dirty or not.
get_or_load(s, i) ==
    IF Places(s, i) # {} THEN [s EXCEPT !.cache = Used(s, i)]
    ELSE [s EXCEPT !.cache = InLimit(
              <<[ino |-> i, data |-> LoadedCopy(s, i), dirty |-> FALSE]>>
              \o s.cache)]

\* A page with another dinode at one of its positions.
Put(page, i, d) == [j \in DOMAIN page |-> IF j = i THEN d ELSE page[j]]

update_inode_page(s, i, change(_)) ==
    [get_or_load(s, i) EXCEPT
        !.cache[1].data = Put(@, i, change(@[i])),
        !.want = Put(@, i, change(@[i]))]

\* Only an entry that is there gets the flag; the list gets the key anyway.
mark_page_dirty(s, i) ==
    LET t == IF Places(s, i) = {} THEN s
             ELSE [s EXCEPT !.cache =
                       [Used(s, i) EXCEPT ![1].dirty = TRUE]]
    IN  IF i \in Range(s.dirty) THEN t ELSE [t EXCEPT !.dirty = Append(@, i)]

\* storage.write_block()
write_block(d, data) ==
    [i \in Inodes |-> IF i \in DOMAIN data THEN data[i] ELSE d[i]]
WriteCopy(s, d, i) ==
    IF Places(s, i) = {} THEN d ELSE write_block(d, s.cache[Place(s, i)].data)

\* The disk after the copies of a list of inodes are written, in this order.
Written(s, list) == FoldLeft(LAMBDA d, i : WriteCopy(s, d, i), s.disk, list)

\* The cache after a commit: what was written is dropped.
Released(s) == SelectSeq(s.cache, LAMBDA e : e.ino \notin Range(s.dirty))

\* The cache after abort() or abort_pages(): the copies are no longer dirty,
\* and stay.
Unmarked(s) ==
    FoldLeft(LAMBDA c, i :
                 IF Places([cache |-> c], i) = {} THEN c
                 ELSE [Used([cache |-> c], i) EXCEPT ![1].dirty = FALSE],
             s.cache, s.dirty)

\* Copies of earlier operations that differ from the disk.
Leftovers(s) ==
    \E k \in DOMAIN s.cache : \E i \in DOMAIN s.cache[k].data :
        s.cache[k].data[i] # s.disk[i]

When(condition, h) == IF condition THEN {h} ELSE {}

-----------------------------------------------------------------------------
(* How a script ends *)

\* commit_transaction(), abort_transaction(), or an error that is returned
\* with the transaction open.
\* `failed' is what a failing commit hurts.
Commit(s, h) == [end |-> "commit", s |-> s, hurt |-> h, failed |-> {}]
Abort(s) == [end |-> "abort", s |-> s]
Open(s) == [end |-> "open", s |-> s]

Fault == faults < MaxFaults /\ faults' = faults + 1

CommitOk(s, h) ==
    /\ disk' = Written(s, s.dirty)
    /\ cache' = Released(s)
    /\ hurt' = hurt \cup h \cup When(Leftovers(Begin), "left")
                    \cup When(disk' # s.want, "copies")
    /\ UNCHANGED faults

\* The storage fails before page n + 1 of the dirty list is written, or when
\* all are.
CommitErr(s, h, failed, n) ==
    /\ Fault
    /\ disk' = Written(s, SubSeq(s.dirty, 1, n))
    /\ cache' = Unmarked(s)
    /\ hurt' = hurt \cup failed
                    \cup (IF n = 0 THEN {}
                          ELSE h \cup When(Leftovers(Begin), "left"))
                    \cup When(disk' # disk /\ disk' # s.want, "torn")

\* An operation whose begin_transaction() succeeds and whose script is r.
\* Otherwise it returns an error and nothing changes.
Perform(r) ==
    /\ ~active
    /\ \/ /\ r.end = "commit"
          /\ \/ CommitOk(r.s, r.hurt)
             \/ \E n \in 0 .. Len(r.s.dirty) :
                   CommitErr(r.s, r.hurt, r.failed, n)
          /\ UNCHANGED <<active, dirty>>
       \/ /\ r.end = "abort"
          /\ cache' = Unmarked(r.s)
          /\ UNCHANGED <<disk, active, dirty, faults, hurt>>
       \/ /\ r.end = "open"
          /\ active' = TRUE
          /\ dirty' = r.s.dirty
          /\ cache' = r.s.cache
          /\ UNCHANGED <<disk, faults, hurt>>

-----------------------------------------------------------------------------
(* Scripts *)

\* The first position with a zero mode, as any copy of its block shows it.
Unused(s) == {i \in Inodes : peek_block(s, BlockOf[i])[i].mode = "free"}
allocate_inode(s) == Min(Unused(s))

SetDir(s, p, dt) == update_inode_page(s, p, LAMBDA d : [d EXCEPT !.dt = dt])

\* The link count of an inode, changed from what its copy holds.
AddLink(s, i) ==
    update_inode_page(s, i, LAMBDA d : [d EXCEPT !.nlink = @ + 1])
DropLink(s, i) ==
    update_inode_page(s, i, LAMBDA d : [d EXCEPT !.nlink = @ - 1])
SetLinks(s, i, n) ==
    update_inode_page(s, i, LAMBDA d : [d EXCEPT !.nlink = n])
FreeIt(s, i) ==
    update_inode_page(s, i, LAMBDA d : [d EXCEPT !.mode = "free", !.nlink = 0])

saturating_sub(n, k) == IF n < k THEN 0 ELSE n - k

insert_dir_entry(s, p, name, i) == SetDir(s, p, insert(Dir(s, p), name, i))
remove_dir_entry(s, p, name) == SetDir(s, p, remove(Dir(s, p), name))

\* The dinode of anything else: the union area is left as it is.
NewOther(d) ==
    [d EXCEPT !.mode = "other", !.nlink = 1, !.numbered = TRUE]

\* The common script of create_file(), mkdir(), mknod() and symlink().
NewEntry(p, name, new(_, _), finish(_)) ==
    LET s0 == Begin
        i == allocate_inode(s0)
        s1 == mark_page_dirty(
                  update_inode_page(s0, i, LAMBDA d : new(d, i)), i)
        s2 == finish(insert_dir_entry(s1, p, name, i))
    IN  IF Unused(s0) = {} THEN Open(s0)
        ELSE IF ~Found(s1, p) THEN Open(s1)
        ELSE IF ~CanInsert(Dir(s1, p), name) THEN Abort(s1)
        ELSE Commit(mark_page_dirty(s2, p),
                    When(OverwritesEntry(Dir(s1, p)), "slot"))

CreateScript(p, name) ==
    NewEntry(p, name, LAMBDA d, i : NewOther(d), LAMBDA s : s)

\* Mutant of MkdirScript: the parent does not get the link of "..".
MkdirNoLink(p, name) ==
    NewEntry(p, name, LAMBDA d, i : NewDir(d, i, p), LAMBDA s : s)

MkdirScript(p, name) ==
    NewEntry(p, name, LAMBDA d, i : NewDir(d, i, p), LAMBDA s : AddLink(s, p))

\* The entry is removed before the child is looked at.
RmdirScript(p, name) ==
    LET i == lookup(Dir(Begin, p), name)
        s1 == remove_dir_entry(Begin, p, name)
        s2 == mark_page_dirty(FreeIt(s1, i), i)
        s3 == mark_page_dirty(DropLink(s2, p), p)
    IN  IF i = NoEntry THEN Abort(Begin)
        ELSE IF ~Found(s1, i) THEN Open(s1)
        ELSE IF ~IsDir(s1, i) THEN Abort(s1)
        ELSE IF next_index(Dir(s1, i)) > 2 THEN Abort(s1)
        ELSE IF ~Found(s2, p) THEN Open(s2)
        ELSE Commit(s3, When(opened[i] > 0, "opendir"))

has_open_handles(b) == handles[b] > 0

\* Mutant of ShouldFree: open handles are not looked at.
ShouldFreeAlways(i, n) == n = 0

\* Mutant of ShouldFree: the last link but one counts as the last.
ShouldFreeEarly(i, n) == n <= 1 /\ ~has_open_handles(BlockOf[i])

ShouldFree(i, n) == n = 0 /\ ~has_open_handles(BlockOf[i])

UnlinkScript(p, name) ==
    LET i == lookup(Dir(Begin, p), name)
        s1 == remove_dir_entry(Begin, p, name)
        n == saturating_sub(Read(s1, i).nlink, 1)
        s2 == mark_page_dirty(IF ShouldFree(i, n) THEN FreeIt(s1, i)
                              ELSE SetLinks(s1, i, n), i)
    IN  IF i = NoEntry THEN Abort(Begin)
        ELSE IF ~Found(s1, i) THEN Open(s1)
        ELSE IF IsDir(s1, i) THEN Abort(s1)
        ELSE IF ~Found(s2, p) THEN Open(s2)
        ELSE Commit(mark_page_dirty(s2, p),
                    When(n = 0 /\ ~ShouldFree(i, n) /\ opened[i] = 0,
                         "neighbour"))

LinkScript(p, name, i) ==
    LET n == Read(Begin, i).nlink + 1
        s1 == insert_dir_entry(Begin, p, name, i)
        s2 == mark_page_dirty(SetLinks(s1, i, n), i)
    IN  IF IsDir(Begin, i) THEN Abort(Begin)
        ELSE IF ~CanInsert(Dir(Begin, p), name) THEN Abort(Begin)
        ELSE IF ~Found(s2, p) THEN Open(s2)
        ELSE Commit(mark_page_dirty(s2, p),
                    When(OverwritesEntry(Dir(Begin, p)), "slot"))

\* Whether rename() may replace what is there: a file by a file, and a
\* directory by one without any entry, "." and ".." included.
MayReplace(s, child_is_dir, dest) ==
    /\ child_is_dir <=> IsDir(s, dest)
    /\ child_is_dir => next_index(Dir(s, dest)) = 0

\* Mutant of MoveDirectory: idotdot stays.
MoveCounts(s, i, from, to) ==
    LET s1 == mark_page_dirty(DropLink(s, from), from)
    IN  mark_page_dirty(AddLink(s1, to), to)

\* The last steps of a move between directories, for a directory: its
\* idotdot, and the link counts of both parents.
MoveDirectory(s, i, from, to) ==
    LET s1 == mark_page_dirty(
                  update_inode_page(s, i,
                      LAMBDA d : [d EXCEPT !.dt.idotdot = to]), i)
        s2 == mark_page_dirty(
                  update_inode_page(s1, from,
                      LAMBDA d : [d EXCEPT !.nlink = saturating_sub(@, 1)]),
                  from)
    IN  mark_page_dirty(AddLink(s2, to), to)

\* The name in the other directory is removed before it is looked at.
RenameAcross(from, old, to, new) ==
    LET i == lookup(Dir(Begin, from), old)
        is_dir == IsDir(Begin, i)
        dest == lookup(Dir(Begin, to), new)
        s1 == IF dest = NoEntry THEN Begin
              ELSE remove_dir_entry(Begin, to, new)
        s2 == IF dest # NoEntry /\ BlockOf[dest] = BlockOf[to]
              THEN mark_page_dirty(s1, to) ELSE s1
        s3 == mark_page_dirty(insert_dir_entry(s2, to, new, i), to)
        s4 == mark_page_dirty(remove_dir_entry(s3, from, old), from)
        s5 == IF is_dir THEN MoveDirectory(s4, i, from, to) ELSE s4
    IN  IF dest # NoEntry /\ ~Found(s1, dest) THEN Open(s1)
        ELSE IF dest # NoEntry /\ ~MayReplace(s1, is_dir, dest) THEN Abort(s1)
        ELSE IF ~CanInsert(Dir(s2, to), new) THEN Abort(s2)
        ELSE IF ~Found(s3, from) THEN Open(s3)
        ELSE Commit(s5, When(OverwritesEntry(Dir(s2, to)), "slot")
                        \cup When(dest # NoEntry, "orphan"))

\* One change of the directory; whether insert() succeeded is not looked at.
RenameWithin(p, old, new) ==
    LET i == lookup(Dir(Begin, p), old)
        dest == lookup(Dir(Begin, p), new)
        d1 == IF old = new THEN Dir(Begin, p) ELSE remove(Dir(Begin, p), old)
        d2 == remove(d1, new)
        d3 == IF CanInsert(d2, new) THEN insert(d2, new, i) ELSE d2
    IN  IF dest # NoEntry /\ ~MayReplace(Begin, IsDir(Begin, i), dest)
        THEN Abort(Begin)
        ELSE Commit(mark_page_dirty(SetDir(Begin, p, d3), p),
                    When(OverwritesEntry(d2), "slot")
                    \cup When(dest # NoEntry /\ old # new, "orphan"))

RenameScript(from, old, to, new) ==
    LET i == lookup(Dir(Begin, from), old)
    IN  IF i = NoEntry THEN Abort(Begin)
        ELSE IF ~Found(Begin, i) THEN Open(Begin)
        ELSE IF from # to THEN RenameAcross(from, old, to, new)
        ELSE RenameWithin(from, old, new)

\* Mutant of ReleaseScript: the inode stays.
ReleaseKeeps(i, count) == Commit(Begin, {})

ReleaseScript(i, count) ==
    LET last == Read(Begin, i).nlink = 0 /\ opened[i] = 1
        s1 == mark_page_dirty(
                  update_inode_page(Begin, i,
                      LAMBDA d : [d EXCEPT !.mode = "free"]), i)
        r == IF Read(Begin, i).nlink = 0 /\ count = 0 THEN Commit(s1, {})
             ELSE Commit(Begin, When(last, "neighbour"))
    IN  [r EXCEPT !.failed = When(last, "dropped")]

\* setattr(): permissions, owner and times are left out.
SetattrScript(i) ==
    Commit(mark_page_dirty(update_inode_page(Begin, i, LAMBDA d : d), i), {})

\* fsync() marks the page without changing it.
FsyncScript(i) == Commit(mark_page_dirty(Begin, i), {})

\* setxattr() and removexattr() clear the first 128 bytes of the union area;
\* the header of the directory root is in the last 32 of them.
XattrScript(i) ==
    LET clear(d) == [d EXCEPT !.dt.stbl = <<>>, !.dt.free = <<>>,
                              !.dt.idotdot = 0]
    IN  Commit(mark_page_dirty(update_inode_page(Begin, i, clear), i),
               When(IsDir(Begin, i), "xattr"))

-----------------------------------------------------------------------------
(* Operations *)

Kept == UNCHANGED <<handles, opened>>

\* Inodes that callers know: the root, and what is open or has a name now.
Readable == {i \in Inodes : Found(Begin, i) /\ Read(Begin, i).mode # "free"}
Named == {e.ino : e \in {x \in UNION {Range(entries(Dir(Begin, p))) :
                              p \in {q \in Readable : IsDir(Begin, q)}} :
                            x.name \notin {".", ".."}}}
Known == {i \in Readable : i = Root \/ opened[i] > 0 \/ i \in Named}

create_file(p, name) == Perform(CreateScript(p, name)) /\ Kept
mknod(p, name) == Perform(CreateScript(p, name)) /\ Kept
symlink(p, name) == Perform(CreateScript(p, name)) /\ Kept
mkdir(p, name) == Perform(MkdirScript(p, name)) /\ Kept
rmdir(p, name) == Perform(RmdirScript(p, name)) /\ Kept
unlink_file(p, name) == Perform(UnlinkScript(p, name)) /\ Kept

\* Callers link inodes that have a name.
link_file(p, name, i) ==
    /\ Read(Begin, i).nlink > 0
    /\ Perform(LinkScript(p, name, i))
    /\ Kept

\* Directories above p, by the names on the way, and p itself.
ParentsOf(s, p) ==
    {q \in Readable : IsDir(s, q) /\ \E k \in DOMAIN Dir(s, q).stbl :
        LET e == entries(Dir(s, q))[k]
        IN  e.ino = p /\ e.name \notin {".", ".."}}
Above(s, p) ==
    LET up[n \in 0 .. Cardinality(Inodes)] ==
          IF n = 0 THEN {p}
          ELSE up[n - 1] \cup UNION {ParentsOf(s, q) : q \in up[n - 1]}
    IN  up[Cardinality(Inodes)]

\* The kernel does not move a directory below itself.
rename(from, old, to, new) ==
    /\ LET i == lookup(Dir(Begin, from), old)
       IN  i # NoEntry /\ IsDir(Begin, i) => i \notin Above(Begin, to)
    /\ Perform(RenameScript(from, old, to, new))
    /\ Kept

open_file(i) ==
    /\ FoldFunction(+, 0, handles) < MaxOpen
    /\ handles' = [handles EXCEPT ![BlockOf[i]] = @ + 1]
    /\ opened' = [opened EXCEPT ![i] = @ + 1]
    /\ UNCHANGED <<disk, cache, active, dirty, faults, hurt>>

\* The count goes down first; with a transaction left open the inode is then
\* not looked at.
release_file(i) ==
    LET count == saturating_sub(handles[BlockOf[i]], 1)
    IN  /\ opened[i] > 0 /\ Found(Begin, i)
        /\ handles' = [handles EXCEPT ![BlockOf[i]] = count]
        /\ opened' = [opened EXCEPT ![i] = @ - 1]
        /\ \/ Perform(ReleaseScript(i, count))
           \/ /\ active
              /\ hurt' = hurt \cup When(/\ Read(Begin, i).nlink = 0
                                       /\ opened[i] = 1, "open")
              /\ UNCHANGED <<disk, cache, active, dirty, faults>>

setattr(i) == Perform(SetattrScript(i)) /\ Kept
fsync(i) == Perform(FsyncScript(i)) /\ Kept
setxattr(i) == Perform(XattrScript(i)) /\ Kept

\* An inode cannot be read in the middle of an operation: a new inode without
\* its name, or a removed name without a change of the inode.
read_error(p, name) ==
    LET s == Begin
        i == allocate_inode(s)
        s1 == mark_page_dirty(
                  update_inode_page(s, i, LAMBDA d : NewOther(d)), i)
        s2 == remove_dir_entry(s, p, name)
    IN  /\ ~active
        /\ Fault
        /\ active' = TRUE
        /\ \/ Unused(s) # {} /\ dirty' = s1.dirty /\ cache' = s1.cache
           \/ /\ lookup(Dir(s, p), name) # NoEntry
              /\ dirty' = <<>> /\ cache' = s2.cache
        /\ UNCHANGED <<disk, hurt>>
        /\ Kept

\* sync() commits what an operation has left open.
sync ==
    LET s == [Begin EXCEPT !.dirty = dirty]
    IN  /\ active
        /\ active' = FALSE
        /\ dirty' = <<>>
        /\ disk' = Written(s, dirty)
        /\ cache' = Released(s)
        /\ hurt' = hurt \cup When(disk' # disk, "open")
        /\ UNCHANGED faults
        /\ Kept

\* FORGET of an inode that is not open drops its copy, dirty or not.
evict(i) ==
    /\ opened[i] = 0 /\ Places(Begin, i) # {}
    /\ cache' = RemoveAt(cache, Place(Begin, i))
    /\ UNCHANGED <<disk, active, dirty, faults, hurt>>
    /\ Kept

\* The copies that flush_all() writes, in the order of the cache.
Flushed ==
    FoldLeft(LAMBDA d, e : IF e.dirty THEN write_block(d, e.data) ELSE d,
             disk, cache)

\* The volume is mounted again, after umount() or a crash.
remount(unmounted) ==
    /\ Fault
    /\ disk' = IF unmounted THEN Flushed ELSE disk
    /\ cache' = <<>>
    /\ active' = FALSE
    /\ dirty' = <<>>
    /\ handles' = [b \in Blocks |-> 0]
    /\ opened' = [i \in Inodes |-> 0]
    /\ hurt' = hurt \cup When(disk' # disk, "open")
                    \cup When(\E i \in Inodes : disk[i].mode # "free"
                                              /\ disk[i].nlink = 0, "dropped")

Step ==
    LET known == Known
        dirs == {p \in known : IsDir(Begin, p)}
    IN  \/ \E p \in dirs, name \in Names :
             \/ create_file(p, name)
             \/ mknod(p, name)
             \/ symlink(p, name)
             \/ mkdir(p, name)
             \/ rmdir(p, name)
             \/ unlink_file(p, name)
             \/ \E i \in known : link_file(p, name, i)
             \/ \E to \in dirs, new \in Names : rename(p, name, to, new)
             \/ read_error(p, name)
        \/ \E i \in known :
             \/ open_file(i)
             \/ setattr(i)
             \/ fsync(i)
             \/ setxattr(i)
        \/ \E i \in Inodes : release_file(i) \/ evict(i)
        \/ sync
        \/ \E unmounted \in BOOLEAN : remount(unmounted)

Next ==
    /\ hurt \in Explored
    /\ Step
    /\ changes' = IF disk' = disk /\ cache' = cache THEN changes
                  ELSE changes + 1
    /\ changes' <= MaxChanges

Spec == Init /\ [][Next]_vars
-----------------------------------------------------------------------------
InodeOK(d) ==
    /\ d.mode \in {"free", "other", "dir"}
    /\ d.nlink \in Nat
    /\ d.numbered \in BOOLEAN
    /\ IsDtRoot(d.dt)

\* Link counts never go below zero, directory roots keep to their slots, and
\* the cache has at most one copy for an inode.
NamespaceTypeOK ==
    /\ \A i \in Inodes : InodeOK(disk[i])
    /\ \A k \in DOMAIN cache :
         /\ DOMAIN cache[k].data = InBlock(BlockOf[cache[k].ino])
         /\ \A i \in DOMAIN cache[k].data : InodeOK(cache[k].data[i])
         /\ Places(Begin, cache[k].ino) = {k}
    /\ Len(cache) <= Capacity
    /\ active \in BOOLEAN
    /\ \A b \in Blocks : handles[b] \in Nat
    /\ hurt \subseteq Hurts

InUse == {i \in Inodes : disk[i].mode # "free"}
InUseDirs == {i \in InUse : disk[i].mode = "dir"}

\* The names in a directory on disk, by their places in its table.
NamesIn(p) ==
    LET e == entries(disk[p].dt)
    IN  {[dir |-> p, place |-> k, ino |-> e[k].ino] :
            k \in {x \in DOMAIN e : e[x].name \notin {".", ".."}}}
NamesOnDisk == UNION {NamesIn(p) : p \in InUseDirs}

\* Every name on disk leads to an inode that is in use and that a lookup can
\* find, also after a commit failed part of the way, an operation was cut
\* short, or the volume was mounted again.
NamesLive ==
    hurt = {} => \A n \in NamesOnDisk :
        n.ino \in InUse /\ disk[n.ino].numbered

\* The link count of a file on disk is the number of its names, and that of a
\* directory is two and the number of its subdirectories: create_file(),
\* mkdir(), link_file(), unlink_file(), rmdir() and rename() each change a
\* directory and one or two counts, in different copies of the cache.
LinksExact ==
    hurt = {} =>
        LET names == NamesOnDisk
        IN  \A i \in InUse :
              disk[i].nlink =
                  IF i \in InUseDirs
                  THEN 2 + Cardinality({n \in names :
                                          n.dir = i /\ n.ino \in InUseDirs})
                  ELSE Cardinality({n \in names : n.ino = i})

\* Every inode in use on disk has a name or an open handle, so none is lost:
\* the last unlink_file() or release_file() frees it.
NoInodeLost ==
    hurt = {} =>
        InUse \subseteq {Root} \cup {n.ino : n \in NamesOnDisk}
                             \cup {i \in Inodes : opened[i] > 0}

\* Directories on disk form a tree: each but the root has exactly one name,
\* and its idotdot is the directory of that name, also after moves.
DirectoryTree ==
    hurt = {} =>
        LET names == NamesOnDisk
        IN  \A i \in InUseDirs \ {Root} :
              LET here == {n \in names : n.ino = i}
              IN  Cardinality(here) = 1
                  /\ \A n \in here : disk[i].dt.idotdot = n.dir

\* No operation frees on disk an inode that is open before and after it.
OpenKept ==
    [][hurt' = {} =>
        \A i \in InUse : opened[i] > 0 /\ opened'[i] > 0 => i \in InUse']_vars

\* The entries of a directory on disk have slots of their own: insert()
\* "Uses the free-list within the dtroot to find a free slot."
SlotsDistinct ==
    hurt \subseteq {"slot"} =>
        \A p \in InUseDirs : IsInjective(disk[p].dt.stbl)
=============================================================================
