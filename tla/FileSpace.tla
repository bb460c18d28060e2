----------------------------- MODULE FileSpace -----------------------------
(***************************************************************************)
(* The space of files: the operations of volume.rs that move blocks        *)
(* between the allocation map (alloc/dmap.rs) and the extent trees of      *)
(* files, with their transaction, its errors and a new mount.              *)
(*                                                                         *)
(* An operation runs under the lock of the volume,  so it is one action;   *)
(* its choices are how far it gets.  Offsets are in whole blocks.  Every   *)
(* inode has an inode-table block of its own here.  The size of a file is  *)
(* left out, as it decides only whether truncate() shrinks the file: both  *)
(* are possible.                                                           *)
(***************************************************************************)
EXTENDS Xtree

CONSTANTS
    Files,        \* inodes for regular files
    MapSize,      \* blocks of the aggregate
    Pmap,         \* blocks that are free in the pmap that mkfs wrote
    MaxFsb,       \* bound: size of a file in blocks
    MaxPending,   \* bound: entries of the lists of the allocation map
    MaxFaults,    \* bound: errors and mounts
    Explored      \* bound: values of `tainted' in which operations begin

\* "punch": a hole was punched into the middle of an extent.
\* "reuse": an inode with extents was given to a new file.
\* "failed": commit_transaction() returned an error.
\* "mount": the volume was mounted again.
Taints == {"punch", "reuse", "failed", "mount"}

ASSUME SpaceAssumption ==
    /\ MapSize \in Nat /\ MaxFsb \in Nat /\ MaxPending \in Nat
    /\ MaxFaults \in Nat
    /\ Pmap \subseteq 1 .. MapSize - 1
    /\ Explored \subseteq SUBSET Taints

VARIABLES
    inode,    \* inodes as they are read: cached page or disk
    disk,     \* inodes on disk
    bmap,     \* BlockAllocMap: free_map, nfree, allocated, freed
    nfree_d,  \* nfree in the descriptor on disk
    active,   \* an operation has left its transaction open
    dirty,    \* files on the dirty list of the transaction
    faults,   \* errors and mounts so far
    tainted   \* which of the cases below have happened

vars == <<inode, disk, bmap, nfree_d, active, dirty, faults, tainted>>

Blocks(x) == x.addr .. x.addr + x.len - 1
NewFile == [live |-> FALSE, xt |-> EmptyRoot]

-----------------------------------------------------------------------------
(* BlockAllocMap *)

\* Mutant of FreeRuns: a run is accepted one block too early.
FreeRunsShort(b, n, start) ==
    {s \in start .. MapSize - n : s .. s + n - 2 \subseteq b.free_map}

\* Starts of runs of n free blocks at or behind `start'.
FreeRuns(b, n, start) ==
    {s \in start .. MapSize - n : s .. s + n - 1 \subseteq b.free_map}

\* Where alloc_extent() finds its blocks: behind the hint or anywhere.
AllocAt(b, n, hint) ==
    IF FreeRuns(b, n, hint) # {} THEN Min(FreeRuns(b, n, hint))
    ELSE Min(FreeRuns(b, n, 0))

CanAlloc(b, n) == FreeRuns(b, n, 0) # {}

alloc_extent(b, n, hint) ==
    LET s == AllocAt(b, n, hint)
    IN  [b EXCEPT !.free_map = @ \ (s .. s + n - 1),
                  !.nfree = IF @ < n THEN 0 ELSE @ - n,
                  !.allocated = Append(@, Xad(0, n, s))]

free_extent(b, x) ==
    [b EXCEPT !.free_map = @ \cup Blocks(x),
              !.nfree = @ + x.len,
              !.freed = Append(@, x)]

FreeAll(b, extents) == FoldLeft(free_extent, b, extents)

SumLen(extents) == FoldLeft(LAMBDA n, x : n + x.len, 0, extents)
AllBlocks(extents) == UNION {Blocks(extents[i]) : i \in DOMAIN extents}

bmap_clear(b) == [b EXCEPT !.allocated = <<>>, !.freed = <<>>]

rollback(b) ==
    bmap_clear([b EXCEPT
        !.free_map = (@ \cup AllBlocks(b.allocated)) \ AllBlocks(b.freed),
        !.nfree = @ + SumLen(b.allocated) - SumLen(b.freed)])

bmap_new(n) == [free_map |-> Pmap, nfree |-> n,
                allocated |-> <<>>, freed |-> <<>>]

-----------------------------------------------------------------------------
(* Transactions *)

Init ==
    /\ inode = [f \in Files |-> NewFile]
    /\ disk = inode
    /\ bmap = bmap_new(Cardinality(Pmap))
    /\ nfree_d = Cardinality(Pmap)
    /\ active = FALSE
    /\ dirty = {}
    /\ faults = 0
    /\ tainted = {}

Written(pages, to) == [f \in Files |-> IF f \in pages THEN to[f] ELSE disk[f]]

\* commit_transaction() of the pages in `pages': the inodes reach the disk,
\* then the allocation map is stored.
CommitOk(pages, new, b) ==
    /\ disk' = Written(pages, new)
    /\ bmap' = bmap_clear(b)
    /\ nfree_d' = b.nfree
    /\ UNCHANGED faults

\* The storage fails, or the request is interrupted.
Fault == faults < MaxFaults /\ faults' = faults + 1

\* commit_transaction() returns an error: the transaction is closed, its
\* pages stay as they are in the cache and may have reached the disk, and
\* the lists of the allocation map keep their entries.  Only write_at()
\* rolls them back.
CommitErr(pages, new, b, rolls_back) ==
    /\ Fault
    /\ disk' \in {disk, Written(pages, new)}
    /\ bmap' = IF rolls_back THEN rollback(b) ELSE b
    /\ UNCHANGED nfree_d

\* The end of an operation that leaves `new' in the cache and b in memory.
Finish(pages, new, b, taint, rolls_back) ==
    /\ Len(b.allocated) + Len(b.freed) <= MaxPending
    /\ inode' = new
    /\ active' = FALSE
    /\ dirty' = {}
    /\ \/ CommitOk(pages, new, b) /\ tainted' = tainted \cup taint
       \/ /\ CommitErr(pages, new, b, rolls_back)
          /\ tainted' = tainted \cup taint \cup {"failed"}

\* An operation returns an error between begin and commit: the transaction
\* stays open, and every later begin_transaction() fails.
LeaveOpen(pages, new, b, taint) ==
    /\ Len(b.allocated) + Len(b.freed) <= MaxPending
    /\ active' = TRUE
    /\ dirty' = pages
    /\ inode' = new
    /\ bmap' = b
    /\ tainted' = tainted \cup taint
    /\ UNCHANGED <<disk, nfree_d>>

\* abort() leaves the pages as they are in the cache.
abort_transaction(new, b) ==
    /\ inode' = new
    /\ bmap' = rollback(b)
    /\ active' = FALSE
    /\ dirty' = {}
    /\ UNCHANGED <<disk, nfree_d, faults, tainted>>

-----------------------------------------------------------------------------
(* Operations *)

begin_transaction == ~active /\ tainted \in Explored
begin_for(f) == begin_transaction /\ inode[f].live

SetXt(f, root) == [inode EXCEPT ![f].xt = root]

\* Any operation that cannot read an inode after it has begun, or whose
\* data blocks cannot be accessed before it has changed anything.
read_error ==
    /\ begin_transaction
    /\ Fault
    /\ LeaveOpen({}, inode, bmap, {})

\* The blocks from the first unmapped one on are allocated as one extent.
write_at(f, off, len) ==
    LET root == inode[f].xt
        h == HoleStart(root, off, len)
        n == off + len - h
        b == alloc_extent(bmap, n, h)
        xt == insert_extent(root, h, n, AllocAt(bmap, n, h))
    IN  /\ begin_for(f)
        /\ \/ n = 0 /\ Finish({f}, inode, bmap, {}, TRUE)
           \/ /\ n > 0 /\ CanAlloc(bmap, n)
              /\ Finish({f}, SetXt(f, xt), b, {}, TRUE)
           \/ \* no space
              /\ n > 0 /\ ~CanAlloc(bmap, n)
              /\ LeaveOpen({}, inode, bmap, {})
              /\ UNCHANGED faults
           \/ \* an error after the allocation
              /\ Fault
              /\ n > 0 /\ CanAlloc(bmap, n)
              /\ LeaveOpen({}, inode, b, {})

truncate(f, eof) ==
    LET t == truncate_extents(inode[f].xt, eof)
    IN  /\ begin_for(f)
        /\ \/ \* eof < current_eof
              Finish({f}, SetXt(f, t.root), FreeAll(bmap, t.freed), {}, FALSE)
           \/ \* eof >= current_eof
              Finish({f}, inode, bmap, {}, FALSE)

\* The loop of fallocate() over the blocks of the range.
AllocRange(root, fsbs) ==
    LET step(acc, fsb) ==
          IF ~acc.ok \/ lookup(acc.xt, fsb) # 0 THEN acc
          ELSE IF ~CanAlloc(acc.b, 1) THEN [acc EXCEPT !.ok = FALSE]
          ELSE [ok |-> TRUE,
                b  |-> alloc_extent(acc.b, 1, fsb),
                xt |-> insert_extent(acc.xt, fsb, 1, AllocAt(acc.b, 1, fsb))]
    IN  FoldLeft(step, [ok |-> TRUE, b |-> bmap, xt |-> root], fsbs)

fallocate(f, off, len) ==
    LET first(n) == AllocRange(inode[f].xt, [i \in 1 .. n |-> off + i - 1])
        a == first(len)
        new == SetXt(f, a.xt)
    IN  /\ begin_for(f)
        /\ \/ a.ok /\ Finish({f}, new, a.b, {}, FALSE)
           \/ \* no space: what was allocated so far is not in the inode
              /\ ~a.ok
              /\ LeaveOpen({}, inode, a.b, {})
              /\ UNCHANGED faults
           \/ \* a block cannot be zeroed
              /\ Fault
              /\ \E n \in 0 .. len : LeaveOpen({}, inode, first(n).b, {})
           \/ \* flush_data() fails
              /\ Fault
              /\ a.ok /\ LeaveOpen({f}, new, a.b, {})

\* Whether punching [start, end) splits an extent of the root.
SplitsExtent(root, start, end) ==
    \E i \in DOMAIN root.xad : Spans(root.xad[i], start, end)

PunchTaint(root, start, end) ==
    IF SplitsExtent(root, start, end) THEN {"punch"} ELSE {}

fallocate_punch(f, off, len) ==
    LET p == punch_extents(inode[f].xt, off, off + len)
        b == FreeAll(bmap, p.freed)
        taint == PunchTaint(inode[f].xt, off, off + len)
    IN  /\ begin_for(f)
        /\ \/ Finish({f}, SetXt(f, p.root), b, taint, FALSE)
           \/ \* flush_data() fails
              Fault /\ LeaveOpen({f}, SetXt(f, p.root), b, taint)

\* insert_taken_extent() of all taken extents, moved by `shift'.
InsertTaken(root, taken, shift) ==
    FoldLeft(LAMBDA r, x :
                 insert_taken_extent(r, [x EXCEPT !.off = @ + shift]),
             root, taken)

\* Mutant of CutSource: the source is not written back.
KeptSource(src, root) == inode

CutSource(src, root) == SetXt(src, root)

copy_file_range_extent(src, from, dst, to, len) ==
    LET t == take_extents(inode[src].xt, from, from + len)
        p == punch_extents(inode[dst].xt, to, to + len)
        b == FreeAll(bmap, p.freed)
        cut == CutSource(src, t.root)
        new == [cut EXCEPT ![dst].xt = InsertTaken(p.root, t.taken, to - from)]
    IN  /\ begin_for(src) /\ inode[dst].live /\ src # dst
        /\ t.taken # <<>>
        /\ \/ /\ p.root.next + Len(t.taken) <= MaxXad
              /\ Finish({src, dst}, new, b,
                        PunchTaint(inode[dst].xt, to, to + len), FALSE)
           \/ \* the root of dst is full: the source stays cut in the cache
              /\ p.root.next + Len(t.taken) > MaxXad
              /\ abort_transaction(cut, b)
           \/ \* the inode of dst cannot be read
              /\ Fault
              /\ LeaveOpen({src}, cut, bmap, {})

\* copy_file_range_extent() of a hole changes nothing but rolls back.
copy_nothing(src, from, len) ==
    /\ begin_for(src)
    /\ take_extents(inode[src].xt, from, from + len).taken = <<>>
    /\ abort_transaction(inode, bmap)

\* The last link and the last handle are gone: the blocks are freed, the
\* extents stay in the dinode.
unlink_file(f) ==
    LET new == [inode EXCEPT ![f].live = FALSE]
        b == FreeAll(bmap, truncate_extents(inode[f].xt, 0).freed)
    IN  /\ begin_for(f)
        /\ \/ Finish({f}, new, b, {}, FALSE)
           \/ \* the parent cannot be read
              Fault /\ LeaveOpen({f}, new, b, {})

\* create_file() sets mode, size, nblocks and nlink of a free dinode.
InitialisedInode(f) == [inode[f] EXCEPT !.live = TRUE]

\* The name is free: what happens to the directory is left out.
create_file(f) ==
    LET new == [inode EXCEPT ![f] = InitialisedInode(f)]
        taint == IF inode[f].xt.xad # <<>> THEN {"reuse"} ELSE {}
    IN  /\ begin_transaction /\ ~inode[f].live
        /\ \/ Finish({f}, new, bmap, taint, FALSE)
           \/ \* the parent cannot be read
              Fault /\ LeaveOpen({f}, new, bmap, taint)

fsync(f) == begin_for(f) /\ Finish({f}, inode, bmap, {}, FALSE)

\* sync() commits what an operation has left open.  When its first step,
\* writing the dirty pages, fails, the transaction stays open.
sync ==
    \/ Finish(dirty, inode, bmap, {}, FALSE)
    \/ /\ Fault
       /\ disk' = Written(dirty, inode)
       /\ UNCHANGED <<inode, bmap, nfree_d, active, dirty, tainted>>

\* The page cache drops the page of an inode.  It holds more pages than one
\* transaction changes, so the page is not dirty.
evict(f) ==
    /\ f \notin dirty
    /\ inode' = [inode EXCEPT ![f] = disk[f]]
    /\ UNCHANGED <<disk, bmap, nfree_d, active, dirty, faults, tainted>>

\* umount() writes dirty pages, then the allocation map, and may fail at
\* either; a crash writes neither.  The next mount reads the free blocks
\* from the pmap.
umount_mount(pages_written, map_written) ==
    LET d == IF pages_written THEN Written(dirty, inode) ELSE disk
        n == IF map_written THEN bmap.nfree ELSE nfree_d
    IN  /\ map_written => pages_written
        /\ Fault
        /\ disk' = d
        /\ inode' = d
        /\ nfree_d' = n
        /\ bmap' = bmap_new(n)
        /\ active' = FALSE
        /\ dirty' = {}
        /\ tainted' = tainted \cup {"mount"}

Fsbs == 0 .. MaxFsb - 1
Lens(off) == 1 .. MaxFsb - off

\* The operations on a range of a file that is open.
RangeOperation(f) ==
    \E off \in Fsbs : \E len \in Lens(off) :
        \/ write_at(f, off, len)
        \/ fallocate(f, off, len)
        \/ fallocate_punch(f, off, len)
        \/ copy_nothing(f, off, len)
        \/ \E dst \in Files, to \in Fsbs :
             /\ to + len <= MaxFsb
             /\ copy_file_range_extent(f, off, dst, to, len)

Next ==
    \/ \E f \in Files :
         \/ create_file(f)
         \/ unlink_file(f)
         \/ fsync(f)
         \/ evict(f)
         \/ \E eof \in 0 .. MaxFsb : truncate(f, eof)
         \/ begin_for(f) /\ RangeOperation(f)
    \/ read_error
    \/ sync
    \/ \E pages_written, map_written \in BOOLEAN :
         umount_mount(pages_written, map_written)

Spec == Init /\ [][Next]_vars

-----------------------------------------------------------------------------
Extent == [off : 0 .. MaxFsb, len : 1 .. MapSize, addr : 1 .. MapSize]
RootOK(root) ==
    /\ Len(root.xad) <= MaxXad
    /\ root.next >= Len(root.xad)
    /\ \A i \in DOMAIN root.xad : root.xad[i] \in Extent

\* Extents are non-empty and stay inside the file and the aggregate, and the
\* free count is a number.
FileSpaceTypeOK ==
    /\ \A f \in Files : RootOK(inode[f].xt) /\ RootOK(disk[f].xt)
    /\ bmap.free_map \subseteq 1 .. MapSize - 1
    /\ bmap.nfree \in Nat /\ nfree_d \in Nat
    /\ active \in BOOLEAN
    /\ dirty \subseteq Files
    /\ tainted \subseteq Taints

\* For every root that the operations can give a file, truncate_extents() and
\* take_extents() keep exactly the mappings outside of the range and give
\* back exactly the blocks inside, also when they split an extent, unless the
\* split needs a slot that the root does not have.
ExtentOpsExact ==
    \A root \in {inode[f].xt : f \in {g \in Files : inode[g].live}} :
        LET pairs == Pairs(root)
        IN  \A s \in Fsbs :
              LET t == truncate_extents(root, s)
                  beyond == {p \in pairs : p[1] >= s}
              IN  /\ Pairs(t.root) = pairs \ beyond
                  /\ AllBlocks(t.freed) = {p[2] : p \in beyond}
                  /\ \A e \in s + 1 .. MaxFsb :
                       LET k == take_extents(root, s, e)
                           in == {p \in beyond : p[1] < e}
                       IN  k.root.next <= MaxXad =>
                             /\ Pairs(k.root) = pairs \ in
                             /\ Pairs([xad |-> k.taken]) = in

\* Extents of live files, with the place they are in.
Owned == {<<f, i>> \in Files \X (1 .. MaxXad) :
            inode[f].live /\ i \in DOMAIN inode[f].xt.xad}
OwnedBlocks(o) == Blocks(inode[o[1]].xt.xad[o[2]])

OwnedNotFree == \A o \in Owned : OwnedBlocks(o) \cap bmap.free_map = {}
OneOwner == \A o, p \in Owned :
               o # p => OwnedBlocks(o) \cap OwnedBlocks(p) = {}

\* As long as no hole is punched into the middle of an extent, no inode is
\* reused, no commit fails and the volume stays mounted, the operations never
\* let two extents share a block or an extent hold a free one, and the free
\* count is exact - also after errors that leave a transaction open, after
\* a full root and after moves between files.
SpaceExact ==
    tainted = {} => /\ OwnedNotFree
                    /\ OneOwner
                    /\ bmap.nfree = Cardinality(bmap.free_map)
=============================================================================
