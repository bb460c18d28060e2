----------------------------- MODULE FuseLayer ------------------------------
(***************************************************************************)
(* The FUSE server between the kernel and the volume (src/src/fuse/mod.rs):*)
(* the handlers of Fuse3Fs that change its tables, each of which runs      *)
(* under the RwLock of Fuse3Fs as a whole, the handle table, the lookup    *)
(* counts, and the open-handle counts of the volume, which are kept per    *)
(* block of the inode table.                                               *)
(*                                                                         *)
(* The other side is the kernel: known counts the entries it was sent for  *)
(* an inode and has not forgotten, held are the file handles it was given  *)
(* and has not released.  It sends requests about inodes it knows and      *)
(* handles it holds, forgets at most what it knows, and drops a handle     *)
(* whatever the answer to its release is.  Names are left to Namespace:    *)
(* an inode is linked as often as nlink says.                              *)
(***************************************************************************)
EXTENDS Integers, FiniteSets

CONSTANTS
    Inodes,      \* inode numbers other than the root
    BlockOf,     \* the block of the inode table that holds an inode
    MaxFh,       \* bound: file handles
    MaxKnown,    \* bound: references of the kernel to an inode
    MaxLinks,    \* bound: links of a file
    MaxFaults    \* bound: I/O errors

ASSUME FuseAssumption ==
    /\ IsFiniteSet(Inodes)
    /\ MaxFh \in Nat /\ MaxKnown \in Nat /\ MaxLinks \in Nat
    /\ MaxFaults \in Nat

VARIABLES
    mode,          \* "free", "file" or "dir"
    nlink,         \* di_nlink
    open_handles,  \* Volume::open_handles, the count of each block
    node_states,   \* lookup counts, 0 where there is no entry
    handles,       \* FuseFs::handles, a function from file handles
    next_fh,
    known,         \* the kernel's references
    held,          \* the kernel's handles, a function from file handles
    reply,         \* answer to the last request on a handle
    faults,
    hurt           \* errors and omissions after which the counts are off

volume == <<mode, nlink, open_handles>>
tables == <<node_states, handles, next_fh>>
kernel == <<known, held>>
vars == <<volume, tables, kernel, reply, faults, hurt>>

Blocks == {BlockOf[i] : i \in Inodes}
Handles == 1 .. MaxFh

Init ==
    /\ mode = [i \in Inodes |-> "free"] /\ nlink = [i \in Inodes |-> 0]
    /\ open_handles = [b \in Blocks |-> 0]
    /\ node_states = [i \in Inodes |-> 0]
    /\ handles = [fh \in {} |-> 0] /\ next_fh = 1
    /\ known = [i \in Inodes |-> 0] /\ held = [fh \in {} |-> 0]
    /\ reply = "ok" /\ faults = 0 /\ hurt = {}

Fault(kinds) ==
    /\ faults < MaxFaults /\ faults' = faults + 1
    /\ hurt' = hurt \cup kinds
NoFault == UNCHANGED <<faults, hurt>>

-----------------------------------------------------------------------------
(* The tables.                                                             *)

\* Mutant of add_node_state: a count that is there is replaced.
insert_node_state(i) == [node_states EXCEPT ![i] = 1]

\* add_node_state() and decrement_node_state().
add_node_state(i) == [node_states EXCEPT ![i] = @ + 1]
decrement_node_state(i, n) ==
    [node_states EXCEPT ![i] = IF n <= @ THEN @ - n ELSE 0]

Extended(table, fh, h) ==
    [f \in DOMAIN table \cup {fh} |-> IF f = fh THEN h ELSE table[f]]
Without(table, fh) == [f \in DOMAIN table \ {fh} |-> table[f]]

\* open_handle() of the next file handle, which the reply carries.
open_handle(i, dir) ==
    /\ next_fh <= MaxFh /\ next_fh' = next_fh + 1
    /\ handles' = Extended(handles, next_fh, [ino |-> i, is_dir |-> dir])
    /\ held' = Extended(held, next_fh, [ino |-> i, is_dir |-> dir])

\* Mutant of release_handle: all handles of the inode go.
release_inode(fh) ==
    [f \in {g \in DOMAIN handles : handles[g].ino # handles[fh].ino} |->
        handles[f]]

release_handle(fh) == Without(handles, fh)

\* Mutant of open_file: the block is marked, not counted.
open_file_once(i) == [open_handles EXCEPT ![BlockOf[i]] = 1]

\* Volume::open_file() and the count in release_file().
open_file(i) == [open_handles EXCEPT ![BlockOf[i]] = @ + 1]

\* Mutant of release_count: the count does not saturate.
release_count_checked(i) == [open_handles EXCEPT ![BlockOf[i]] = @ - 1]

release_count(i) ==
    [open_handles EXCEPT ![BlockOf[i]] = IF @ > 0 THEN @ - 1 ELSE 0]

\* validate_handle_static().
validate_handle(fh, i, expect_file) ==
    IF fh \notin DOMAIN handles \/ handles[fh].ino # i THEN "EBADF"
    ELSE IF expect_file /\ handles[fh].is_dir THEN "EISDIR"
    ELSE IF ~expect_file /\ ~handles[fh].is_dir THEN "ENOTDIR"
    ELSE "ok"

-----------------------------------------------------------------------------
(* Handlers that answer with an entry.                                     *)

\* reply.entry(): the kernel has one more reference.
Entry(i) == known[i] < MaxKnown /\ known' = [known EXCEPT ![i] = @ + 1]

\* lookup() of a name of the inode.
lookup(i) ==
    /\ nlink[i] > 0 /\ Entry(i)
    /\ node_states' = add_node_state(i)
    /\ NoFault
    /\ UNCHANGED <<volume, handles, next_fh, held, reply>>

\* lookup() has counted the entry when getattr() fails.
lookup_error(i) ==
    /\ nlink[i] > 0 /\ node_states[i] < MaxKnown
    /\ Fault({"counted"})
    /\ node_states' = add_node_state(i)
    /\ UNCHANGED <<volume, handles, next_fh, kernel, reply>>

\* A free inode is taken, and its entry counted.
Made(i, kind) ==
    /\ mode[i] = "free"
    /\ mode' = [mode EXCEPT ![i] = kind]
    /\ nlink' = [nlink EXCEPT ![i] = IF kind = "dir" THEN 2 ELSE 1]
    /\ node_states' = add_node_state(i)

\* symlink(), mknod() and mkdir().
make(i, kind) ==
    /\ Made(i, kind) /\ Entry(i)
    /\ NoFault
    /\ UNCHANGED <<open_handles, handles, next_fh, held, reply>>

\* The same, and create(), when getattr() fails on the new inode.
make_error(i, kind) ==
    /\ Made(i, kind) /\ Fault({"counted"})
    /\ UNCHANGED <<open_handles, handles, next_fh, kernel, reply>>

\* create() also opens the file; the error of open() is not looked at.
create(i, opened) ==
    /\ Made(i, "file") /\ Entry(i)
    /\ IF opened THEN open_handles' = open_file(i) /\ NoFault
       ELSE Fault({"unopened"}) /\ UNCHANGED open_handles
    /\ open_handle(i, FALSE)
    /\ UNCHANGED reply

\* link() answers with an entry that nobody counts, unless getattr() fails.
link(i, answered) ==
    /\ mode[i] = "file" /\ known[i] > 0 /\ 0 < nlink[i] /\ nlink[i] < MaxLinks
    /\ nlink' = [nlink EXCEPT ![i] = @ + 1]
    /\ IF answered
       THEN /\ Entry(i) /\ hurt' = hurt \cup {"uncounted"}
            /\ UNCHANGED faults
       ELSE Fault({}) /\ UNCHANGED known
    /\ UNCHANGED <<mode, open_handles, tables, held, reply>>

-----------------------------------------------------------------------------
(* The other handlers.                                                     *)

\* forget() of n entries; at zero the cached pages of the inode go.
forget(i, n) ==
    /\ n \in 1 .. known[i]
    /\ known[i] = n => \A fh \in DOMAIN held : held[fh].ino # i
    /\ known' = [known EXCEPT ![i] = @ - n]
    /\ node_states' = decrement_node_state(i, n)
    /\ NoFault
    /\ UNCHANGED <<volume, handles, next_fh, held, reply>>

\* Mutant of frees: open handles are not looked at.
frees_open(i) == nlink[i] = 1

\* has_open_handles() is asked about the block, in unlink_file().
frees(i) == nlink[i] = 1 /\ open_handles[BlockOf[i]] = 0

unlink(i) ==
    /\ mode[i] = "file" /\ nlink[i] > 0
    /\ nlink' = [nlink EXCEPT ![i] = @ - 1]
    /\ mode' = IF frees(i) THEN [mode EXCEPT ![i] = "free"] ELSE mode
    /\ NoFault
    /\ UNCHANGED <<open_handles, tables, kernel, reply>>

\* rmdir() frees the directory, open or not.
rmdir(i) ==
    /\ mode[i] = "dir"
    /\ mode' = [mode EXCEPT ![i] = "free"]
    /\ nlink' = [nlink EXCEPT ![i] = 0]
    /\ NoFault
    /\ UNCHANGED <<open_handles, tables, kernel, reply>>

\* FuseFs::open() of an inode that has a name, and its handle.
OpenAs(i, dir) ==
    /\ known[i] > 0 /\ nlink[i] > 0
    /\ open_handles' = open_file(i)
    /\ open_handle(i, dir)
    /\ NoFault
    /\ UNCHANGED <<mode, nlink, node_states, known, reply>>

open(i) == mode[i] # "dir" /\ OpenAs(i, FALSE)
opendir(i) == mode[i] = "dir" /\ OpenAs(i, TRUE)

\* release_file() with its count down: the last handle frees the inode.
Reclaimed(i) ==
    IF nlink[i] = 0 /\ open_handles'[BlockOf[i]] = 0
    THEN [mode EXCEPT ![i] = "free"] ELSE mode

\* The table first, then FuseFs::release(), which may end before it frees.
Closed(fh, freed) ==
    /\ fh \in DOMAIN held
    /\ held' = Without(held, fh)
    /\ handles' = release_handle(fh)
    /\ open_handles' = release_count(held[fh].ino)
    /\ mode' = IF freed THEN Reclaimed(held[fh].ino) ELSE mode
    /\ UNCHANGED <<nlink, node_states, next_fh, known, reply>>

release(fh) == Closed(fh, TRUE) /\ ~held[fh].is_dir /\ NoFault
releasedir(fh) == Closed(fh, TRUE) /\ held[fh].is_dir /\ NoFault

\* The transaction of release_file() does not begin or does not commit.
release_uncommitted(fh, freed) == Closed(fh, freed) /\ Fault({"kept"})

\* The flush of a release() fails: EIO, and the handle stays in the table; or
\* release_file() cannot read the inode: the count stays.
release_error(fh, flushed) ==
    /\ fh \in DOMAIN held
    /\ flushed \/ ~held[fh].is_dir
    /\ Fault({"kept"})
    /\ held' = Without(held, fh)
    /\ handles' = IF flushed THEN release_handle(fh) ELSE handles
    /\ UNCHANGED <<volume, node_states, next_fh, known, reply>>

\* Requests on a handle: the check, then work that leaves the tables alone.
\* A readdirplus() that got past it would send entries that nobody counts.
Answer(r) == reply' = r /\ UNCHANGED <<volume, tables, kernel, faults, hurt>>

OnFile(fh) == fh \in DOMAIN held /\ ~held[fh].is_dir
Checked(fh, expect_file) == validate_handle(fh, held[fh].ino, expect_file)

read_write(fh) == OnFile(fh) /\ Answer(Checked(fh, FALSE))
fallocate_lseek(fh) == OnFile(fh) /\ Answer(Checked(fh, FALSE))

copy_file_range(fh_in, fh_out) ==
    /\ OnFile(fh_in) /\ OnFile(fh_out)
    /\ Answer(IF Checked(fh_in, FALSE) # "ok" THEN Checked(fh_in, FALSE)
              ELSE Checked(fh_out, FALSE))

readdir(fh) ==
    /\ fh \in DOMAIN held /\ held[fh].is_dir
    /\ Answer(Checked(fh, TRUE))

-----------------------------------------------------------------------------
Next ==
    \/ \E i \in Inodes :
          \/ lookup(i) \/ lookup_error(i) \/ unlink(i) \/ rmdir(i)
          \/ \E kind \in {"file", "dir"} : make(i, kind) \/ make_error(i, kind)
          \/ \E opened \in BOOLEAN : create(i, opened)
          \/ \E answered \in BOOLEAN : link(i, answered)
          \/ \E n \in 1 .. MaxKnown : forget(i, n)
          \/ open(i) \/ opendir(i)
    \/ \E fh \in Handles :
          \/ release(fh) \/ releasedir(fh)
          \/ \E flushed \in BOOLEAN : release_error(fh, flushed)
          \/ \E freed \in BOOLEAN : release_uncommitted(fh, freed)
          \/ read_write(fh) \/ fallocate_lseek(fh) \/ readdir(fh)
          \/ \E fh_out \in Handles : copy_file_range(fh, fh_out)

Spec == Init /\ [][Next]_vars

-----------------------------------------------------------------------------
OpenHandle == [ino : Inodes, is_dir : BOOLEAN]

\* Types; the counts of open handles and of lookups never go below zero.
FuseTypeOK ==
    /\ mode \in [Inodes -> {"free", "file", "dir"}]
    /\ nlink \in [Inodes -> Nat]
    /\ open_handles \in [Blocks -> Nat]
    /\ node_states \in [Inodes -> Nat] /\ known \in [Inodes -> Nat]
    /\ next_fh \in Nat \ {0}
    /\ DOMAIN held \subseteq Handles
    /\ held \in [DOMAIN held -> OpenHandle]
    /\ DOMAIN handles \subseteq Handles
    /\ handles \in [DOMAIN handles -> OpenHandle]
    /\ reply \in {"ok", "EBADF", "EISDIR", "ENOTDIR"}
    /\ faults \in Nat
    /\ hurt \subseteq {"counted", "unopened", "uncounted", "kept"}

\* The handle table answers for every handle the kernel holds, with the
\* inode and the kind it was opened as, and a number in the table is not
\* given out again: opens, failing releases and creates in any order.
HandlesHeld ==
    \A fh \in DOMAIN held :
        fh < next_fh /\ fh \in DOMAIN handles /\ handles[fh] = held[fh]

HeldIn(b) == {fh \in DOMAIN held : BlockOf[held[fh].ino] = b}

\* has_open_handles() sees every handle of the kernel: the count of a block
\* of the inode table is at least the number of handles held on its inodes,
\* as long as no create() has gone on after a failed open.
HeldCounted ==
    "unopened" \notin hurt =>
        \A b \in Blocks : Cardinality(HeldIn(b)) <= open_handles[b]

\* A file that the kernel holds open is not freed, by an unlink of its last
\* name or by the release of another handle (open-unlinked semantics).
OpenNotFreed ==
    [][\A fh \in DOMAIN held \cap DOMAIN held' :
          ("unopened" \notin hurt' /\ mode[held[fh].ino] = "file")
             => mode'[held[fh].ino] = "file"]_vars

\* The server counts at least the references of the kernel, so that forget()
\* does not throw away what the kernel still uses, as long as no link() has
\* answered with an entry.
LookupCovered ==
    "uncounted" \notin hurt => \A i \in Inodes : known[i] <= node_states[i]

\* validate_handle_static() accepts a handle of the right inode for the
\* operations of its kind: "is not a directory (when `expect_file` is true)
\* or is a directory (when false)".
HandleAccepted == reply = "ok"
=============================================================================
