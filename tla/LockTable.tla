----------------------------- MODULE LockTable -----------------------------
(***************************************************************************)
(* The POSIX byte-range locks and the flock locks of the FUSE layer        *)
(* (fuse/mod.rs).  A request runs under the lock of the file system,  so   *)
(* every handler is one action.  Calls that return EROFS, EINVAL, ENOENT   *)
(* or EAGAIN change nothing.  The list of locks of a file is a set here.   *)
(*                                                                         *)
(* Offsets keep their width: a u64 is 0 .. U64_MAX and an i64 has half of  *)
(* that range on each side of zero.  `start + l_len' is taken as a release *)
(* build computes it; a debug build stops where it wraps.                  *)
(***************************************************************************)
EXTENDS Integers, FiniteSets

CONSTANTS
    Inodes,     \* files that are locked
    Owners,     \* lock owners
    U64_MAX,    \* the largest offset
    Starts,     \* values of l_start in requests
    Lens,       \* values of l_len in requests
    FileSizes,  \* sizes the file may have when a call reads it
    MaxLocks    \* bound: POSIX locks on one inode

u64 == 0 .. U64_MAX
I64_MAX == U64_MAX \div 2
i64 == -(I64_MAX + 1) .. I64_MAX

ASSUME U64Assumption == U64_MAX \in Nat \ {0} /\ U64_MAX % 2 = 1
ASSUME FileSizesAssumption == FileSizes \subseteq 0 .. U64_MAX
ASSUME RequestAssumption == Starts \subseteq i64 /\ Lens \subseteq i64
ASSUME MaxLocksAssumption == MaxLocks \in Nat

VARIABLES
    locks,        \* FuseFs::locks, per inode
    flock_locks,  \* FuseFs::flock_locks, per inode
    reply         \* what getlk() returned, until the next request

vars == <<locks, flock_locks, reply>>

\* SEEK_CUR and unknown bases are treated like SEEK_SET.
Whences == {"SEEK_SET", "SEEK_END"}

Flock == [l_type : {"F_RDLCK", "F_WRLCK", "F_UNLCK"}, l_whence : Whences,
          l_start : Starts, l_len : Lens]
PosixLock == [l_type : {"F_RDLCK", "F_WRLCK"}, start : u64, end : u64,
              owner : Owners]
FlockLock == [kind : {"LOCK_SH", "LOCK_EX"}, owner : Owners]
NoReply == [l_type |-> "none"]

\* Rust's `as u64' and `as i64'.
AsU64(n) == IF n < 0 THEN n + (U64_MAX + 1) ELSE n
AsI64(n) == IF n > I64_MAX THEN n - (U64_MAX + 1) ELSE n
WrappingAdd(a, b) ==
    IF a + b > U64_MAX THEN a + b - (U64_MAX + 1) ELSE a + b
WrappingSub(a, b) == IF a < b THEN a - b + (U64_MAX + 1) ELSE a - b
SaturatingAdd(a, b) == IF a + b > U64_MAX THEN U64_MAX ELSE a + b

resolve_start(flock, file_size) ==
    IF flock.l_whence = "SEEK_END"
    THEN SaturatingAdd(file_size, AsU64(flock.l_start))
    ELSE AsU64(flock.l_start)

\* Mutant of resolve_end: the sum leaves the type.
resolve_end_wide(flock, start) ==
    IF flock.l_len <= 0 THEN U64_MAX ELSE start + flock.l_len

resolve_end(flock, start) ==
    IF flock.l_len <= 0 THEN U64_MAX ELSE WrappingAdd(start, flock.l_len)

resolve_flock(flock, file_size) ==
    LET start == resolve_start(flock, file_size)
    IN  [start |-> start, end |-> resolve_end(flock, start)]

Overlaps(l, r) == ~(l.start >= r.end \/ r.start >= l.end)

\* Mutant of TypesConflict: only a requested write lock conflicts.
OnlyWriterConflicts(requested, existing) == requested = "F_WRLCK"

TypesConflict(requested, existing) ==
    requested = "F_WRLCK" \/ existing = "F_WRLCK"

\* check_lock_conflict() returns the first of these; the order of the list
\* is left open.
check_lock_conflict(ino, r, l_type, owner) ==
    {l \in locks[ino] : /\ Overlaps(l, r)
                        /\ l.owner # owner
                        /\ TypesConflict(l_type, l.l_type)}

-----------------------------------------------------------------------------
Init ==
    /\ locks = [ino \in Inodes |-> {}]
    /\ flock_locks = [ino \in Inodes |-> {}]
    /\ reply = NoReply

release_owner_locks(ino, owner) ==
    locks' = [locks EXCEPT ![ino] = {l \in @ : l.owner # owner}]

release_flock_owner(ino, owner) ==
    flock_locks' = [flock_locks EXCEPT ![ino] = {l \in @ : l.owner # owner}]

\* Mutant of Retained: the owner of the lock is not looked at.
RetainedOfAnyOwner(ino, r, owner) ==
    {l \in locks[ino] : l.end <= r.start \/ l.start >= r.end}

\* The locks that stay beside a new lock of `owner' on the range r.
Retained(ino, r, owner) ==
    {l \in locks[ino] : \/ l.owner # owner
                        \/ l.end <= r.start
                        \/ l.start >= r.end}

do_setlk(ino, flock, owner) ==
    /\ \/ /\ flock.l_type = "F_UNLCK"
          /\ release_owner_locks(ino, owner)
       \/ /\ flock.l_type # "F_UNLCK"
          /\ \E file_size \in FileSizes :
               LET r == resolve_flock(flock, file_size)
                   new == [l_type |-> flock.l_type, start |-> r.start,
                           end |-> r.end, owner |-> owner]
               IN  /\ check_lock_conflict(ino, r, flock.l_type, owner) = {}
                   /\ locks' = [locks EXCEPT
                                  ![ino] = Retained(ino, r, owner) \cup {new}]
                   /\ Cardinality(locks'[ino]) <= MaxLocks
    /\ reply' = NoReply
    /\ UNCHANGED flock_locks

setlk(ino, owner) == \E flock \in Flock : do_setlk(ino, flock, owner)

\* setlkw() does not wait: it is setlk() again.
setlkw(ino, owner) == \E flock \in Flock : do_setlk(ino, flock, owner)

\* Mutant of ReplyWhence: the reply keeps the base of the query.
ReplyWhenceOfQuery(flock) == flock.l_whence

ReplyWhence(flock) == "SEEK_SET"

\* The conflicting lock in the form of the query, with the file it is on.
AsFlock(ino, file_size, flock, l) ==
    [ino |-> ino, file_size |-> file_size,
     l_type |-> l.l_type,
     l_whence |-> ReplyWhence(flock),
     l_start |-> AsI64(l.start),
     l_len |-> IF l.end = U64_MAX THEN 0
               ELSE AsI64(WrappingSub(l.end, l.start)),
     l_pid |-> l.owner]

do_getlk(ino, flock, owner, file_size) ==
    LET conflicts == check_lock_conflict(ino, resolve_flock(flock, file_size),
                                         flock.l_type, owner)
    IN  \/ /\ conflicts = {}
           /\ reply' = NoReply
        \/ \E l \in conflicts :
             reply' = AsFlock(ino, file_size, flock, l)

getlk(ino, owner) ==
    /\ \E flock \in Flock, file_size \in FileSizes :
         /\ flock.l_type # "F_UNLCK"
         /\ do_getlk(ino, flock, owner, file_size)
    /\ UNCHANGED <<locks, flock_locks>>

-----------------------------------------------------------------------------
\* Mutant of FlockConflict: only an existing exclusive lock is looked at.
FlockConflictExisting(lock, kind, owner) ==
    lock.owner # owner /\ lock.kind = "LOCK_EX"

FlockConflict(lock, kind, owner) ==
    lock.owner # owner /\ "LOCK_EX" \in {lock.kind, kind}

flock_acquire(ino, kind, owner) ==
    /\ \A lock \in flock_locks[ino] : ~FlockConflict(lock, kind, owner)
    /\ flock_locks' = [flock_locks EXCEPT
                         ![ino] = {l \in @ : l.owner # owner}
                                  \cup {[kind |-> kind, owner |-> owner]}]
    /\ reply' = NoReply
    /\ UNCHANGED locks

flock_release(ino, owner) ==
    /\ release_flock_owner(ino, owner)
    /\ reply' = NoReply
    /\ UNCHANGED locks

\* FUSE_RELEASE with a lock owner.
release_locks(ino, owner) ==
    /\ release_owner_locks(ino, owner)
    /\ release_flock_owner(ino, owner)
    /\ reply' = NoReply

Next ==
    \E ino \in Inodes, owner \in Owners :
        \/ setlk(ino, owner)
        \/ setlkw(ino, owner)
        \/ getlk(ino, owner)
        \/ \E kind \in {"LOCK_SH", "LOCK_EX"} : flock_acquire(ino, kind, owner)
        \/ flock_release(ino, owner)
        \/ release_locks(ino, owner)

Spec == Init /\ [][Next]_vars

-----------------------------------------------------------------------------
\* Locks have offsets of their width and known owners.
LockTypeOK ==
    /\ locks \in [Inodes -> SUBSET PosixLock]
    /\ flock_locks \in [Inodes -> SUBSET FlockLock]

\* A lock that does not run to the end of the file has a length that an i64
\* can hold; getlk() relies on it.
LockLens ==
    \A ino \in Inodes : \A l \in locks[ino] :
        l.end = U64_MAX \/ WrappingSub(l.end, l.start) \in 1 .. I64_MAX

LockBytes(l) == l.start .. (l.end - 1)

\* do_setlk() never lets a byte be write-locked by one owner while another
\* owner has a lock on it, whatever base, sign and length the requests had.
PosixExclusion ==
    \A ino \in Inodes : \A l, m \in locks[ino] :
        (l.owner # m.owner /\ "F_WRLCK" \in {l.l_type, m.l_type})
            => LockBytes(l) \cap LockBytes(m) = {}

\* flock() never lets an exclusive lock stand beside the lock of another
\* owner, and an owner has one flock lock per file, through conversions from
\* shared to exclusive and back.
FlockExclusion ==
    \A ino \in Inodes : \A l, m \in flock_locks[ino] :
        (l # m) => (l.owner # m.owner /\ l.kind = "LOCK_SH")

\* What getlk() returns, read back as a request of the same file, is the
\* range and type of a lock the named owner has.
GetlkReply ==
    reply # NoReply =>
        LET r == resolve_flock(reply, reply.file_size)
        IN  [l_type |-> reply.l_type, start |-> r.start, end |-> r.end,
             owner |-> reply.l_pid] \in locks[reply.ino]

\* A request of one owner on one file leaves the locks of every other owner
\* and of every other file alone.
LocksOf(ino, o) == {l \in locks[ino] : l.owner = o}
OthersKept ==
    [][\A i, j \in Inodes, o, p \in Owners :
         (LocksOf(i, o)' # LocksOf(i, o) /\ LocksOf(j, p)' # LocksOf(j, p))
            => (i = j /\ o = p)]_vars
=============================================================================
