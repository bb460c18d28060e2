-------------------------- MODULE LockTableProofs --------------------------
(***************************************************************************)
(* Proofs about LockTable for any files, owners, width of offsets and      *)
(* requests.                                                               *)
(***************************************************************************)
EXTENDS LockTable, TLAPS

\* The width of an i64 is half of that of a u64.
LEMMA Widths == I64_MAX \in Nat /\ U64_MAX = 2 * I64_MAX + 1
BY U64Assumption DEF I64_MAX

\* resolve_flock() returns offsets, and a length in between that is positive
\* and fits an i64 unless the range runs to the end.
LEMMA ResolveType ==
    ASSUME NEW flock \in Flock, NEW file_size \in FileSizes
    PROVE  LET r == resolve_flock(flock, file_size)
           IN  /\ r.start \in u64
               /\ r.end \in u64
               /\ r.end = U64_MAX
                  \/ WrappingSub(r.end, r.start) \in 1 .. I64_MAX
<1>1. flock.l_start \in i64 /\ flock.l_len \in i64 /\ file_size \in u64
  BY RequestAssumption, FileSizesAssumption DEF Flock, u64
<1>2. AsU64(flock.l_start) \in u64
  BY <1>1, Widths DEF AsU64, i64, u64
<1>3. resolve_start(flock, file_size) \in u64
  BY <1>1, <1>2, U64Assumption DEF resolve_start, SaturatingAdd, u64
<1>4. ASSUME NEW s \in u64
      PROVE  /\ resolve_end(flock, s) \in u64
             /\ resolve_end(flock, s) = U64_MAX
                \/ WrappingSub(resolve_end(flock, s), s) \in 1 .. I64_MAX
  BY <1>1, Widths DEF resolve_end, WrappingAdd, WrappingSub, i64, u64
<1>. QED  BY <1>3, <1>4 DEF resolve_flock

\* What a granted do_setlk() leaves in the lock table.
LEMMA SetlkEffect ==
    ASSUME LockTypeOK, NEW ino \in Inodes, NEW owner \in Owners,
           NEW flock \in Flock, do_setlk(ino, flock, owner)
    PROVE  /\ flock_locks' = flock_locks
           /\ \/ locks' = [locks EXCEPT ![ino] = {l \in @ : l.owner # owner}]
              \/ \E new \in PosixLock :
                   /\ new.owner = owner
                   /\ new.end = U64_MAX
                      \/ WrappingSub(new.end, new.start) \in 1 .. I64_MAX
                   /\ check_lock_conflict(ino, new, new.l_type, owner) = {}
                   /\ locks' = [locks EXCEPT
                                  ![ino] = Retained(ino, new, owner)
                                           \cup {new}]
<1>1. CASE flock.l_type = "F_UNLCK"
  BY <1>1 DEF do_setlk, release_owner_locks
<1>2. CASE flock.l_type # "F_UNLCK"
  <2>1. PICK file_size \in FileSizes :
          LET r == resolve_flock(flock, file_size)
              new == [l_type |-> flock.l_type, start |-> r.start,
                      end |-> r.end, owner |-> owner]
          IN  /\ check_lock_conflict(ino, r, flock.l_type, owner) = {}
              /\ locks' = [locks EXCEPT
                             ![ino] = Retained(ino, r, owner) \cup {new}]
    BY <1>2 DEF do_setlk
  <2>. DEFINE r == resolve_flock(flock, file_size)
              new == [l_type |-> flock.l_type, start |-> r.start,
                      end |-> r.end, owner |-> owner]
  <2>2. flock.l_type \in {"F_RDLCK", "F_WRLCK"}
    BY <1>2 DEF Flock
  <2>3. new \in PosixLock
    BY <2>2, ResolveType DEF PosixLock
  <2>4. new.end = U64_MAX \/ WrappingSub(new.end, new.start) \in 1 .. I64_MAX
    BY ResolveType
  <2>5. check_lock_conflict(ino, new, new.l_type, owner) = {}
    BY <2>1 DEF check_lock_conflict, Overlaps
  <2>6. Retained(ino, new, owner) = Retained(ino, r, owner)
    BY DEF Retained
  <2>7. new.owner = owner
    OBVIOUS
  <2>8. locks' = [locks EXCEPT
                    ![ino] = Retained(ino, new, owner) \cup {new}]
    BY Zenon, <2>1, <2>6
  <2>9. flock_locks' = flock_locks
    BY DEF do_setlk
  <2>. HIDE DEF new
  <2>. QED  BY Zenon, <2>3, <2>4, <2>5, <2>7, <2>8, <2>9
<1>. QED  BY <1>1, <1>2

-----------------------------------------------------------------------------
\* Every request either leaves a lock list alone, drops the locks of one
\* owner, or adds a lock that conflicts with none.
LEMMA PosixStep ==
    ASSUME LockTypeOK, Next
    PROVE  \/ locks' = locks
           \/ \E ino \in Inodes, owner \in Owners :
                \/ locks' = [locks EXCEPT
                               ![ino] = {l \in @ : l.owner # owner}]
                \/ \E new \in PosixLock :
                     /\ new.owner = owner
                     /\ new.end = U64_MAX
                        \/ WrappingSub(new.end, new.start) \in 1 .. I64_MAX
                     /\ check_lock_conflict(ino, new, new.l_type, owner) = {}
                     /\ locks' = [locks EXCEPT
                                    ![ino] = Retained(ino, new, owner)
                                             \cup {new}]
<1>1. PICK ino \in Inodes, owner \in Owners :
        \/ setlk(ino, owner)
        \/ setlkw(ino, owner)
        \/ getlk(ino, owner)
        \/ \E kind \in {"LOCK_SH", "LOCK_EX"} : flock_acquire(ino, kind, owner)
        \/ flock_release(ino, owner)
        \/ release_locks(ino, owner)
  BY DEF Next
<1>2. CASE setlk(ino, owner) \/ setlkw(ino, owner)
  <2>1. PICK flock \in Flock : do_setlk(ino, flock, owner)
    BY <1>2 DEF setlk, setlkw
  <2>. QED  BY <2>1, SetlkEffect
<1>3. CASE release_locks(ino, owner)
  BY Zenon, <1>3 DEF release_locks, release_owner_locks
<1>4. CASE getlk(ino, owner)
  BY <1>4 DEF getlk
<1>5. CASE flock_release(ino, owner)
  BY <1>5 DEF flock_release
<1>6. CASE \E kind \in {"LOCK_SH", "LOCK_EX"} :
             flock_acquire(ino, kind, owner)
  BY <1>6 DEF flock_acquire
<1>. QED  BY <1>1, <1>2, <1>3, <1>4, <1>5, <1>6

\* The same for the flock locks.
LEMMA FlockStep ==
    ASSUME LockTypeOK, Next
    PROVE  \/ flock_locks' = flock_locks
           \/ \E ino \in Inodes, owner \in Owners :
                \/ flock_locks' = [flock_locks EXCEPT
                                     ![ino] = {l \in @ : l.owner # owner}]
                \/ \E kind \in {"LOCK_SH", "LOCK_EX"} :
                     flock_acquire(ino, kind, owner)
<1>1. PICK ino \in Inodes, owner \in Owners :
        \/ setlk(ino, owner)
        \/ setlkw(ino, owner)
        \/ getlk(ino, owner)
        \/ \E kind \in {"LOCK_SH", "LOCK_EX"} : flock_acquire(ino, kind, owner)
        \/ flock_release(ino, owner)
        \/ release_locks(ino, owner)
  BY DEF Next
<1>2. CASE setlk(ino, owner) \/ setlkw(ino, owner)
  BY <1>2 DEF setlk, setlkw, do_setlk
<1>3. CASE getlk(ino, owner)
  BY <1>3 DEF getlk
<1>4. CASE flock_release(ino, owner) \/ release_locks(ino, owner)
  BY <1>4 DEF flock_release, release_locks, release_flock_owner
<1>. QED  BY <1>1, <1>2, <1>3, <1>4

-----------------------------------------------------------------------------
\* Both lock lists keep their types.
LEMMA TypeStep == LockTypeOK /\ [Next]_vars => LockTypeOK'
<1>. SUFFICES ASSUME LockTypeOK, [Next]_vars PROVE LockTypeOK'
  OBVIOUS
<1>1. CASE UNCHANGED vars
  BY <1>1 DEF vars, LockTypeOK
<1>2. CASE Next
  <2>1. locks' \in [Inodes -> SUBSET PosixLock]
    BY <1>2, PosixStep DEF LockTypeOK, Retained
  <2>2. flock_locks' \in [Inodes -> SUBSET FlockLock]
    BY <1>2, FlockStep DEF LockTypeOK, flock_acquire, FlockLock
  <2>. QED  BY <2>1, <2>2 DEF LockTypeOK
<1>. QED  BY <1>1, <1>2

\* Disjointness of ranges by their bounds is disjointness of their bytes.
LEMMA NoOverlap ==
    ASSUME NEW l \in PosixLock, NEW m \in PosixLock, ~Overlaps(l, m)
    PROVE  LockBytes(l) \cap LockBytes(m) = {}
<1>1. /\ l.start \in Int /\ l.end \in Int /\ m.start \in Int /\ m.end \in Int
  BY U64Assumption DEF PosixLock, u64
<1>2. l.start >= m.end \/ m.start >= l.end
  BY DEF Overlaps
<1>. QED  BY <1>1, <1>2 DEF LockBytes

\* No request makes two owners conflict.
LEMMA ExclusionStep ==
    LockTypeOK /\ PosixExclusion /\ [Next]_vars => PosixExclusion'
<1>. SUFFICES ASSUME LockTypeOK, PosixExclusion, [Next]_vars,
                     NEW i \in Inodes, NEW l \in locks'[i],
                     NEW m \in locks'[i], l.owner # m.owner,
                     "F_WRLCK" \in {l.l_type, m.l_type}
              PROVE  LockBytes(l) \cap LockBytes(m) = {}
  BY DEF PosixExclusion, LockBytes
<1>1. CASE l \in locks[i] /\ m \in locks[i]
  BY <1>1 DEF PosixExclusion
<1>2. CASE ~(l \in locks[i] /\ m \in locks[i])
  <2>1. Next
    BY <1>2 DEF vars
  <2>2. PICK ino \in Inodes, owner \in Owners :
          \E new \in PosixLock :
             /\ new.owner = owner
             /\ check_lock_conflict(ino, new, new.l_type, owner) = {}
             /\ locks' = [locks EXCEPT
                            ![ino] = Retained(ino, new, owner) \cup {new}]
    BY <1>2, <2>1, PosixStep DEF LockTypeOK
  <2>3. PICK new \in PosixLock :
             /\ new.owner = owner
             /\ check_lock_conflict(ino, new, new.l_type, owner) = {}
             /\ locks' = [locks EXCEPT
                            ![ino] = Retained(ino, new, owner) \cup {new}]
    BY Zenon, <2>2
  <2>4. i = ino /\ locks'[ino] \subseteq locks[ino] \cup {new}
    BY <1>2, <2>3 DEF LockTypeOK, Retained
  <2>5. ASSUME NEW k \in locks[ino], k.owner # new.owner,
               "F_WRLCK" \in {k.l_type, new.l_type}
        PROVE  LockBytes(k) \cap LockBytes(new) = {}
    <3>1. ~Overlaps(k, new)
      BY <2>3, <2>5 DEF check_lock_conflict, TypesConflict
    <3>2. k \in PosixLock
      BY DEF LockTypeOK
    <3>. QED  BY <3>1, <3>2, NoOverlap
  <2>6. CASE m = new
    BY <2>4, <2>5, <2>6
  <2>7. CASE l = new
    BY <2>4, <2>5, <2>7
  <2>. QED  BY <1>2, <2>4, <2>6, <2>7
<1>. QED  BY <1>1, <1>2

\* No request makes two flock owners conflict or gives an owner two locks.
LEMMA FlockExclusionStep ==
    LockTypeOK /\ FlockExclusion /\ [Next]_vars => FlockExclusion'
<1>. SUFFICES ASSUME LockTypeOK, FlockExclusion, [Next]_vars,
                     NEW i \in Inodes, NEW l \in flock_locks'[i],
                     NEW m \in flock_locks'[i], l # m
              PROVE  l.owner # m.owner /\ l.kind = "LOCK_SH"
  BY DEF FlockExclusion
<1>1. CASE l \in flock_locks[i] /\ m \in flock_locks[i]
  BY <1>1 DEF FlockExclusion
<1>2. CASE ~(l \in flock_locks[i] /\ m \in flock_locks[i])
  <2>1. Next
    BY <1>2 DEF vars
  <2>2. PICK ino \in Inodes, owner \in Owners,
             kind \in {"LOCK_SH", "LOCK_EX"} : flock_acquire(ino, kind, owner)
    BY <1>2, <2>1, FlockStep DEF LockTypeOK
  <2>. DEFINE new == [kind |-> kind, owner |-> owner]
  <2>3. /\ i = ino
        /\ flock_locks'[ino] = {k \in flock_locks[ino] : k.owner # owner}
                               \cup {new}
    BY <1>2, <2>2 DEF LockTypeOK, flock_acquire
  <2>4. ASSUME NEW k \in flock_locks[ino], k.owner # owner
        PROVE  k.kind = "LOCK_SH" /\ kind = "LOCK_SH"
    BY <2>2, <2>4 DEF flock_acquire, FlockConflict, LockTypeOK, FlockLock
  <2>. QED  BY <1>2, <2>3, <2>4
<1>. QED  BY <1>1, <1>2

\* The lengths of the locks keep fitting an i64.
LEMMA LensStep == LockTypeOK /\ LockLens /\ [Next]_vars => LockLens'
<1>. SUFFICES ASSUME LockTypeOK, LockLens, [Next]_vars,
                     NEW i \in Inodes, NEW l \in locks'[i]
              PROVE  \/ l.end = U64_MAX
                     \/ WrappingSub(l.end, l.start) \in 1 .. I64_MAX
  BY DEF LockLens, WrappingSub, I64_MAX
<1>1. CASE l \in locks[i]
  BY <1>1 DEF LockLens
<1>2. CASE l \notin locks[i]
  <2>1. Next
    BY <1>2 DEF vars
  <2>2. PICK ino \in Inodes, owner \in Owners :
          \E new \in PosixLock :
             /\ new.end = U64_MAX
                \/ WrappingSub(new.end, new.start) \in 1 .. I64_MAX
             /\ locks' = [locks EXCEPT
                            ![ino] = Retained(ino, new, owner) \cup {new}]
    BY <1>2, <2>1, PosixStep DEF LockTypeOK
  <2>. QED  BY <1>2, <2>2 DEF LockTypeOK, Retained
<1>. QED  BY <1>1, <1>2

\* A lock written as a reply and resolved again is the same lock.
LEMMA ReplyRoundTrip ==
    ASSUME NEW l \in PosixLock, NEW ino, NEW file_size, NEW flock,
           \/ l.end = U64_MAX
           \/ WrappingSub(l.end, l.start) \in 1 .. I64_MAX
    PROVE  LET rep == AsFlock(ino, file_size, flock, l)
               r == resolve_flock(rep, rep.file_size)
           IN  r.start = l.start /\ r.end = l.end
<1>. DEFINE rep == AsFlock(ino, file_size, flock, l)
            len == IF l.end = U64_MAX THEN 0
                   ELSE AsI64(WrappingSub(l.end, l.start))
<1>1. l.start \in u64 /\ l.end \in u64
  BY DEF PosixLock
<1>2. /\ rep.l_whence = "SEEK_SET" /\ rep.l_start = AsI64(l.start)
      /\ rep.l_len = len
  BY DEF AsFlock, ReplyWhence
<1>3. AsU64(AsI64(l.start)) = l.start
  BY <1>1, Widths DEF AsU64, AsI64, u64
<1>4. resolve_start(rep, rep.file_size) = l.start
  BY <1>2, <1>3 DEF resolve_start
<1>5. (IF len <= 0 THEN U64_MAX ELSE WrappingAdd(l.start, len)) = l.end
  BY <1>1, Widths DEF AsI64, WrappingAdd, WrappingSub, u64
<1>6. resolve_end(rep, l.start) = l.end
  BY <1>2, <1>5 DEF resolve_end
<1>. QED  BY <1>4, <1>6 DEF resolve_flock

\* getlk() replies with a lock of the table, other requests with nothing.
LEMMA ReplyStep ==
    LockTypeOK /\ LockLens /\ GetlkReply /\ [Next]_vars => GetlkReply'
<1>. SUFFICES ASSUME LockTypeOK, LockLens, GetlkReply, [Next]_vars
              PROVE  GetlkReply'
  BY SMTT(40)
<1>1. CASE UNCHANGED vars
  BY SMTT(40), <1>1 DEF vars, GetlkReply, resolve_flock, resolve_start,
     resolve_end,
              SaturatingAdd, AsU64, WrappingAdd
<1>2. CASE reply' = NoReply
  BY SMTT(40), <1>2 DEF GetlkReply
<1>3. ASSUME NEW ino \in Inodes, NEW owner \in Owners, getlk(ino, owner),
             reply' # NoReply
      PROVE  GetlkReply'
  <2>1. PICK flock \in Flock, file_size \in FileSizes :
          do_getlk(ino, flock, owner, file_size)
    BY <1>3 DEF getlk
  <2>2. PICK l \in locks[ino] : reply' = AsFlock(ino, file_size, flock, l)
    BY <1>3, <2>1 DEF do_getlk, check_lock_conflict
  <2>3. l \in PosixLock
    BY DEF LockTypeOK
  <2>4. \/ l.end = U64_MAX
        \/ WrappingSub(l.end, l.start) \in 1 .. I64_MAX
    BY DEF LockLens
  <2>. DEFINE r == resolve_flock(reply', reply'.file_size)
  <2>5. r.start = l.start /\ r.end = l.end
    BY <2>2, <2>3, <2>4, ReplyRoundTrip
  <2>6. /\ reply'.l_type = l.l_type /\ reply'.l_pid = l.owner
        /\ reply'.ino = ino
    BY <2>2 DEF AsFlock
  <2>7. l = [l_type |-> l.l_type, start |-> l.start, end |-> l.end,
             owner |-> l.owner]
    BY <2>3 DEF PosixLock
  <2>8. locks' = locks
    BY <1>3 DEF getlk
  <2>9. [l_type |-> reply'.l_type, start |-> r.start, end |-> r.end,
         owner |-> reply'.l_pid] \in locks'[reply'.ino]
    BY <2>5, <2>6, <2>7, <2>8
  <2>. QED  BY <2>9 DEF GetlkReply, resolve_flock, resolve_start, resolve_end,
                        SaturatingAdd, AsU64, WrappingAdd
<1>4. CASE Next /\ reply' # NoReply
  <2>1. PICK ino \in Inodes, owner \in Owners : getlk(ino, owner)
    BY <1>4 DEF Next, setlk, setlkw, do_setlk, flock_acquire, flock_release,
                release_locks
  <2>. QED  BY SMTT(40), <1>3, <1>4, <2>1
<1>. QED  BY <1>1, <1>2, <1>4

-----------------------------------------------------------------------------
\* The inductive invariant: GetlkReply rests on LockLens, and all rest on the
\* types.
LockInv == /\ LockTypeOK
           /\ LockLens
           /\ PosixExclusion
           /\ FlockExclusion
           /\ GetlkReply

\* The conjunction of the invariants is inductive.
LEMMA LockInvariant == Spec => []LockInv
<1>1. Init => LockInv
  BY DEF Init, LockInv, LockTypeOK, LockLens, PosixExclusion, FlockExclusion,
         GetlkReply
<1>2. LockInv /\ [Next]_vars => LockInv'
  BY TypeStep, LensStep, ExclusionStep, FlockExclusionStep, ReplyStep
     DEF LockInv
<1>. QED  BY <1>1, <1>2, PTL DEF Spec

\* The lock lists always hold locks with offsets of their width.
THEOREM LockTypeCorrect == Spec => []LockTypeOK
BY LockInvariant, PTL DEF LockInv

\* do_setlk() never grants a byte to a writer and another owner.
THEOREM PosixExclusionHolds == Spec => []PosixExclusion
BY LockInvariant, PTL DEF LockInv

\* flock() never grants a file to an exclusive and another owner.
THEOREM FlockExclusionHolds == Spec => []FlockExclusion
BY LockInvariant, PTL DEF LockInv

\* What getlk() returns describes a lock of the table exactly.
THEOREM GetlkReplyExact == Spec => []GetlkReply
BY LockInvariant, PTL DEF LockInv

\* A request changes the POSIX locks of at most one owner on one file.
THEOREM OthersKeptHolds == Spec => OthersKept
<1>1. LockTypeOK /\ [Next]_vars =>
        [\A i, j \in Inodes, o, p \in Owners :
           (LocksOf(i, o)' # LocksOf(i, o) /\ LocksOf(j, p)' # LocksOf(j, p))
              => (i = j /\ o = p)]_vars
  <2>. SUFFICES ASSUME LockTypeOK, Next,
                       NEW i \in Inodes, NEW j \in Inodes,
                       NEW o \in Owners, NEW p \in Owners,
                       LocksOf(i, o)' # LocksOf(i, o),
                       LocksOf(j, p)' # LocksOf(j, p)
                PROVE  i = j /\ o = p
    OBVIOUS
  <2>1. PICK ino \in Inodes, owner \in Owners :
          \A k \in Inodes, q \in Owners :
             LocksOf(k, q)' # LocksOf(k, q) => k = ino /\ q = owner
    <3>1. locks' # locks
      BY DEF LocksOf
    <3>2. ASSUME NEW ino \in Inodes, NEW owner \in Owners,
                 locks' = [locks EXCEPT ![ino] = {l \in @ : l.owner # owner}],
                 NEW k \in Inodes, NEW q \in Owners, k # ino \/ q # owner
          PROVE  LocksOf(k, q)' = LocksOf(k, q)
      BY <3>2 DEF LocksOf, LockTypeOK
    <3>3. ASSUME NEW ino \in Inodes, NEW owner \in Owners,
                 NEW new \in PosixLock, new.owner = owner,
                 locks' = [locks EXCEPT
                             ![ino] = Retained(ino, new, owner) \cup {new}],
                 NEW k \in Inodes, NEW q \in Owners, k # ino \/ q # owner
          PROVE  LocksOf(k, q)' = LocksOf(k, q)
      <4>1. CASE k # ino
        BY SMTT(40), <3>3, <4>1 DEF LocksOf, LockTypeOK
      <4>2. CASE k = ino /\ q # owner
        <5>1. locks'[k] = Retained(ino, new, owner) \cup {new}
          BY <3>3, <4>2 DEF LockTypeOK
        <5>2. \A l : (l \in locks'[k] /\ l.owner = q)
                        <=> (l \in locks[k] /\ l.owner = q)
          BY <3>3, <4>2, <5>1 DEF Retained
        <5>. QED  BY <5>2 DEF LocksOf
      <4>. QED  BY <3>3, <4>1, <4>2
    <3>4. PICK ino \in Inodes, owner \in Owners :
            \/ locks' = [locks EXCEPT ![ino] = {l \in @ : l.owner # owner}]
            \/ \E new \in PosixLock :
                 /\ new.owner = owner
                 /\ locks' = [locks EXCEPT
                                ![ino] = Retained(ino, new, owner)
                                         \cup {new}]
      BY <3>1, PosixStep
    <3>5. \A k \in Inodes, q \in Owners :
             LocksOf(k, q)' # LocksOf(k, q) => k = ino /\ q = owner
      BY <3>2, <3>3, <3>4
    <3>. QED  BY <3>5
  <2>. QED  BY <2>1
<1>. QED  BY <1>1, LockInvariant, PTL DEF Spec, LockInv, OthersKept
=============================================================================
