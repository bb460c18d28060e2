-------------------------- MODULE JournaledVolume ---------------------------
(***************************************************************************)
(* A volume with an inline log through crashes and mounts: the steps of    *)
(* TransactionManager::commit() that touch the image (src/src/             *)
(* transaction.rs), the log manager, and the recovery that the next mount  *)
(* runs (src/src/volume.rs), all on one image file that loses power.       *)
(*                                                                         *)
(* A transaction is the list of its dirty blocks; each after-image is the  *)
(* number of its log record, so larger means newer.  fs and fsdur are the  *)
(* metadata blocks, as in JournalRecovery.  The forward scan reads the log *)
(* pages of LogManager; an after-image one of whose pages holds something  *)
(* else is torn and has the negative value.                                *)
(*                                                                         *)
(* A mount starts LogManager at offset 0 and transactions at 1 again and   *)
(* leaves the old log where it is.                                         *)
(***************************************************************************)
EXTENDS LogManager, Sequences

CONSTANTS
    LogPages,    \* LogSuper::size, in pages
    DirtyLists,  \* the dirty lists transactions may have
    MaxMount     \* bound: mounts after the first

ASSUME VolumeAssumption ==
    /\ DirtyLists \subseteq Seq(FsBlocks)
    /\ LogPages \in Nat /\ MaxMount \in Nat

VARIABLES
    vpc,        \* where commit() is: "idle", "append", "commit", "home"
    txn,        \* dirty list of the committing transaction
    next,       \* next element of the list
    images,     \* after-image of each block in the committing transaction
    recs, left, committed, tracked, complete, clean, rpc, fs, fsdur,
    mounts,     \* mounts so far
    decided,    \* after-images whose commit record was ever appended
    journaled,  \* newest after-image of each block that commit_transaction()
                \* reported durable
    survivor,   \* newest after-image of each block that commit() acknowledged
    replayed    \* some mount has run the recovery

commitVars == <<vpc, txn, next, images>>
recoveryVars == <<recs, left, committed, tracked, complete, clean, rpc>>
ghostVars == <<decided, journaled, survivor>>
mountVars == <<mounts, replayed>>
vars == <<lmVars, commitVars, recoveryVars, fs, fsdur, mountVars, ghostVars>>

Recovery == INSTANCE JournalRecovery WITH
    Tids <- Nat, Aggregates <- {0}, LogEntries <- {}, MaxLog <- 0,
    MaxRestart <- MaxMount, restarts <- mounts,
    redone_dev <- sup_dev.state = "LOGREDONE",
    redone_dur <- {s.state = "LOGREDONE" : s \in sup_dur}

-----------------------------------------------------------------------------
Init ==
    /\ LogInit
    /\ vpc = "idle" /\ txn = <<>> /\ next = 1
    /\ images = [b \in FsBlocks |-> 0]
    /\ recs = <<>> /\ left = 0
    /\ committed = {} /\ tracked = {} /\ complete = {} /\ clean = {}
    /\ rpc = "mounted"
    /\ fs = [b \in FsBlocks |-> 0] /\ fsdur = [b \in FsBlocks |-> {0}]
    /\ mounts = 0 /\ replayed = FALSE
    /\ decided = {}
    /\ journaled = [b \in FsBlocks |-> 0]
    /\ survivor = [b \in FsBlocks |-> 0]

\* A sync of the image file covers the metadata blocks as well as the log.
SyncBlocks == fsdur' = [b \in FsBlocks |-> {fs[b]}]

-----------------------------------------------------------------------------
(* commit().                                                               *)

\* flush_data().
commit_begin(list) ==
    /\ rpc = "mounted" /\ vpc = "idle" /\ step = "idle"
    /\ vals < MaxVal
    /\ vpc' = "append" /\ txn' = list /\ next' = 1
    /\ images' = [b \in FsBlocks |-> 0]
    /\ SyncLog /\ SyncBlocks
    /\ UNCHANGED <<callVars, bufVars, logsuper, dev, sup_dev, auxVars,
                   recoveryVars, fs, mountVars, ghostVars>>

\* append_log_record() of the next dirty page.
commit_append ==
    /\ vpc = "append" /\ next <= Len(txn)
    /\ append_log_record(txn[next], BLOCK_SIZE)
    /\ next' = next + 1
    /\ images' = [images EXCEPT ![txn[next]] = vals']
    /\ UNCHANGED <<vpc, txn, recoveryVars, fs, fsdur, mountVars, ghostVars>>

\* commit_transaction() of the log manager.
commit_record ==
    /\ vpc = "append" /\ next > Len(txn)
    /\ commit_transaction
    /\ vpc' = "commit"
    /\ decided' = decided \cup {images[txn[n]] : n \in 1 .. Len(txn)}
    /\ UNCHANGED <<txn, next, images, recoveryVars, fs, fsdur, mountVars,
                   journaled, survivor>>

\* The steps of flush_journal().
flush_write_page ==
    /\ write_page
    /\ UNCHANGED <<commitVars, recoveryVars, fs, fsdur, mountVars, ghostVars>>

flush_sync ==
    /\ sync_journal /\ SyncBlocks
    /\ UNCHANGED <<commitVars, recoveryVars, fs, mountVars, ghostVars>>

flush_write_super ==
    /\ write_super
    /\ IF log_tid' # log_tid
       THEN /\ vpc' = "home" /\ next' = 1
            /\ journaled' = [b \in FsBlocks |->
                  IF images[b] # 0 THEN images[b] ELSE journaled[b]]
       ELSE UNCHANGED <<vpc, next, journaled>>
    /\ UNCHANGED <<txn, images, recoveryVars, fs, fsdur, mountVars, decided,
                   survivor>>

\* commit() returns the error of the log manager.
commit_error ==
    /\ log_error
    /\ vpc' = "idle"
    /\ UNCHANGED <<txn, next, images, recoveryVars, fs, fsdur, mountVars,
                   ghostVars>>

\* Mutant of home_write: the home location is written while the transaction
\* still appends its records.
home_write_early ==
    /\ vpc \in {"append", "home"} /\ txn # <<>> /\ images[txn[1]] # 0
    /\ fs' = [fs EXCEPT ![txn[1]] = images[txn[1]]]
    /\ fsdur' = [fsdur EXCEPT ![txn[1]] = @ \cup {images[txn[1]]}]
    /\ UNCHANGED <<lmVars, commitVars, recoveryVars, mountVars, ghostVars>>

\* write_block() of the next dirty page.
home_write ==
    /\ vpc = "home" /\ next <= Len(txn)
    /\ LET b == txn[next]
       IN  /\ fs' = [fs EXCEPT ![b] = images[b]]
           /\ fsdur' = [fsdur EXCEPT ![b] = @ \cup {images[b]}]
    /\ next' = next + 1
    /\ UNCHANGED <<lmVars, vpc, txn, images, recoveryVars, mountVars,
                   ghostVars>>

\* Mutant of home_sync: commit() returns without flush_metadata().
home_unsynced ==
    /\ vpc = "home" /\ next > Len(txn)
    /\ vpc' = "idle"
    /\ survivor' = [b \in FsBlocks |->
          IF images[b] # 0 THEN images[b] ELSE survivor[b]]
    /\ UNCHANGED <<lmVars, txn, next, images, recoveryVars, fs, fsdur,
                   mountVars, decided, journaled>>

\* flush_metadata(); commit() returns Ok.
home_sync ==
    /\ vpc = "home" /\ next > Len(txn)
    /\ vpc' = "idle"
    /\ SyncLog /\ SyncBlocks
    /\ survivor' = [b \in FsBlocks |->
          IF images[b] # 0 THEN images[b] ELSE survivor[b]]
    /\ UNCHANGED <<callVars, bufVars, logsuper, dev, sup_dev, auxVars, txn,
                   next, images, recoveryVars, fs, mountVars, decided,
                   journaled>>

-----------------------------------------------------------------------------
(* The forward scan of replay().                                           *)

\* What next_forward() reads at an offset of a log: the record that starts
\* there, its after-image torn if another of its pages lacks it.
ReadAt(pages, offset) ==
    LET p == offset \div LOGPSIZE
        found == IF p \in LogPageNums
                 THEN {r \in pages[p] : r.at = offset} ELSE {}
        torn(r) == \E q \in LogPageNums : InPage(r, q) /\ r \notin pages[q]
    IN  {[kind |-> r.kind, tid |-> r.tid, agg |-> 0, block |-> r.block,
          ptype |-> "inode", stops |-> FALSE, len |-> r.len,
          val |-> IF torn(r) THEN -r.val ELSE r.val] : r \in found}

\* The records from an offset on: up to log_end (0: find_end() sets no bound),
\* the end of the log area, or four zero bytes.
Scan(pages, end) ==
    LET offsets == {0} \cup
            UNION {{r.at + r.len : r \in pages[p]} : p \in LogPageNums}
        From[o \in offsets] ==
            IF o >= LogPages * LOGPSIZE \/ ReadAt(pages, o) = {} THEN <<>>
            ELSE LET r == CHOOSE x \in ReadAt(pages, o) : TRUE
                 IN  IF end > 0 /\ o + r.len > end THEN <<>>
                     ELSE <<r>> \o From[o + r.len]
    IN  From[0]

-----------------------------------------------------------------------------
(* Crashes and mounts.                                                     *)

\* open_from_storage() on what the device holds: a new log manager with the
\* logsuper of the device, and recovery unless that says LOGREDONE.
mount ==
    /\ mounts < MaxMount
    /\ mounts' = mounts + 1
    /\ write_offset' = 0 /\ prev_record_offset' = 0
    /\ log_buffer' = {} /\ buffer_dirty' = FALSE
    /\ logsuper' = sup_dev'
    /\ step' = "idle" /\ call' = {} /\ flush_page' = 0
    /\ log_tid' = 1 /\ placed' = {} /\ acked' = {}
    /\ replayed' = (replayed \/ sup_dev'.state # "LOGREDONE")
    /\ rpc' = IF sup_dev'.state = "LOGREDONE" THEN "mounted" ELSE "replay"
    /\ recs' = IF sup_dev'.state = "LOGREDONE" THEN <<>>
               ELSE Scan(dev', sup_dev'.end)
    /\ left' = Len(recs')
    /\ committed' = {} /\ tracked' = {} /\ complete' = {} /\ clean' = {}
    /\ vpc' = "idle" /\ txn' = <<>> /\ next' = 1
    /\ images' = [b \in FsBlocks |-> 0]
    /\ UNCHANGED <<vals, ghostVars>>

\* What a power loss may leave of a device: one of the possible contents of
\* each of its parts.
Outcomes(cur, dur) ==
    LET open == {x \in DOMAIN dur : dur[x] # {cur[x]}}
    IN  {[x \in DOMAIN dur |-> IF x \in open THEN g[x] ELSE cur[x]] :
            g \in {h \in [open -> UNION {dur[x] : x \in open}] :
                      \A x \in open : h[x] \in dur[x]}}

\* A power loss at any step, and the next mount.
power_loss ==
    /\ dev' \in Outcomes(dev, ddur)
    /\ ddur' = [p \in LogPageNums |-> {dev'[p]}]
    /\ sup_dev' \in sup_dur
    /\ sup_dur' = {sup_dev'}
    /\ fs' \in Outcomes(fs, fsdur)
    /\ fsdur' = [b \in FsBlocks |-> {fs'[b]}]
    /\ mount

\* umount(), which syncs everything, and the next mount.
remount ==
    /\ rpc = "mounted" /\ vpc = "idle" /\ step = "idle"
    /\ SyncLog /\ SyncBlocks
    /\ UNCHANGED <<dev, sup_dev, fs>>
    /\ mount

\* Recovery writes LOGREDONE to the device only: the logsuper that the log
\* manager keeps in memory, and stores with every flush, has the old state.
StoreRedone ==
    /\ sup_dev' = [sup_dev EXCEPT !.state = "LOGREDONE"]
    /\ sup_dur' = sup_dur \cup {sup_dev'}
    /\ UNCHANGED <<dev, ddur>>

recover ==
    /\ \/ UNCHANGED devVars /\ Recovery!process_record
       \/ StoreRedone /\ (Recovery!write_redone \/ Recovery!finalize)
       \/ SyncLog /\ UNCHANGED <<dev, sup_dev>> /\ Recovery!sync_recovered
    /\ UNCHANGED <<callVars, bufVars, logsuper, auxVars, commitVars, mountVars,
                   ghostVars>>

Next ==
    \/ \E list \in DirtyLists : commit_begin(list)
    \/ commit_append
    \/ commit_record
    \/ flush_write_page
    \/ flush_sync
    \/ flush_write_super
    \/ commit_error
    \/ home_write
    \/ home_sync
    \/ power_loss
    \/ remount
    \/ recover

Spec == Init /\ [][Next]_vars

-----------------------------------------------------------------------------
(* Properties.                                                             *)

\* The volume is mounted and no commit() is running.
Quiet == rpc = "mounted" /\ vpc = "idle"

\* An acknowledged transaction is never lost: whatever power losses, clean
\* unmounts and recoveries follow, a block holds the newest after-image that
\* commit() acknowledged for it, or a newer one.
AckedSurvives == Quiet => \A b \in FsBlocks : fs[b] >= survivor[b]

\* The same as long as no mount has replayed the log, which is how it stays on
\* a volume that mkfs formatted: commit() syncs the home locations before it
\* returns, and an acknowledged transaction survives without any replay.
AckedSurvivesUnreplayed == ~replayed => AckedSurvives

\* No block ever holds, not even between a power loss and the end of the
\* recovery, a torn after-image or one of a transaction that never got as far
\* as its commit record.
OnlyDecidedOnDisk ==
    \A b \in FsBlocks : \A v \in fsdur[b] \cup {fs[b]} : v \in decided \cup {0}

\* "Recovery of committed but uncheckpointed transactions": after a mount a
\* block holds the newest after-image that the journal reported durable.
JournaledRecovered == Quiet => \A b \in FsBlocks : fs[b] >= journaled[b]

=============================================================================
