-------------------------- MODULE JournalRecovery ---------------------------
(***************************************************************************)
(* Journal recovery (JournalRecovery in src/src/journal/recovery.rs, run   *)
(* by Volume::recover_journal at mount): the records that the forward scan *)
(* collected are processed from the last one back, committed after-images  *)
(* are written to their blocks, and LOGREDONE is stored in the logsuper.   *)
(*                                                                         *)
(* recs is the result of the forward scan, with every kind of record that  *)
(* process_record() tells apart (the log may come from another JFS         *)
(* implementation; this one writes only "redopage" and "commit").  `val'   *)
(* stands for an after-image, `ptype' for the type of its page.  `stops'   *)
(* marks a LOG_SYNCPT whose address lies at or behind the end of the scan, *)
(* which ends the replay.  Records that never change anything here         *)
(* (LOG_UPDATEMAP with the empty working map recovery starts with,         *)
(* LOG_NOREDOFILE, which no branch handles) are of kind "other".           *)
(*                                                                         *)
(* fs is the block device as a read returns it, fsdur the contents each    *)
(* block may have after a power loss; redone_dev and redone_dur do the     *)
(* same for "the logsuper says LOGREDONE".                                 *)
(***************************************************************************)
EXTENDS Integers, Sequences

CONSTANTS
    FsBlocks,     \* metadata blocks
    Tids,         \* transaction identifiers in the log
    Aggregates,   \* aggregate numbers in the log
    LogEntries,   \* records the log of the standalone model is made of
    MaxLog,       \* bound: records in the log
    MaxRestart    \* bound: interrupted recoveries

ASSUME RecoveryAssumption ==
    /\ MaxLog \in Nat /\ MaxRestart \in Nat
    /\ LogEntries \subseteq
         [kind : {"commit", "mount", "syncpt", "redopage", "noredopage",
                  "other"},
          tid : Tids, agg : Aggregates, block : FsBlocks,
          ptype : {"inode", "data", "unknown"}, stops : BOOLEAN]

VARIABLES
    recs,        \* records collected by the forward scan, oldest first
    left,        \* how many of them are still to be processed
    committed,   \* CommitTracker::committed
    tracked,     \* blocks with a PageTracker
    complete,    \* blocks whose PageTracker is_complete()
    clean,       \* aggregates whose RecoveryVolume is_clean()
    rpc,         \* where recover_journal() is
    fs, fsdur,
    redone_dev, redone_dur,
    restarts     \* interrupted recoveries so far

memVars == <<left, committed, tracked, complete, clean>>
fsVars == <<fs, fsdur>>
redoneVars == <<redone_dev, redone_dur>>
recVars == <<recs, memVars, rpc, fsVars, redoneVars, restarts>>

-----------------------------------------------------------------------------
Before == 0  \* the content of a block before the recovery

\* JournalRecovery::new: nothing is remembered of an earlier attempt.
RecoveryMemory ==
    /\ left = Len(recs)
    /\ committed = {} /\ tracked = {} /\ complete = {} /\ clean = {}

RecoveryInit ==
    /\ \E k \in 0 .. MaxLog : \E e \in [1 .. k -> LogEntries] :
          recs = [n \in 1 .. k |->
                    [kind |-> e[n].kind, tid |-> e[n].tid, agg |-> e[n].agg,
                     block |-> e[n].block, ptype |-> e[n].ptype,
                     stops |-> e[n].stops, val |-> n]]
    /\ RecoveryMemory
    /\ rpc = "replay"
    /\ fs = [b \in FsBlocks |-> Before]
    /\ fsdur = [b \in FsBlocks |-> {Before}]
    /\ redone_dev = FALSE /\ redone_dur = {FALSE}
    /\ restarts = 0

-----------------------------------------------------------------------------
(* process_record(), one disjunct per branch.                              *)

\* Mutant of is_committed: the commit record is not looked for.
any_transaction(tid) == TRUE

\* CommitTracker::is_committed.
is_committed(tid) == tid \in committed

commit_seen(r) ==
    /\ r.kind = "commit"
    /\ committed' = committed \cup {r.tid}
    /\ UNCHANGED <<tracked, complete, clean, fsVars>>

mount_seen(r) ==
    /\ r.kind = "mount"
    /\ clean' = clean \cup {r.agg}
    /\ UNCHANGED <<committed, tracked, complete, fsVars>>

skipped(r) ==
    /\ \/ r.kind \in {"syncpt", "other"}
       \/ r.kind \in {"redopage", "noredopage"} /\ ~is_committed(r.tid)
    /\ UNCHANGED <<committed, tracked, complete, clean, fsVars>>

\* write_block() of an after-image; nothing is synced yet.
WriteImage(r) ==
    /\ fs' = [fs EXCEPT ![r.block] = r.val]
    /\ fsdur' = [fsdur EXCEPT ![r.block] = @ \cup {r.val}]

\* do_after() and update_page().  A tracker that update_page() creates or
\* updates never becomes complete: its summary stays below 0xff.
do_after(r) ==
    /\ r.kind = "redopage" /\ is_committed(r.tid)
    /\ UNCHANGED <<committed, complete, clean>>
    /\ IF r.agg \in clean \/ r.block \in complete \/ r.ptype = "unknown"
       THEN UNCHANGED <<tracked, fsVars>>
       ELSE /\ WriteImage(r)
            /\ tracked' = IF r.ptype = "inode" THEN tracked \cup {r.block}
                          ELSE tracked

\* do_no_redo_page(), and do_no_redo_ino_ext() of an extent of one page: only
\* a tracker that exists already is set to no-redo; otherwise a fresh one,
\* without the filter, is stored.
do_no_redo_page(r) ==
    /\ r.kind = "noredopage" /\ is_committed(r.tid)
    /\ IF r.block \in tracked
       THEN complete' = complete \cup {r.block} /\ UNCHANGED tracked
       ELSE tracked' = tracked \cup {r.block} /\ UNCHANGED complete
    /\ UNCHANGED <<committed, clean, fsVars>>

\* Mutant of remaining: a record of no interest is looked at again.
remaining_forgotten(r) == IF r.kind = "other" THEN left ELSE left - 1

\* The number of records still to be processed after r: none when a syncpt
\* behind the end of the scan breaks the loop.
remaining(r) == IF r.kind = "syncpt" /\ r.stops THEN 0 ELSE left - 1

process_record ==
    /\ rpc = "replay" /\ left > 0
    /\ LET r == recs[left]
       IN  /\ \/ commit_seen(r)
              \/ mount_seen(r)
              \/ skipped(r)
              \/ do_after(r)
              \/ do_no_redo_page(r)
           /\ left' = remaining(r)
    /\ UNCHANGED <<recs, rpc, redoneVars, restarts>>

-----------------------------------------------------------------------------
(* The end of the recovery, and its interruptions.                         *)

\* The end of replay(): LOGREDONE is written, no sync has happened yet.
write_redone ==
    /\ rpc = "replay" /\ left = 0
    /\ rpc' = "super"
    /\ redone_dev' = TRUE
    /\ redone_dur' = redone_dur \cup {TRUE}
    /\ UNCHANGED <<recs, memVars, fsVars, restarts>>

\* finalize() and write_super(): LOGREDONE once more.
finalize ==
    /\ rpc = "super" /\ rpc' = "sync"
    /\ redone_dev' = TRUE
    /\ redone_dur' = redone_dur \cup {TRUE}
    /\ UNCHANGED <<recs, memVars, fsVars, restarts>>

\* log.sync() of an inline log, which is part of the image file.
sync_recovered ==
    /\ rpc = "sync" /\ rpc' = "mounted"
    /\ fsdur' = [b \in FsBlocks |-> {fs[b]}]
    /\ redone_dur' = {redone_dev}
    /\ UNCHANGED <<recs, memVars, fs, redone_dev, restarts>>

\* Mutant of Restart: the page trackers of the last attempt are kept.
RestartTracked ==
    /\ restarts < MaxRestart
    /\ restarts' = restarts + 1
    /\ rpc' = IF redone_dev' THEN "mounted" ELSE "replay"
    /\ left' = Len(recs)
    /\ committed' = {} /\ clean' = {}
    /\ UNCHANGED <<recs, tracked, complete>>

\* Start again from what the device holds: recovery is skipped if the
\* logsuper says LOGREDONE.
Restart ==
    /\ restarts < MaxRestart
    /\ restarts' = restarts + 1
    /\ rpc' = IF redone_dev' THEN "mounted" ELSE "replay"
    /\ left' = Len(recs)
    /\ committed' = {} /\ tracked' = {} /\ complete' = {} /\ clean' = {}
    /\ UNCHANGED recs

\* A power loss during the recovery, and the next mount.
recovery_power_loss ==
    /\ rpc # "mounted"
    /\ fs' \in [FsBlocks -> UNION {fsdur[b] : b \in FsBlocks}]
    /\ \A b \in FsBlocks : fs'[b] \in fsdur[b]
    /\ fsdur' = [b \in FsBlocks |-> {fs'[b]}]
    /\ redone_dev' \in redone_dur
    /\ redone_dur' = {redone_dev'}
    /\ Restart

\* A storage call of the recovery fails, the mount is refused, and the volume
\* is mounted again later.
recovery_error ==
    /\ rpc # "mounted"
    /\ UNCHANGED <<fsVars, redoneVars>>
    /\ Restart

RecoveryStep ==
    process_record \/ write_redone \/ finalize \/ sync_recovered

RecoveryNext == RecoveryStep \/ recovery_power_loss \/ recovery_error

\* The recovery runs to its end unless it is interrupted: it is a loop in the
\* mounting process that waits for nobody.
RecoverySpec ==
    /\ RecoveryInit /\ [][RecoveryNext]_recVars
    /\ WF_recVars(RecoveryStep)

-----------------------------------------------------------------------------
(* Properties.                                                             *)

\* The transaction of record n has a commit record after n.
Committed(n) ==
    \E m \in n + 1 .. Len(recs) :
        recs[m].kind = "commit" /\ recs[m].tid = recs[n].tid

\* The replay reaches record n: no later syncpt ends it.
Reached(n) ==
    \A m \in n + 1 .. Len(recs) : ~(recs[m].kind = "syncpt" /\ recs[m].stops)

\* Record n is a committed after-image of block b that no later mount record
\* of its aggregate makes obsolete.
Redoable(n, b) ==
    /\ recs[n].kind = "redopage" /\ recs[n].block = b
    /\ recs[n].ptype # "unknown"
    /\ Committed(n) /\ Reached(n)
    /\ \A m \in n + 1 .. Len(recs) :
          ~(recs[m].kind = "mount" /\ recs[m].agg = recs[n].agg)

\* Record n is a committed no-redo record of block b.
NoRedo(n, b) ==
    /\ recs[n].kind = "noredopage" /\ recs[n].block = b
    /\ Committed(n) /\ Reached(n)

\* A no-redo record after n is itself followed by a record that leaves a
\* tracker of block b, which is when the code honours it.
Filtered(n, b) ==
    \E m \in n + 1 .. Len(recs) : NoRedo(m, b) /\
        \E k \in m + 1 .. Len(recs) :
            NoRedo(k, b) \/ (Redoable(k, b) /\ recs[k].ptype = "inode")

\* The after-images that the replay writes to block b.
Applied(b) == {n \in 1 .. Len(recs) : Redoable(n, b) /\ ~Filtered(n, b)}

\* Only committed transactions are redone: whatever a block holds during the
\* recovery, or after a power loss in it, is its content before the recovery
\* or an after-image whose commit record follows it in the log and which no
\* mount record makes obsolete.
OnlyCommittedApplied ==
    \A b \in FsBlocks : \A v \in fsdur[b] \cup {fs[b]} :
        \/ v = Before
        \/ \E n \in 1 .. Len(recs) : recs[n].val = v /\ Redoable(n, b)

\* The result of replay() is a function of the log alone, however often it is
\* interrupted by a power loss or an error and started again: each block holds
\* the after-image that is applied last, the oldest one of Applied.
ReplayResult ==
    rpc \in {"super", "sync"} =>
        \A b \in FsBlocks :
            IF Applied(b) = {} THEN fs[b] = Before
            ELSE \E n \in Applied(b) :
                    /\ fs[b] = recs[n].val
                    /\ \A m \in Applied(b) : n <= m

\* recover_journal() comes to its end, unless it is interrupted for ever.
RecoveryEnds == <>(rpc = "mounted")
=============================================================================
