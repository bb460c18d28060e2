----------------------------- MODULE LogManager -----------------------------
(***************************************************************************)
(* The log manager (src/src/journal/logmgr.rs): records are appended to a  *)
(* buffer of two log pages and flush_journal() writes the pages of the     *)
(* buffer, syncs, and stores the end of the log in the logsuper.           *)
(*                                                                         *)
(* Offsets and sizes are the real ones, in bytes.  A record is placed at   *)
(* offset `at' of the log data area and occupies `len' bytes; `val' stands *)
(* for the after-image it carries.  The bytes of a log page are abstracted *)
(* to the set of records that have bytes in the page, all other bytes      *)
(* being zero.  dev is what a read of the device returns; ddur holds, per  *)
(* page, every content a power loss may leave, and sup_dev and sup_dur     *)
(* do the same for the logsuper.  A page write is atomic, a record that    *)
(* spans two pages is not.                                                 *)
(*                                                                         *)
(* One call runs at a time: LogManager is reached through the volume,      *)
(* behind one lock.   `step' is the place inside the call, and every       *)
(* storage call is a step of its own, so a crash or an error can fall      *)
(* between any two.                                                        *)
(***************************************************************************)
EXTENDS Integers, FiniteSets

CONSTANTS
    FsBlocks,   \* metadata blocks that can be logged
    LogStates,  \* logsuper states the log may have when the manager starts
    MaxUnit,    \* bound: buffer units of the log area
    MaxVal,     \* bound: records appended
    LogFaults   \* TRUE: any storage call may return an error

ASSUME LogAssumption ==
    /\ LogStates \subseteq {"LOGMOUNT", "LOGREDONE", "LOGWRAP", "LOGREADERR"}
    /\ MaxUnit \in Nat /\ MaxVal \in Nat
    /\ LogFaults \in BOOLEAN

VARIABLES
    write_offset,        \* LogManager::write_offset
    prev_record_offset,  \* LogManager::prev_record_offset
    log_buffer,          \* records in LogManager::log_buffer
    buffer_dirty,        \* LogManager::buffer_dirty
    logsuper,            \* LogManager::logsuper: state and end
    step,                \* next step of the running call, "idle" if none
    call,                \* set of the record the call still has to place
    flush_page,          \* loop counter of flush_journal()
    dev,                 \* log pages as a read returns them
    ddur,                \* contents of each log page after a power loss
    sup_dev,             \* logsuper on the device, as a read returns it
    sup_dur,             \* logsupers a power loss may leave
    log_tid,             \* transaction that is appending records
    placed,              \* every record placed in the buffer since the start
    acked,               \* transactions whose commit_transaction() returned Ok
    vals                 \* number of records appended so far

callVars == <<step, call, flush_page>>
bufVars == <<write_offset, prev_record_offset, log_buffer, buffer_dirty>>
devVars == <<dev, ddur, sup_dev, sup_dur>>
auxVars == <<log_tid, placed, acked, vals>>
lmVars == <<callVars, bufVars, logsuper, devVars, auxVars>>

-----------------------------------------------------------------------------
LOGPSIZE == 4096
BLOCK_SIZE == 4096
LRD_SIZE == 36
LOG_BUFFER_SIZE == 2 * LOGPSIZE

NoBlock == "none"  \* the block of a commit record

LogPageNums == 0 .. 2 * MaxUnit - 1

\* The length of an after-image: a page, or nothing for an entry whose block
\* could not be read (PageCache::get_or_load caches an empty page then).
DataLengths == {0, BLOCK_SIZE}

\* Some byte of record r lies in log page p.
InPage(r, p) == r.at < (p + 1) * LOGPSIZE /\ p * LOGPSIZE < r.at + r.len

\* No content of a page of r that a power loss may leave lacks r.
Stable(r) ==
    \A p \in LogPageNums : InPage(r, p) => \A c \in ddur[p] : r \in c

\* LogManager::new on a freshly formatted log: the pages are zero, the end is
\* 0.
LogInit ==
    /\ write_offset = 0 /\ prev_record_offset = 0
    /\ log_buffer = {} /\ buffer_dirty = FALSE
    /\ \E s \in LogStates : logsuper = [state |-> s, end |-> 0]
    /\ step = "idle" /\ call = {} /\ flush_page = 0
    /\ sup_dev = logsuper /\ sup_dur = {logsuper}
    /\ dev = [p \in LogPageNums |-> {}]
    /\ ddur = [p \in LogPageNums |-> {{}}]
    /\ log_tid = 1
    /\ placed = {} /\ acked = {} /\ vals = 0

-----------------------------------------------------------------------------
(* Pieces of the calls.                                                    *)

\* The next buffer-unit boundary at or after an offset.
AlignUp(offset) ==
    ((offset + LOG_BUFFER_SIZE - 1) \div LOG_BUFFER_SIZE) * LOG_BUFFER_SIZE

\* Mutant of Fits: room for the record header only, not for its data.
FitsHeader(offset, len) ==
    (offset % LOG_BUFFER_SIZE) + LRD_SIZE <= LOG_BUFFER_SIZE

\* A record of `len' bytes at this offset stays inside the buffer unit.
Fits(offset, len) == (offset % LOG_BUFFER_SIZE) + len <= LOG_BUFFER_SIZE

\* Store a record at an offset of the log, in the buffer.
Place(rec, offset, kept) ==
    LET r == [rec EXCEPT !.at = offset, !.back = prev_record_offset]
    IN  /\ log_buffer' = kept \cup {r}
        /\ placed' = placed \cup {r}
        /\ buffer_dirty' = TRUE
        /\ write_offset' = offset + rec.len
        /\ prev_record_offset' =
              IF rec.kind = "redopage" THEN offset ELSE prev_record_offset

\* What a call does with its record once there is room at `offset': a page
\* record ends the call, a commit record is followed by flush_journal().
PlaceAndContinue(rec, offset, kept) ==
    /\ Place(rec, offset, kept)
    /\ call' = {}
    /\ step' = IF rec.kind = "commit" THEN "pages" ELSE "idle"
    /\ flush_page' = 0

\* A call with a record: placed if it fits, else flush_journal() comes first.
StartCall(rec) ==
    IF Fits(write_offset, rec.len)
    THEN PlaceAndContinue(rec, write_offset, log_buffer)
    ELSE /\ call' = {rec} /\ step' = "pages" /\ flush_page' = 0
         /\ UNCHANGED <<bufVars, placed>>

\* Where the pages of the buffer begin in the log.
buffer_start == write_offset - (write_offset % LOG_BUFFER_SIZE)
start_page == buffer_start \div LOGPSIZE

\* Mutants of dirty_page_count: one page too many; only complete pages.
dirty_page_count_over == (write_offset - buffer_start) \div LOGPSIZE + 2
dirty_page_count_floor == (write_offset - buffer_start) \div LOGPSIZE

\* The number of pages, complete or partial, that flush_journal() writes.
dirty_page_count ==
    (write_offset - buffer_start + LOGPSIZE - 1) \div LOGPSIZE

-----------------------------------------------------------------------------
(* The calls commit() makes.                                               *)

\* append_log_record() for a block of the transaction.
append_log_record(block, len) ==
    /\ step = "idle"
    /\ vals < MaxVal
    /\ AlignUp(write_offset + LRD_SIZE + len) <= MaxUnit * LOG_BUFFER_SIZE
    /\ vals' = vals + 1
    /\ StartCall([kind |-> "redopage", tid |-> log_tid, block |-> block,
                  val |-> vals + 1, at |-> 0, len |-> LRD_SIZE + len,
                  back |-> 0])
    /\ UNCHANGED <<logsuper, devVars, log_tid, acked>>

\* commit_transaction().
commit_transaction ==
    /\ step = "idle"
    /\ vals < MaxVal
    /\ AlignUp(write_offset + LRD_SIZE) <= MaxUnit * LOG_BUFFER_SIZE
    /\ vals' = vals + 1
    /\ StartCall([kind |-> "commit", tid |-> log_tid, block |-> NoBlock,
                  val |-> vals + 1, at |-> 0, len |-> LRD_SIZE, back |-> 0])
    /\ UNCHANGED <<logsuper, devVars, log_tid, acked>>

\* Mutant of BufferPage: the pages are written from the last to the first.
BufferPageBackwards(n) == start_page + dirty_page_count - 1 - n

\* The n-th page that flush_journal() writes.
BufferPage(n) == start_page + n

\* write_page() of the next page of the buffer, or the end of the loop.
write_page ==
    /\ step = "pages"
    /\ IF buffer_dirty /\ flush_page < dirty_page_count
       THEN LET p == BufferPage(flush_page)
                c == {r \in log_buffer : InPage(r, p)}
            IN  /\ dev' = [dev EXCEPT ![p] = c]
                /\ ddur' = [ddur EXCEPT ![p] = @ \cup {c}]
                /\ flush_page' = flush_page + 1
                /\ UNCHANGED step
       ELSE step' = "sync" /\ UNCHANGED <<dev, ddur, flush_page>>
    /\ UNCHANGED <<call, bufVars, logsuper, sup_dev, sup_dur, auxVars>>

\* A completed sync of the log device.
SyncLog ==
    /\ ddur' = [p \in LogPageNums |-> {dev[p]}]
    /\ sup_dur' = {sup_dev}

\* Mutant of sync_journal: the sync is skipped.
skip_sync_journal ==
    /\ step = "sync" /\ step' = "super"
    /\ UNCHANGED <<call, flush_page, bufVars, logsuper, devVars, auxVars>>

\* flush_metadata() and sync() in flush_journal().
sync_journal ==
    /\ step = "sync" /\ step' = "super"
    /\ SyncLog
    /\ UNCHANGED <<call, flush_page, bufVars, logsuper, dev, sup_dev, auxVars>>

\* write_super() with the new end, which is not synced, and the return of
\* flush_journal() to its caller: a call that waits for room clears the
\* buffer and places its record in the next unit; otherwise it was the commit
\* record that was flushed, and the transaction is acknowledged.
write_super ==
    /\ step = "super"
    /\ logsuper' = [logsuper EXCEPT !.end = write_offset]
    /\ sup_dev' = logsuper'
    /\ sup_dur' = sup_dur \cup {logsuper'}
    /\ \/ \E rec \in call :
             /\ PlaceAndContinue(rec, AlignUp(write_offset), {})
             /\ UNCHANGED <<log_tid, acked>>
       \/ /\ call = {}
          /\ prev_record_offset' = 0
          /\ step' = "idle"
          /\ acked' = acked \cup {log_tid}
          /\ log_tid' = log_tid + 1
          /\ UNCHANGED <<call, flush_page, write_offset, log_buffer,
                         buffer_dirty, placed>>
    /\ UNCHANGED <<dev, ddur, vals>>

\* A storage call of flush_journal() returns an error, and with it the call
\* and commit(): nothing is undone, the next transaction goes on from here.
\* In write_super() the end in memory has been set already.
log_error ==
    /\ LogFaults /\ step # "idle"
    /\ \/ step = "pages" /\ buffer_dirty /\ flush_page < dirty_page_count
          /\ UNCHANGED logsuper
       \/ step = "sync" /\ UNCHANGED logsuper
       \/ step = "super" /\ logsuper' = [logsuper EXCEPT !.end = write_offset]
    /\ step' = "idle" /\ call' = {} /\ flush_page' = 0
    /\ log_tid' = log_tid + 1
    /\ UNCHANGED <<bufVars, devVars, placed, acked, vals>>

\* A sync issued by another component (flush_data(), flush_metadata(), fsync)
\* reaches the log as well: an inline log is part of the image file.
other_sync ==
    /\ step = "idle"
    /\ SyncLog
    /\ UNCHANGED <<callVars, bufVars, logsuper, dev, sup_dev, auxVars>>

LogNext ==
    \/ \E b \in FsBlocks, len \in DataLengths : append_log_record(b, len)
    \/ commit_transaction
    \/ write_page
    \/ sync_journal
    \/ write_super
    \/ log_error
    \/ other_sync

LogSpec == LogInit /\ [][LogNext]_lmVars

-----------------------------------------------------------------------------
(* Properties.                                                             *)

Record ==
    [kind : {"redopage", "commit"}, tid : Nat, block : FsBlocks \cup {NoBlock},
     val : Nat, at : Nat, len : Nat, back : Nat]
Super == [state : LogStates, end : Nat]

\* Every variable has its type.
LogTypeOK ==
    /\ write_offset \in Nat /\ prev_record_offset \in Nat
    /\ log_buffer \in SUBSET Record /\ buffer_dirty \in BOOLEAN
    /\ logsuper \in Super
    /\ step \in {"idle", "pages", "sync", "super"}
    /\ call \in SUBSET Record /\ flush_page \in 0 .. 2
    /\ dev \in [LogPageNums -> SUBSET Record]
    /\ ddur \in [LogPageNums -> SUBSET SUBSET Record]
    /\ sup_dev \in Super /\ sup_dur \in SUBSET Super
    /\ log_tid \in Nat /\ vals \in Nat
    /\ placed \in SUBSET Record /\ acked \in SUBSET Nat

\* The records placed since the manager started never share a byte, none of
\* them straddles two buffer units, and the buffer holds exactly those of the
\* current unit, so that a flush can never overwrite a record with zeros,
\* whatever flushes failed before.
RecordsWellPlaced ==
    /\ \A r, s \in placed :
          r # s => r.at + r.len <= s.at \/ s.at + s.len <= r.at
    /\ \A r \in placed :
          LET last == r.at + r.len - 1
          IN  /\ last < write_offset
              /\ r.at \div LOG_BUFFER_SIZE = last \div LOG_BUFFER_SIZE
    /\ log_buffer = {r \in placed : r.at >= buffer_start}

\* commit_transaction() returns Ok only when the commit record and every page
\* record of the transaction survive any power loss.
CommitDurable ==
    \A t \in acked :
        /\ \E r \in placed : r.tid = t /\ r.kind = "commit"
        /\ \A r \in placed : r.tid = t => Stable(r)

\* The end of the log never runs ahead of the log: every record before an end
\* that a power loss may leave in the logsuper survives that power loss.
EndNotAhead ==
    \A s \in sup_dur : \A r \in placed : r.at + r.len <= s.end => Stable(r)

\* A commit record is never durable before the page records it commits: not
\* when a flush fails half way and another component syncs the device, not
\* when the commit record of a failed transaction is flushed by a later one.
CommitAfterPages ==
    \A c \in placed : c.kind = "commit" /\ Stable(c) =>
        \A r \in placed : r.tid = c.tid => Stable(r)

=============================================================================
