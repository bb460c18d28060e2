------------------------- MODULE TransactionManager -------------------------
(***************************************************************************)
(* The transaction manager (src/src/transaction.rs) over the page cache    *)
(* (src/src/storage/mod.rs) and the storage backend.                       *)
(*                                                                         *)
(* A cached page is keyed by (inode, inode-table block).  Several inodes   *)
(* live in one table block, so several cache entries may be copies of the  *)
(* same block; BlockOf[i] is the block that holds the dinode of i.  The    *)
(* image of a block gives the dinode of each inode: `ver' stamps its last  *)
(* update, `ext' counts the data writes it may refer to.                   *)
(*                                                                         *)
(* Storage keeps what a read returns (`meta') and, per block, the set of   *)
(* images a power loss may leave (`mdur'): a write adds one, a completed   *)
(* flush keeps only the newest.  The journal is seen through the calls     *)
(* that commit() makes: a record sits in the log buffer until a flush      *)
(* makes it durable.  LogManager models offsets, pages and the logsuper.   *)
(*                                                                         *)
(* pin_count is 0 whenever no call is running (update_inode_page pins and  *)
(* unpins, every other unpin saturates), so pins are left to PageCache,    *)
(* which also models LRU order and eviction.                               *)
(***************************************************************************)
EXTENDS Integers, Sequences

CONSTANTS
    Inodes,        \* inode numbers
    Blocks,        \* inode-table blocks
    BlockOf,       \* the table block of each inode
    MaxTxn,        \* bound: transactions begun
    MaxUpdate,     \* bound: page updates
    MaxData,       \* bound: data writes
    StorageFaults  \* TRUE: any storage call may return an error

ASSUME BlockOfAssumption == BlockOf \in [Inodes -> Blocks]

ASSUME BoundAssumption ==
    /\ MaxTxn \in Nat /\ MaxUpdate \in Nat /\ MaxData \in Nat
    /\ StorageFaults \in BOOLEAN

VARIABLES
    journal,         \* TRUE: the volume has a log manager (Volume::log)
    next_txid,       \* TransactionManager::next_txid
    active,          \* txid of TransactionManager::active, NoTxn for None
    dirty_pages,     \* dirty_pages of the active (or committing) transaction
    last_committed,  \* TransactionManager::last_committed
    pc,              \* where commit() is; "idle" outside it
    committing,      \* the txid that commit() took out of `active'
    idx,             \* next element of dirty_pages in commit()'s loops
    cached,          \* keys present in PageCache::cache
    page,            \* CachedPage::data of each key
    dirty,           \* keys whose CachedPage::dirty is set
    owner,           \* CachedPage::txid of each key
    meta,            \* inode-table blocks as a read returns them
    mdur,            \* images each block may hold after a power loss
    data_written,    \* number of data writes issued
    data_synced,     \* number of data writes known to be durable
    buf_redo,        \* after-images in the log buffer, not yet durable
    buf_commit,      \* txids whose commit record is in the log buffer
    log_redo,        \* durable after-images
    log_commit,      \* txids with a durable commit record
    stamp            \* number of page updates so far

txnVars == <<journal, next_txid, active, dirty_pages, last_committed>>
commitVars == <<pc, committing, idx>>
cacheVars == <<cached, page, dirty, owner>>
storageVars == <<meta, mdur, data_written, data_synced>>
logVars == <<buf_redo, buf_commit, log_redo, log_commit>>
vars == <<txnVars, commitVars, cacheVars, storageVars, logVars, stamp>>

-----------------------------------------------------------------------------
NoTxn == 0

Dinode == [ver : Nat, ext : Nat]
Image == [Inodes -> Dinode]
FreshImage == [i \in Inodes |-> [ver |-> 0, ext |-> 0]]
Redo == [tid : Nat, block : Blocks, data : Image]

\* Mutant of FirstPage: the loops start one before the first page.
ZerothPage == 0

\* Where commit()'s loops over the dirty list start.
FirstPage == 1

\* The keys of a dirty list.
Keys(s) == {s[n] : n \in 1 .. Len(s)}

Init ==
    /\ journal \in BOOLEAN
    /\ next_txid = 1
    /\ active = NoTxn
    /\ dirty_pages = <<>>
    /\ last_committed = 0
    /\ pc = "idle"
    /\ committing = NoTxn
    /\ idx = FirstPage
    /\ cached = {}
    /\ page = [i \in Inodes |-> FreshImage]
    /\ dirty = {}
    /\ owner = [i \in Inodes |-> NoTxn]
    /\ meta = [b \in Blocks |-> FreshImage]
    /\ mdur = [b \in Blocks |-> {FreshImage}]
    /\ data_written = 0
    /\ data_synced = 0
    /\ buf_redo = {}
    /\ buf_commit = {}
    /\ log_redo = {}
    /\ log_commit = {}
    /\ stamp = 0

-----------------------------------------------------------------------------
(* Storage and page cache calls.                                           *)

\* A completed sync_data/sync_all of the image file: every write so far, data
\* or metadata, is on stable storage.
SyncStorage ==
    /\ mdur' = [b \in Blocks |-> {meta[b]}]
    /\ data_synced' = data_written

\* Mutant of flush_data and flush_metadata: the call syncs nothing.
flush_nothing == UNCHANGED <<mdur, data_synced>>

\* Storage::flush_data and Storage::flush_metadata, when they succeed.
flush_data == SyncStorage
flush_metadata == SyncStorage

\* PageCache::get_or_load for a key: its own entry, else the entry of another
\* inode in the same block (the code takes the most recently used one; any
\* one is allowed here), else the block read from storage.
LoadedImages(i) ==
    LET b == BlockOf[i]
        others == {j \in cached : BlockOf[j] = b}
    IN  IF i \in cached THEN {page[i]}
        ELSE IF others # {} THEN {page[j] : j \in others}
        ELSE {meta[b]}

\* Mutant of abort_pages: the dirty state of the pages is left behind.
abort_pages_left_dirty(keys) == UNCHANGED cacheVars

\* TransactionManager::abort_pages, and the loop of abort(): the entries stay
\* cached with their modified data; only dirty and txid are cleared.
abort_pages(keys) ==
    /\ dirty' = dirty \ keys
    /\ owner' = [i \in Inodes |->
                   IF i \in keys \cap cached THEN NoTxn ELSE owner[i]]
    /\ UNCHANGED <<cached, page>>

\* commit() returning Err: abort_pages, and `active' has already been taken.
FailCommit ==
    /\ StorageFaults
    /\ abort_pages(Keys(dirty_pages))
    /\ pc' = "idle"
    /\ committing' = NoTxn
    /\ idx' = FirstPage
    /\ dirty_pages' = <<>>
    /\ UNCHANGED <<journal, next_txid, last_committed, meta, data_written,
                   stamp>>

-----------------------------------------------------------------------------
(* The life of a transaction before commit().                              *)

\* begin(): an error (no effect) while a transaction is active.
begin ==
    /\ pc = "idle" /\ active = NoTxn
    /\ next_txid <= MaxTxn
    /\ active' = next_txid
    /\ next_txid' = next_txid + 1
    /\ dirty_pages' = <<>>
    /\ UNCHANGED <<journal, last_committed, commitVars, cacheVars, storageVars,
                   logVars, stamp>>

\* A write of file data to blocks newly allocated to the file, by
\* write_at_with_interrupt and its siblings in volume.rs.
write_data ==
    /\ pc = "idle" /\ active # NoTxn
    /\ data_written < MaxData
    /\ data_written' = data_written + 1
    /\ UNCHANGED <<txnVars, commitVars, cacheVars, meta, mdur, data_synced,
                   logVars, stamp>>

\* Volume::update_inode_page: load the entry if it is absent and modify the
\* dinode of i in it.  An update that maps data written before refers to it.
update_inode_page(i) ==
    /\ pc = "idle" /\ active # NoTxn
    /\ stamp < MaxUpdate
    /\ stamp' = stamp + 1
    /\ \E img \in LoadedImages(i) : \E e \in {img[i].ext, data_written} :
          page' = [page EXCEPT ![i] =
                     [img EXCEPT ![i] = [ver |-> stamp + 1, ext |-> e]]]
    /\ cached' = cached \cup {i}
    /\ UNCHANGED <<dirty, owner, txnVars, commitVars, storageVars, logVars>>

\* mark_dirty(): a key that is not cached is only added to the list.
mark_dirty(i) ==
    /\ pc = "idle" /\ active # NoTxn
    /\ dirty' = IF i \in cached THEN dirty \cup {i} ELSE dirty
    /\ owner' = IF i \in cached THEN [owner EXCEPT ![i] = active] ELSE owner
    /\ dirty_pages' = IF i \in Keys(dirty_pages) THEN dirty_pages
                      ELSE Append(dirty_pages, i)
    /\ UNCHANGED <<journal, next_txid, active, last_committed, commitVars,
                   cached, page, storageVars, logVars, stamp>>

\* abort() by the operation that owns the transaction.
abort ==
    /\ pc = "idle" /\ active # NoTxn
    /\ active' = NoTxn
    /\ abort_pages(Keys(dirty_pages))
    /\ dirty_pages' = <<>>
    /\ UNCHANGED <<journal, next_txid, last_committed, commitVars, storageVars,
                   logVars, stamp>>

-----------------------------------------------------------------------------
(* commit(), one step per storage or journal call.                         *)

\* Take the transaction and flush_data().
commit_flush_data ==
    /\ pc = "idle" /\ active # NoTxn
    /\ active' = NoTxn
    /\ UNCHANGED logVars
    /\ \/ /\ pc' = IF journal THEN "append" ELSE "write"
          /\ committing' = active
          /\ idx' = FirstPage
          /\ flush_data
          /\ UNCHANGED <<journal, next_txid, dirty_pages, last_committed,
                         cacheVars, meta, data_written, stamp>>
       \/ /\ FailCommit
          /\ UNCHANGED <<mdur, data_synced>>

\* Mutant of flush_journal: the pages are written but not synced.
flush_journal_unsynced(redo, commits) ==
    /\ buf_redo' = redo /\ buf_commit' = commits
    /\ UNCHANGED <<log_redo, log_commit, mdur, data_synced>>

\* LogManager::flush_journal, when it succeeds: the records of the buffer, and
\* every other write to the image file, are on stable storage.
flush_journal(redo, commits) ==
    /\ log_redo' = log_redo \cup redo
    /\ log_commit' = log_commit \cup commits
    /\ buf_redo' = {} /\ buf_commit' = {}
    /\ SyncStorage

\* The record append_log_record() writes for a page of the transaction.
RedoOf(i) == [tid |-> committing, block |-> BlockOf[i], data |-> page[i]]

\* append_log_record() for the next dirty page, if it is cached: into the
\* buffer, after flushing the buffer when the record does not fit; the flush
\* may fail before or after its sync.
commit_append ==
    /\ pc = "append" /\ idx <= Len(dirty_pages)
    /\ UNCHANGED active
    /\ LET i == dirty_pages[idx]
           redo == RedoOf(i)
           next == /\ idx' = idx + 1
                   /\ UNCHANGED <<pc, committing, cacheVars, journal,
                                  next_txid, dirty_pages, last_committed, meta,
                                  data_written, stamp>>
       IN  \/ /\ i \notin cached
              /\ next
              /\ UNCHANGED <<logVars, mdur, data_synced>>
           \/ /\ i \in cached
              /\ next
              /\ buf_redo' = buf_redo \cup {redo}
              /\ UNCHANGED <<buf_commit, log_redo, log_commit, mdur,
                             data_synced>>
           \/ /\ i \in cached
              /\ next
              /\ buf_redo' = {redo} /\ buf_commit' = {}
              /\ log_redo' = log_redo \cup buf_redo
              /\ log_commit' = log_commit \cup buf_commit
              /\ SyncStorage
           \/ /\ i \in cached
              /\ FailCommit
              /\ \/ UNCHANGED <<logVars, mdur, data_synced>>
                 \/ flush_journal(buf_redo, buf_commit)

\* LogManager::commit_transaction(): the commit record joins the buffer and
\* the buffer is flushed.  An error can leave the record in the buffer, or
\* even durable (write_super fails after the sync).
commit_record ==
    /\ pc = "append" /\ idx > Len(dirty_pages)
    /\ UNCHANGED active
    /\ \/ /\ pc' = "write"
          /\ idx' = FirstPage
          /\ flush_journal(buf_redo, buf_commit \cup {committing})
          /\ UNCHANGED <<committing, cacheVars, journal, next_txid,
                         dirty_pages, last_committed, meta, data_written,
                         stamp>>
       \/ /\ FailCommit
          /\ \/ UNCHANGED <<logVars, mdur, data_synced>>
             \/ /\ buf_commit' = buf_commit \cup {committing}
                /\ UNCHANGED <<buf_redo, log_redo, log_commit, mdur,
                               data_synced>>
             \/ flush_journal(buf_redo, buf_commit \cup {committing})

\* write_block() of the next dirty page to its home location.
commit_write ==
    /\ pc = "write"
    /\ UNCHANGED <<active, logVars>>
    /\ \/ /\ idx <= Len(dirty_pages)
          /\ idx' = idx + 1
          /\ LET i == dirty_pages[idx]
                 b == BlockOf[i]
             IN  /\ meta' = IF i \in cached THEN [meta EXCEPT ![b] = page[i]]
                            ELSE meta
                 /\ mdur' = IF i \in cached
                            THEN [mdur EXCEPT ![b] = @ \cup {page[i]}]
                            ELSE mdur
          /\ UNCHANGED <<pc, committing, cacheVars, journal, next_txid,
                         dirty_pages, last_committed, data_written,
                         data_synced, stamp>>
       \/ /\ idx <= Len(dirty_pages) /\ dirty_pages[idx] \in cached
          /\ FailCommit
          /\ UNCHANGED <<mdur, data_synced>>
       \/ /\ idx > Len(dirty_pages)
          /\ pc' = "flush"
          /\ UNCHANGED <<committing, idx, cacheVars, journal, next_txid,
                         dirty_pages, last_committed, storageVars, stamp>>

\* flush_metadata().
commit_flush_metadata ==
    /\ pc = "flush"
    /\ UNCHANGED <<active, logVars>>
    /\ \/ /\ pc' = "release"
          /\ flush_metadata
          /\ UNCHANGED <<committing, idx, cacheVars, journal, next_txid,
                         dirty_pages, last_committed, meta, data_written,
                         stamp>>
       \/ /\ FailCommit
          /\ UNCHANGED <<mdur, data_synced>>

\* Release the written pages from the cache; commit() returns Ok.
commit_release ==
    /\ pc = "release"
    /\ pc' = "idle"
    /\ cached' = cached \ Keys(dirty_pages)
    /\ page' = [i \in Inodes |->
                  IF i \in Keys(dirty_pages) THEN FreshImage ELSE page[i]]
    /\ dirty' = dirty \ Keys(dirty_pages)
    /\ owner' = [i \in Inodes |->
                   IF i \in Keys(dirty_pages) THEN NoTxn ELSE owner[i]]
    /\ last_committed' = committing
    /\ committing' = NoTxn
    /\ idx' = FirstPage
    /\ dirty_pages' = <<>>
    /\ UNCHANGED <<journal, next_txid, active, storageVars, logVars, stamp>>

Next ==
    \/ begin
    \/ write_data
    \/ \E i \in Inodes : update_inode_page(i) \/ mark_dirty(i)
    \/ abort
    \/ commit_flush_data
    \/ commit_append
    \/ commit_record
    \/ commit_write
    \/ commit_flush_metadata
    \/ commit_release

Spec == Init /\ [][Next]_vars

-----------------------------------------------------------------------------
(* Properties.                                                             *)

\* Every variable has its type.
TypeOK ==
    /\ journal \in BOOLEAN
    /\ next_txid \in Nat \ {0}
    /\ active \in Nat
    /\ dirty_pages \in Seq(Inodes)
    /\ last_committed \in Nat
    /\ pc \in {"idle", "append", "write", "flush", "release"}
    /\ committing \in Nat
    /\ idx \in Nat \ {0}
    /\ cached \in SUBSET Inodes
    /\ page \in [Inodes -> Image]
    /\ dirty \in SUBSET Inodes
    /\ owner \in [Inodes -> Nat]
    /\ meta \in [Blocks -> Image]
    /\ mdur \in [Blocks -> SUBSET Image]
    /\ data_written \in Nat
    /\ data_synced \in Nat
    /\ buf_redo \in SUBSET Redo
    /\ log_redo \in SUBSET Redo
    /\ buf_commit \in SUBSET Nat
    /\ log_commit \in SUBSET Nat
    /\ stamp \in Nat

\* The after-image is in the durable log, in a transaction whose commit record
\* is durable too.
Journaled(b, img) ==
    \E r \in log_redo : r.block = b /\ r.data = img /\ r.tid \in log_commit

\* Write-ahead, on a volume with a journal: whatever image of an inode-table
\* block a power loss may leave on disk, other than the one the volume was
\* mounted with, is an after-image of a transaction that is completely in the
\* durable journal.  commit() writes
\* home locations only after commit_transaction() has flushed, and a failed
\* commit or an abort, whose data stay in the cache, cannot break the order.
WriteAhead ==
    journal => \A b \in Blocks : \A img \in mdur[b] \cup {meta[b]} :
        img = FreshImage \/ Journaled(b, img)

\* Ordered data: no image that a power loss may leave, on its home block or in
\* the journal for recovery to replay, refers to file data that is not durable
\* (commit() calls flush_data() before it journals anything).
OrderedData ==
    \A i \in Inodes :
        /\ \A b \in Blocks : \A img \in mdur[b] : img[i].ext <= data_synced
        /\ \A r \in log_redo : r.data[i].ext <= data_synced

\* ConsistencyChecker: a dirty page belongs to the dirty list of the running
\* transaction and carries its txid, so outside a transaction no page is dirty
\* and no flush_all() finds anything to write, whatever commits failed before.
DirtyPagesOwned ==
    \A i \in dirty :
        /\ i \in cached
        /\ i \in Keys(dirty_pages)
        /\ \/ active # NoTxn /\ owner[i] = active
           \/ pc # "idle" /\ owner[i] = committing

\* When commit() is about to return Ok, every block of its dirty list durably
\* holds one of its after-images and nothing else, and that after-image is in
\* the durable journal under its txid: an acknowledged transaction survives a
\* power loss both without and with a replay of its own records.
AcknowledgedDurable ==
    pc = "release" =>
        /\ journal => committing \in log_commit
        /\ \A i \in Keys(dirty_pages) \cap cached :
              \E j \in Keys(dirty_pages) \cap cached :
                 /\ BlockOf[j] = BlockOf[i]
                 /\ mdur[BlockOf[i]] = {page[j]}
                 /\ journal => RedoOf(j) \in log_redo

-----------------------------------------------------------------------------
(* The inductive invariants behind the proofs.                             *)

\* While commit() appends, the pages passed so far are in the buffer or in the
\* log; once it writes home locations, all of them and the commit record are
\* in the durable log.
JournalInv ==
    /\ WriteAhead
    /\ journal /\ pc = "append" =>
          \A n \in 1 .. Len(dirty_pages) :
             n < idx /\ dirty_pages[n] \in cached =>
                RedoOf(dirty_pages[n]) \in buf_redo \cup log_redo
    /\ journal /\ pc \in {"write", "flush", "release"} =>
          /\ committing \in log_commit
          /\ \A n \in 1 .. Len(dirty_pages) :
                dirty_pages[n] \in cached =>
                   RedoOf(dirty_pages[n]) \in log_redo

\* Cached pages refer only to data that was written; from flush_data() to the
\* end of commit() all written data is durable.
OrderedInv ==
    /\ OrderedData
    /\ data_synced <= data_written
    /\ pc # "idle" => data_synced = data_written
    /\ \A b \in Blocks : meta[b] \in mdur[b]
    /\ \A i \in Inodes :
          /\ \A j \in Inodes : page[j][i].ext <= data_written
          /\ \A r \in buf_redo : r.data[i].ext <= data_synced

\* The blocks of the pages commit() has written hold one of its after-images,
\* and after flush_metadata() they hold nothing else.
PublishInv ==
    /\ pc \in {"write", "flush", "release"} =>
          \A n \in 1 .. Len(dirty_pages) :
             n < idx /\ dirty_pages[n] \in cached =>
                \E j \in Keys(dirty_pages) \cap cached :
                   /\ BlockOf[j] = BlockOf[dirty_pages[n]]
                   /\ meta[BlockOf[j]] = page[j]
    /\ pc \in {"flush", "release"} => idx > Len(dirty_pages)
    /\ pc = "release" => \A b \in Blocks : mdur[b] = {meta[b]}

=============================================================================
