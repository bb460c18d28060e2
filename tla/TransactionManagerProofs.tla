---------------------- MODULE TransactionManagerProofs ----------------------
(***************************************************************************)
(* Proofs about TransactionManager, for any number of inodes, blocks,      *)
(* transactions and data writes, with and without storage errors.          *)
(***************************************************************************)
EXTENDS TransactionManager, TLAPS

\* The image of a block at mount is an image.
LEMMA FreshImageType == FreshImage \in Image
BY DEF FreshImage, Image, Dinode

\* get_or_load returns an image.
LEMMA LoadedImagesType ==
    ASSUME TypeOK, NEW i \in Inodes
    PROVE  LoadedImages(i) \subseteq Image
BY BlockOfAssumption DEF TypeOK, LoadedImages

\* The keys of a list of pages are pages.
LEMMA KeysType ==
    ASSUME NEW s \in Seq(Inodes)
    PROVE  Keys(s) \subseteq Inodes
BY DEF Keys

\* mark_dirty() adds exactly its page to the keys of the list.
LEMMA KeysAppend ==
    ASSUME NEW s \in Seq(Inodes), NEW i \in Inodes
    PROVE  Keys(Append(s, i)) = Keys(s) \cup {i}
<1>1. /\ Len(Append(s, i)) = Len(s) + 1 /\ Len(s) \in Nat
      /\ \A n \in 1 .. Len(s) : Append(s, i)[n] = s[n]
      /\ Append(s, i)[Len(s) + 1] = i
  OBVIOUS
<1>2. Keys(Append(s, i)) \subseteq Keys(s) \cup {i}
  <2>. SUFFICES ASSUME NEW n \in 1 .. Len(s) + 1
                PROVE  Append(s, i)[n] \in Keys(s) \cup {i}
    BY <1>1 DEF Keys
  <2>1. CASE n = Len(s) + 1
    BY <1>1, <2>1
  <2>2. CASE n \in 1 .. Len(s)
    BY <1>1, <2>2 DEF Keys
  <2>. QED  BY <1>1, <2>1, <2>2
<1>3. Keys(s) \cup {i} \subseteq Keys(Append(s, i))
  <2>1. i \in Keys(Append(s, i))
    <3>1. Len(s) + 1 \in 1 .. Len(Append(s, i))
      BY <1>1
    <3>. QED  BY <1>1, <3>1 DEF Keys
  <2>2. ASSUME NEW n \in 1 .. Len(s) PROVE s[n] \in Keys(Append(s, i))
    <3>1. n \in 1 .. Len(Append(s, i))
      BY <1>1
    <3>. QED  BY <1>1, <3>1 DEF Keys
  <2>. QED  BY <2>1, <2>2 DEF Keys
<1>. QED  BY <1>2, <1>3

-----------------------------------------------------------------------------
\* Initial values have their types.
LEMMA InitTypeOK == Init => TypeOK
BY FreshImageType DEF Init, TypeOK, NoTxn, FirstPage

\* commit() returning an error keeps the types of what it touches.
LEMMA FailCommitType ==
    ASSUME TypeOK, FailCommit
    PROVE  /\ journal' \in BOOLEAN /\ next_txid' \in Nat \ {0}
           /\ dirty_pages' \in Seq(Inodes)
           /\ last_committed' \in Nat /\ pc' = "idle" /\ committing' \in Nat
           /\ idx' \in Nat \ {0} /\ cached' \in SUBSET Inodes
           /\ page' \in [Inodes -> Image] /\ dirty' \in SUBSET Inodes
           /\ owner' \in [Inodes -> Nat] /\ meta' \in [Blocks -> Image]
           /\ data_written' \in Nat /\ stamp' \in Nat
BY DEF TypeOK, FailCommit, abort_pages, NoTxn, FirstPage

\* A sync, completed or failed, keeps the types of the storage.
LEMMA SyncStorageType ==
    ASSUME TypeOK, SyncStorage
    PROVE  mdur' \in [Blocks -> SUBSET Image] /\ data_synced' \in Nat
BY DEF TypeOK, SyncStorage

\* Every step keeps the types.
LEMMA NextTypeOK == TypeOK /\ [Next]_vars => TypeOK'
<1>. SUFFICES ASSUME TypeOK, [Next]_vars PROVE TypeOK'
  OBVIOUS
<1>. USE BlockOfAssumption
<1>1. CASE begin
  BY <1>1 DEF TypeOK, begin, commitVars, cacheVars, storageVars, logVars
<1>2. CASE write_data
  BY <1>2 DEF TypeOK, write_data, txnVars, commitVars, cacheVars, logVars
<1>3. ASSUME NEW i \in Inodes, update_inode_page(i) PROVE TypeOK'
  <2>1. PICK img \in LoadedImages(i) : \E e \in {img[i].ext, data_written} :
          page' = [page EXCEPT ![i] =
                     [img EXCEPT ![i] = [ver |-> stamp + 1, ext |-> e]]]
    BY Zenon, <1>3 DEF update_inode_page
  <2>2. img \in Image
    BY <1>3, <2>1, LoadedImagesType
  <2>. PICK e \in {img[i].ext, data_written} :
          page' = [page EXCEPT ![i] =
                     [img EXCEPT ![i] = [ver |-> stamp + 1, ext |-> e]]]
    BY Zenon, <2>1
  <2>3. e \in Nat
    <3>1. img[i] \in Dinode
      BY <1>3, <2>2 DEF Image
    <3>2. img[i].ext \in Nat
      BY <3>1 DEF Dinode
    <3>3. data_written \in Nat
      BY DEF TypeOK
    <3>. QED  BY <3>2, <3>3
  <2>. DEFINE d == [ver |-> stamp + 1, ext |-> e]
  <2>4. [img EXCEPT ![i] = d] \in Image
    <3>1. d \in Dinode
      BY <2>3 DEF TypeOK, Dinode
    <3>. HIDE DEF d
    <3>. QED  BY <2>2, <3>1 DEF Image
  <2>5. page' \in [Inodes -> Image]
    BY <2>4 DEF TypeOK
  <2>. QED
    BY <1>3, <2>5 DEF TypeOK, update_inode_page, txnVars, commitVars,
                      storageVars, logVars
<1>4. ASSUME NEW i \in Inodes, mark_dirty(i) PROVE TypeOK'
  BY <1>4 DEF TypeOK, mark_dirty, commitVars, storageVars, logVars
<1>5. CASE abort
  BY <1>5 DEF TypeOK, abort, abort_pages, commitVars, storageVars, logVars,
              NoTxn
<1>0. FailCommit => pc' = "idle"
  BY DEF FailCommit
<1>6. CASE commit_flush_data
  <2>1. CASE pc' = "idle"
    BY Zenon, <1>6, <2>1, FailCommitType DEF TypeOK, commit_flush_data,
       logVars, NoTxn
  <2>2. CASE pc' # "idle"
    <3>1. mdur' \in [Blocks -> SUBSET Image] /\ data_synced' \in Nat
      BY <1>0, <1>6, <2>2, SyncStorageType DEF commit_flush_data, flush_data
    <3>2. pc' \in {"append", "write"}
      BY <1>0, <1>6, <2>2 DEF commit_flush_data
    <3>3. /\ active' = NoTxn /\ committing' = active /\ idx' = FirstPage
          /\ UNCHANGED <<journal, next_txid, dirty_pages, last_committed,
                         cacheVars, logVars, meta, data_written, stamp>>
      BY <1>0, <1>6, <2>2 DEF commit_flush_data
    <3>4. /\ active' \in Nat /\ committing' \in Nat
          /\ idx' \in Nat \ {0}
      BY <3>3 DEF TypeOK, NoTxn, FirstPage
    <3>. QED
      BY <3>1, <3>2, <3>3, <3>4 DEF TypeOK, cacheVars, logVars
  <2>. QED
    BY <2>1, <2>2
<1>7. CASE commit_append
  <2>. DEFINE i == dirty_pages[idx]
              redo == [tid |-> committing, block |-> BlockOf[i],
                       data |-> page[i]]
  <2>1. i \in Inodes /\ redo \in Redo
    BY <1>7 DEF commit_append, TypeOK, Redo
  <2>2. mdur' \in [Blocks -> SUBSET Image] /\ data_synced' \in Nat
    BY SMTT(40), <1>7, SyncStorageType DEF TypeOK, commit_append, flush_journal
  <2>3. /\ buf_redo' \in SUBSET Redo /\ log_redo' \in SUBSET Redo
        /\ buf_commit' \in SUBSET Nat /\ log_commit' \in SUBSET Nat
    <3>1. \/ UNCHANGED logVars
          \/ buf_redo' = buf_redo \cup {redo}
                /\ UNCHANGED <<buf_commit, log_redo, log_commit>>
          \/ buf_redo' = {redo} /\ buf_commit' = {}
                /\ log_redo' = log_redo \cup buf_redo
                /\ log_commit' = log_commit \cup buf_commit
          \/ flush_journal(buf_redo, buf_commit)
      BY <1>7 DEF commit_append, RedoOf
    <3>. HIDE DEF redo
    <3>. QED  BY Zenon, <2>1, <3>1 DEF TypeOK, logVars, flush_journal
  <2>4. CASE pc' = "idle"
    BY Zenon, <1>7, <2>2, <2>3, <2>4, FailCommitType DEF TypeOK, commit_append
  <2>5. CASE pc' # "idle"
    <3>1. /\ idx' = idx + 1
          /\ UNCHANGED <<pc, committing, cacheVars, journal, next_txid,
                         active, dirty_pages, last_committed, meta,
                         data_written, stamp>>
      BY <1>0, <1>7, <2>5 DEF commit_append
    <3>. QED
      BY <2>2, <2>3, <3>1 DEF TypeOK, cacheVars
  <2>. QED
    BY <2>4, <2>5
<1>8. CASE commit_record
  <2>1. mdur' \in [Blocks -> SUBSET Image] /\ data_synced' \in Nat
    BY <1>8, SyncStorageType DEF TypeOK, commit_record, flush_journal
  <2>2. /\ buf_redo' \in SUBSET Redo /\ log_redo' \in SUBSET Redo
        /\ buf_commit' \in SUBSET Nat /\ log_commit' \in SUBSET Nat
    BY Zenon, <1>8 DEF TypeOK, commit_record, flush_journal, logVars
  <2>3. CASE pc' = "idle"
    BY SMTT(40), <1>8, <2>1, <2>2, <2>3, FailCommitType DEF TypeOK,
       commit_record
  <2>4. CASE pc' # "idle"
    <3>1. /\ pc' = "write" /\ idx' = FirstPage
          /\ UNCHANGED <<active, committing, cacheVars, journal, next_txid,
                         dirty_pages, last_committed, meta, data_written,
                         stamp>>
      BY <1>0, <1>8, <2>4 DEF commit_record
    <3>2. idx' \in Nat \ {0}
      BY <3>1 DEF FirstPage
    <3>. QED
      BY <2>1, <2>2, <3>1, <3>2 DEF TypeOK, cacheVars
  <2>. QED
    BY <2>3, <2>4
<1>9. CASE commit_write
  <2>1. CASE pc' = "idle"
    BY Zenon, <1>9, <2>1, FailCommitType DEF TypeOK, commit_write, logVars
  <2>2. CASE pc' = "flush"
    BY SMTT(40), <1>0, <1>9, <2>2
       DEF TypeOK, commit_write, cacheVars, storageVars, logVars
  <2>3. CASE pc' = pc
    <3>. DEFINE i == dirty_pages[idx]
    <3>1. i \in Inodes /\ BlockOf[i] \in Blocks /\ page[i] \in Image
      BY SMTT(40), <1>0, <1>9, <2>3 DEF commit_write, TypeOK
    <3>2. /\ idx' = idx + 1
          /\ UNCHANGED <<committing, cacheVars, journal, next_txid, active,
                         dirty_pages, last_committed, data_written,
                         data_synced, stamp, logVars>>
      BY <1>0, <1>9, <2>3 DEF commit_write
    <3>3. /\ meta' = IF i \in cached THEN [meta EXCEPT ![BlockOf[i]] = page[i]]
                     ELSE meta
          /\ mdur' = IF i \in cached
                     THEN [mdur EXCEPT ![BlockOf[i]] = @ \cup {page[i]}]
                     ELSE mdur
      BY <1>0, <1>9, <2>3 DEF commit_write
    <3>. HIDE DEF i
    <3>4. /\ meta' \in [Blocks -> Image]
          /\ mdur' \in [Blocks -> SUBSET Image]
      BY <3>1, <3>3 DEF TypeOK
    <3>. QED
      BY <2>3, <3>2, <3>4 DEF TypeOK, cacheVars, logVars
  <2>. QED
    BY <1>0, <1>9, <2>1, <2>2, <2>3 DEF commit_write
<1>10. CASE commit_flush_metadata
  BY ZenonT(40), <1>10, FailCommitType, SyncStorageType
     DEF TypeOK, commit_flush_metadata, flush_metadata, cacheVars, logVars
<1>11. CASE commit_release
  BY <1>11, FreshImageType
     DEF TypeOK, commit_release, storageVars, logVars, NoTxn, FirstPage
<1>12. CASE UNCHANGED vars
  BY <1>12 DEF TypeOK, vars, txnVars, commitVars, cacheVars, storageVars,
               logVars
<1>. QED
  BY <1>1, <1>2, <1>3, <1>4, <1>5, <1>6, <1>7, <1>8, <1>9, <1>10, <1>11,
     <1>12 DEF Next

\* Every reachable state is well typed.
THEOREM TypeCorrect == Spec => []TypeOK
BY InitTypeOK, NextTypeOK, PTL DEF Spec

-----------------------------------------------------------------------------
\* No page is dirty outside a transaction, so the step that begins one starts
\* from a clean cache, and the steps that end one leave a clean cache.
LEMMA NextDirtyPagesOwned ==
    TypeOK /\ DirtyPagesOwned /\ [Next]_vars => DirtyPagesOwned'
<1>. SUFFICES ASSUME TypeOK, DirtyPagesOwned, [Next]_vars
              PROVE  DirtyPagesOwned'
  OBVIOUS
<1>0. dirty \subseteq Keys(dirty_pages)
  BY DEF DirtyPagesOwned
<1>1. CASE begin
  BY <1>1 DEF DirtyPagesOwned, begin, commitVars, cacheVars
<1>2. CASE write_data
  BY <1>2 DEF DirtyPagesOwned, write_data, txnVars, commitVars, cacheVars
<1>3. ASSUME NEW i \in Inodes, update_inode_page(i) PROVE DirtyPagesOwned'
  BY <1>3 DEF DirtyPagesOwned, update_inode_page, txnVars, commitVars
<1>4. ASSUME NEW i \in Inodes, mark_dirty(i) PROVE DirtyPagesOwned'
  <2>1. Keys(dirty_pages) \cup {i} \subseteq Keys(dirty_pages')
    BY <1>4, KeysAppend DEF mark_dirty, TypeOK
  <2>2. /\ pc = "idle" /\ active # NoTxn /\ UNCHANGED <<active, cached, pc>>
        /\ dirty' \subseteq dirty \cup {i} /\ (i \in dirty' => i \in cached)
        /\ i \in cached => owner' = [owner EXCEPT ![i] = active]
        /\ i \notin cached => owner' = owner
    BY <1>4 DEF mark_dirty, DirtyPagesOwned, commitVars
  <2>3. ASSUME NEW j \in dirty', j # i
        PROVE  j \in cached /\ j \in Keys(dirty_pages) /\ owner'[j] = active
    BY <2>2, <2>3 DEF DirtyPagesOwned, TypeOK
  <2>4. ASSUME i \in dirty' PROVE i \in cached /\ owner'[i] = active
    BY <2>2, <2>4 DEF TypeOK
  <2>. QED
    BY <2>1, <2>2, <2>3, <2>4 DEF DirtyPagesOwned
<1>5. CASE abort
  BY <1>0, <1>5 DEF DirtyPagesOwned, abort, abort_pages
<1>6. ASSUME FailCommit PROVE DirtyPagesOwned'
  BY <1>0, <1>6 DEF DirtyPagesOwned, FailCommit, abort_pages
<1>7. CASE commit_flush_data
  BY <1>6, <1>7 DEF DirtyPagesOwned, commit_flush_data, cacheVars
<1>8. CASE commit_append
  BY <1>6, <1>8 DEF DirtyPagesOwned, commit_append, cacheVars
<1>9. CASE commit_record
  BY <1>6, <1>9 DEF DirtyPagesOwned, commit_record, cacheVars
<1>10. CASE commit_write
  BY <1>6, <1>10 DEF DirtyPagesOwned, commit_write, cacheVars
<1>11. CASE commit_flush_metadata
  BY <1>6, <1>11 DEF DirtyPagesOwned, commit_flush_metadata, cacheVars
<1>12. CASE commit_release
  BY <1>0, <1>12 DEF DirtyPagesOwned, commit_release
<1>13. CASE UNCHANGED vars
  BY <1>13 DEF DirtyPagesOwned, vars, txnVars, commitVars, cacheVars
<1>. QED
  BY <1>1, <1>2, <1>3, <1>4, <1>5, <1>7, <1>8, <1>9, <1>10, <1>11, <1>12,
     <1>13 DEF Next

\* Dirty pages always belong to the running transaction.
THEOREM DirtyPagesAreOwned == Spec => []DirtyPagesOwned
<1>1. Init => DirtyPagesOwned
  BY ZenonT(40) DEF Init, DirtyPagesOwned
<1>. QED
  BY <1>1, TypeCorrect, NextDirtyPagesOwned, PTL DEF Spec

-----------------------------------------------------------------------------
\* A step that writes no home location and only lets the log grow keeps the
\* write-ahead order: a sync only discards older images.
LEMMA WriteAheadKept ==
    ASSUME WriteAhead, UNCHANGED <<journal, meta>>,
           log_redo \subseteq log_redo', log_commit \subseteq log_commit',
           \A b \in Blocks : mdur'[b] \subseteq mdur[b] \cup {meta[b]}
    PROVE  WriteAhead'
<1>. SUFFICES ASSUME journal, NEW b \in Blocks,
                     NEW img \in mdur'[b] \cup {meta'[b]}, img # FreshImage
              PROVE  Journaled(b, img)'
  BY DEF WriteAhead
<1>1. Journaled(b, img)
  BY DEF WriteAhead
<1>. QED
  BY <1>1 DEF Journaled

\* A sync leaves no home content that was not possible before.
LEMMA SyncKeepsMeta ==
    ASSUME TypeOK, SyncStorage
    PROVE  \A b \in Blocks : mdur'[b] \subseteq mdur[b] \cup {meta[b]}
BY DEF SyncStorage

\* What commit_append does to the log and the storage.
LEMMA AppendEffect ==
    ASSUME TypeOK, commit_append
    PROVE  /\ idx <= Len(dirty_pages)
           /\ UNCHANGED <<journal, meta, data_written>>
           /\ log_redo \subseteq log_redo' /\ log_commit \subseteq log_commit'
           /\ buf_redo' \cup log_redo' \subseteq
                 buf_redo \cup log_redo \cup {RedoOf(dirty_pages[idx])}
           /\ UNCHANGED <<mdur, data_synced>> \/ SyncStorage
           /\ \/ pc' = "idle"
              \/ /\ pc' = "append" /\ idx' = idx + 1
                 /\ UNCHANGED <<dirty_pages, committing, cached, page>>
                 /\ buf_redo \cup log_redo \subseteq buf_redo' \cup log_redo'
                 /\ dirty_pages[idx] \in cached =>
                       RedoOf(dirty_pages[idx]) \in buf_redo'
BY DEF commit_append, FailCommit, flush_journal, cacheVars, logVars

\* What commit_record does to the log and the storage.
LEMMA RecordEffect ==
    ASSUME TypeOK, commit_record
    PROVE  /\ pc = "append" /\ idx > Len(dirty_pages)
           /\ UNCHANGED <<journal, meta, data_written>>
           /\ log_redo \subseteq log_redo' /\ log_commit \subseteq log_commit'
           /\ buf_redo' \cup log_redo' \subseteq buf_redo \cup log_redo
           /\ UNCHANGED <<mdur, data_synced>> \/ SyncStorage
           /\ \/ pc' = "idle"
              \/ /\ pc' = "write" /\ idx' = FirstPage
                 /\ UNCHANGED <<dirty_pages, committing, cached, page>>
                 /\ committing \in log_commit'
                 /\ buf_redo \cup log_redo \subseteq log_redo'
BY SMTT(40) DEF commit_record, FailCommit, flush_journal, cacheVars, logVars

\* What commit_write does: the next page reaches its home block, or nothing is
\* written.
LEMMA WriteEffect ==
    ASSUME TypeOK, commit_write
    PROVE  /\ pc = "write"
           /\ UNCHANGED <<journal, data_written, data_synced, logVars>>
           /\ \/ pc' = "idle" /\ UNCHANGED <<meta, mdur>>
              \/ /\ pc' = "flush" /\ idx > Len(dirty_pages)
                 /\ UNCHANGED <<meta, mdur, idx, dirty_pages, committing,
                                cached, page>>
              \/ /\ pc' = "write" /\ idx <= Len(dirty_pages) /\ idx' = idx + 1
                 /\ UNCHANGED <<dirty_pages, committing, cached, page>>
                 /\ dirty_pages[idx] \notin cached /\ UNCHANGED <<meta, mdur>>
              \/ /\ pc' = "write" /\ idx <= Len(dirty_pages) /\ idx' = idx + 1
                 /\ UNCHANGED <<dirty_pages, committing, cached, page>>
                 /\ dirty_pages[idx] \in cached
                 /\ meta' = [meta EXCEPT ![BlockOf[dirty_pages[idx]]] =
                                page[dirty_pages[idx]]]
                 /\ mdur' = [mdur EXCEPT ![BlockOf[dirty_pages[idx]]] =
                                @ \cup {page[dirty_pages[idx]]}]
BY DEF commit_write, FailCommit, cacheVars, storageVars

-----------------------------------------------------------------------------
\* Every step keeps the journal invariant: the records of the pages already
\* appended are buffered or durable, and pages are written only once all are.
LEMMA NextJournalInv == TypeOK /\ JournalInv /\ [Next]_vars => JournalInv'
<1>. SUFFICES ASSUME TypeOK, JournalInv, [Next]_vars PROVE JournalInv'
  OBVIOUS
<1>. USE BlockOfAssumption
<1>0. WriteAhead
  BY SMTT(40) DEF JournalInv
<1>1. CASE begin
  BY <1>0, <1>1, WriteAheadKept
     DEF JournalInv, begin, commitVars, storageVars, logVars
<1>2. CASE write_data
  BY <1>0, <1>2, WriteAheadKept
     DEF JournalInv, write_data, txnVars, commitVars, logVars
<1>3. ASSUME NEW i \in Inodes, update_inode_page(i) PROVE JournalInv'
  BY SMTT(40), <1>0, <1>3, WriteAheadKept
     DEF JournalInv, update_inode_page, txnVars, commitVars, storageVars,
         logVars
<1>4. ASSUME NEW i \in Inodes, mark_dirty(i) PROVE JournalInv'
  BY SMTT(40), <1>0, <1>4, WriteAheadKept
     DEF JournalInv, mark_dirty, commitVars, storageVars, logVars
<1>5. CASE abort
  BY <1>0, <1>5, WriteAheadKept
     DEF JournalInv, abort, commitVars, storageVars, logVars
<1>6. CASE commit_flush_data
  <2>1. /\ UNCHANGED <<journal, meta, logVars>>
        /\ UNCHANGED <<mdur, data_synced>> \/ SyncStorage
        /\ \/ pc' = "idle"
           \/ journal /\ pc' = "append" /\ idx' = FirstPage
           \/ ~journal
    BY <1>6 DEF commit_flush_data, FailCommit, flush_data
  <2>2. WriteAhead'
    BY <1>0, <2>1, WriteAheadKept, SyncKeepsMeta DEF logVars
  <2>. QED
    BY <2>1, <2>2 DEF JournalInv, FirstPage
<1>7. CASE commit_append
  <2>. DEFINE ri == RedoOf(dirty_pages[idx])
  <2>1. WriteAhead'
    BY <1>0, <1>7, AppendEffect, WriteAheadKept, SyncKeepsMeta
  <2>2. pc = "append"
    BY <1>7 DEF commit_append
  <2>3. CASE pc' = "idle"
    BY <2>1, <2>3 DEF JournalInv
  <2>4. CASE pc' = "append"
    <3>1. /\ idx' = idx + 1
          /\ UNCHANGED <<dirty_pages, committing, cached, page, journal>>
          /\ buf_redo \cup log_redo \subseteq buf_redo' \cup log_redo'
          /\ dirty_pages[idx] \in cached => ri \in buf_redo'
      BY <1>7, <2>4, AppendEffect
    <3>2. ASSUME journal, NEW n \in 1 .. Len(dirty_pages), n < idx + 1,
                 dirty_pages[n] \in cached
          PROVE  RedoOf(dirty_pages[n]) \in buf_redo' \cup log_redo'
      <4>1. CASE n = idx
        BY <3>1, <3>2, <4>1
      <4>2. CASE n < idx
        BY SMTT(40), <2>2, <3>1, <3>2, <4>2 DEF JournalInv
      <4>. QED
        BY <3>2, <4>1, <4>2 DEF TypeOK
    <3>3. \A n : RedoOf(dirty_pages[n])' = RedoOf(dirty_pages[n])
      BY <3>1 DEF RedoOf
    <3>. QED
      BY <2>1, <2>4, <3>1, <3>2, <3>3 DEF JournalInv
  <2>. QED
    BY <1>7, <2>3, <2>4, AppendEffect
<1>8. CASE commit_record
  <2>1. WriteAhead'
    BY <1>0, <1>8, RecordEffect, WriteAheadKept, SyncKeepsMeta
  <2>2. CASE pc' = "idle"
    BY <2>1, <2>2 DEF JournalInv
  <2>3. CASE pc' = "write"
    <3>1. /\ pc = "append" /\ idx > Len(dirty_pages)
          /\ UNCHANGED <<dirty_pages, committing, cached, page, journal>>
          /\ committing \in log_commit'
          /\ buf_redo \cup log_redo \subseteq log_redo'
      BY <1>8, <2>3, RecordEffect
    <3>2. ASSUME journal, NEW n \in 1 .. Len(dirty_pages),
                 dirty_pages[n] \in cached
          PROVE  RedoOf(dirty_pages[n]) \in log_redo'
      BY <3>1, <3>2 DEF JournalInv, TypeOK
    <3>3. \A n : RedoOf(dirty_pages[n])' = RedoOf(dirty_pages[n])
      BY <3>1 DEF RedoOf
    <3>. QED
      BY <2>1, <2>3, <3>1, <3>2, <3>3 DEF JournalInv
  <2>. QED
    BY <1>8, <2>2, <2>3, RecordEffect
<1>9. CASE commit_write
  <2>1. UNCHANGED logVars /\ UNCHANGED journal /\ pc = "write"
    BY <1>9, WriteEffect
  <2>2. WriteAhead'
    <3>1. CASE UNCHANGED <<meta, mdur>>
      BY SMTT(40), <1>0, <2>1, <3>1, WriteAheadKept DEF logVars
    <3>2. CASE ~UNCHANGED <<meta, mdur>>
      <4>. DEFINE i == dirty_pages[idx]
      <4>1. /\ idx <= Len(dirty_pages) /\ i \in cached
            /\ meta' = [meta EXCEPT ![BlockOf[i]] = page[i]]
            /\ mdur' = [mdur EXCEPT ![BlockOf[i]] = @ \cup {page[i]}]
        BY <1>9, <3>2, WriteEffect
      <4>2. journal => /\ RedoOf(i) \in log_redo
                       /\ committing \in log_commit
        BY <2>1, <4>1 DEF JournalInv, TypeOK
      <4>3. journal => Journaled(BlockOf[i], page[i])
        BY <4>2 DEF Journaled, RedoOf
      <4>. HIDE DEF i
      <4>4. ASSUME journal, NEW b \in Blocks,
                   NEW img \in mdur'[b] \cup {meta'[b]}
            PROVE  img = FreshImage \/ Journaled(b, img)
        <5>1. CASE img \in mdur[b] \cup {meta[b]}
          BY <1>0, <4>4, <5>1 DEF WriteAhead
        <5>2. CASE img \notin mdur[b] \cup {meta[b]}
          <6>1. b = BlockOf[i] /\ img = page[i]
            BY <4>1, <4>4, <5>2 DEF TypeOK
          <6>. QED  BY <4>3, <4>4, <6>1
        <5>. QED  BY <5>1, <5>2
      <4>. QED
        BY SMTT(40), <2>1, <4>4 DEF WriteAhead, Journaled, logVars
    <3>. QED  BY <3>1, <3>2
  <2>3. CASE pc' = "idle"
    BY <2>2, <2>3 DEF JournalInv
  <2>4. CASE pc' # "idle"
    <3>1. UNCHANGED <<dirty_pages, committing, cached, page>>
      BY <1>9, <2>4, WriteEffect
    <3>2. \A n : RedoOf(dirty_pages[n])' = RedoOf(dirty_pages[n])
      BY <3>1 DEF RedoOf
    <3>3. pc' \in {"write", "flush"}
      BY <1>9, <2>4, WriteEffect
    <3>. QED
      BY SMTT(40), <2>1, <2>2, <3>1, <3>2, <3>3 DEF JournalInv, logVars
  <2>. QED
    BY <2>3, <2>4
<1>10. CASE commit_flush_metadata
  <2>1. /\ pc = "flush" /\ UNCHANGED <<journal, meta, logVars>>
        /\ UNCHANGED <<mdur, data_synced>> \/ SyncStorage
        /\ \/ pc' = "idle"
           \/ /\ pc' = "release"
              /\ UNCHANGED <<dirty_pages, committing, cached, page>>
    BY <1>10 DEF commit_flush_metadata, FailCommit, flush_metadata, cacheVars
  <2>2. WriteAhead'
    BY <1>0, <2>1, WriteAheadKept, SyncKeepsMeta DEF logVars
  <2>3. pc' = "release" =>
           \A n : RedoOf(dirty_pages[n])' = RedoOf(dirty_pages[n])
    BY SMTT(40), <2>1 DEF RedoOf
  <2>. QED
    BY <2>1, <2>2, <2>3 DEF JournalInv, logVars
<1>11. CASE commit_release
  BY SMTT(40), <1>0, <1>11, WriteAheadKept
     DEF JournalInv, commit_release, storageVars, logVars
<1>12. CASE UNCHANGED vars
  <2>1. WriteAhead'
    BY <1>0, <1>12 DEF WriteAhead, Journaled, vars, txnVars, storageVars,
                       logVars
  <2>. QED
    BY SMTT(40), <1>12, <2>1
       DEF JournalInv, RedoOf, vars, txnVars, commitVars, cacheVars, logVars
<1>. QED
  BY <1>1, <1>2, <1>3, <1>4, <1>5, <1>6, <1>7, <1>8, <1>9, <1>10, <1>11,
     <1>12 DEF Next

\* The journal invariant holds at mount.
LEMMA InitJournalInv == Init => JournalInv
BY DEF Init, JournalInv, WriteAhead

\* Home locations never get ahead of the journal.
THEOREM WriteAheadHolds == Spec => []WriteAhead
<1>1. JournalInv => WriteAhead
  BY DEF JournalInv
<1>. QED
  BY <1>1, InitJournalInv, TypeCorrect, NextJournalInv, PTL DEF Spec

-----------------------------------------------------------------------------
\* A step that writes neither pages, home blocks nor records keeps the order
\* of data and metadata, whether or not it syncs.
LEMMA OrderedKept ==
    ASSUME TypeOK, OrderedInv, UNCHANGED <<page, meta, data_written>>,
           buf_redo' \cup log_redo' \subseteq buf_redo \cup log_redo,
           UNCHANGED <<mdur, data_synced>> \/ SyncStorage,
           pc' # "idle" => pc # "idle" \/ SyncStorage
    PROVE  OrderedInv'
<1>1. /\ data_synced \in Nat /\ data_written \in Nat
      /\ data_synced <= data_written
      /\ data_synced' \in {data_synced, data_written}
  BY DEF OrderedInv, SyncStorage, TypeOK
<1>2. data_synced <= data_synced' /\ data_synced' <= data_written'
  BY SMTT(40), <1>1
<1>3. ASSUME NEW i \in Inodes, NEW b \in Blocks, NEW img \in mdur'[b]
      PROVE  img[i].ext <= data_synced'
  <2>1. img \in mdur[b]
    BY SMTT(40), <1>3 DEF OrderedInv, SyncStorage
  <2>2. img[i].ext \in Nat /\ img[i].ext <= data_synced
    BY <1>3, <2>1 DEF OrderedInv, OrderedData, TypeOK, Image, Dinode
  <2>. QED
    BY <1>1, <1>2, <2>2
<1>4. ASSUME NEW i \in Inodes, NEW r \in buf_redo' \cup log_redo'
      PROVE  r.data[i].ext <= data_synced'
  <2>1. r.data[i].ext \in Nat /\ r.data[i].ext <= data_synced
    BY SMTT(40), <1>4 DEF OrderedInv, OrderedData, TypeOK, Redo, Image, Dinode
  <2>. QED
    BY SMTT(40), <1>1, <1>2, <2>1
<1>5. \A b \in Blocks : meta'[b] \in mdur'[b]
  BY DEF OrderedInv, SyncStorage
<1>6. pc' # "idle" => data_synced' = data_written'
  BY DEF OrderedInv, SyncStorage
<1>. QED
  BY SMTT(40), <1>2, <1>3, <1>4, <1>5, <1>6 DEF OrderedInv, OrderedData

\* Every step keeps the ordered-data invariant: file data an image refers to
\* is at least written, and synced before the image is logged.
LEMMA NextOrderedInv == TypeOK /\ OrderedInv /\ [Next]_vars => OrderedInv'
<1>. SUFFICES ASSUME TypeOK, OrderedInv, [Next]_vars PROVE OrderedInv'
  OBVIOUS
<1>. USE BlockOfAssumption
<1>1. CASE begin
  BY SMTT(40), <1>1, OrderedKept DEF begin, commitVars, cacheVars,
     storageVars, logVars
<1>2. CASE write_data
  <2>1. /\ pc = "idle" /\ data_written' = data_written + 1
        /\ UNCHANGED <<pc, page, meta, mdur, data_synced, buf_redo, log_redo>>
    BY SMTT(40), <1>2 DEF write_data, commitVars, cacheVars, logVars
  <2>2. ASSUME NEW i \in Inodes, NEW j \in Inodes
        PROVE  page[j][i].ext <= data_written + 1
    <3>1. page[j][i].ext \in Nat /\ page[j][i].ext <= data_written
      BY DEF OrderedInv, TypeOK, Image, Dinode
    <3>. QED  BY SMTT(40), <3>1 DEF TypeOK
  <2>3. data_synced <= data_written + 1
    BY SMTT(40) DEF OrderedInv, TypeOK
  <2>. QED
    BY <2>1, <2>2, <2>3 DEF OrderedInv, OrderedData
<1>3. ASSUME NEW i \in Inodes, update_inode_page(i) PROVE OrderedInv'
  <2>1. UNCHANGED <<pc, meta, mdur, data_written, data_synced, buf_redo,
                    log_redo>>
    BY <1>3 DEF update_inode_page, commitVars, storageVars, logVars
  <2>2. PICK img \in LoadedImages(i) : \E e \in {img[i].ext, data_written} :
          page' = [page EXCEPT ![i] =
                     [img EXCEPT ![i] = [ver |-> stamp + 1, ext |-> e]]]
    BY Zenon, <1>3 DEF update_inode_page
  <2>. PICK e \in {img[i].ext, data_written} :
          page' = [page EXCEPT ![i] =
                     [img EXCEPT ![i] = [ver |-> stamp + 1, ext |-> e]]]
    BY ZenonT(40), <2>2
  <2>3. img \in Image
    BY <1>3, LoadedImagesType
  <2>4. \A k \in Inodes : img[k].ext <= data_written
    <3>1. CASE \E j \in Inodes : img = page[j]
      BY <3>1 DEF OrderedInv
    <3>2. CASE \E b \in Blocks : img = meta[b]
      <4>. PICK b \in Blocks : img = meta[b]
        BY <3>2
      <4>. TAKE k \in Inodes
      <4>1. img[k].ext \in Nat
        BY SMTT(40), <2>3 DEF Image, Dinode
      <4>2. img[k].ext <= data_synced
        BY DEF OrderedInv, OrderedData
      <4>. QED
        BY SMTT(40), <4>1, <4>2 DEF OrderedInv, TypeOK
    <3>. QED
      BY SMTT(40), <1>3, <3>1, <3>2 DEF LoadedImages, TypeOK
  <2>5. e <= data_written
    BY SMTT(40), <1>3, <2>4 DEF TypeOK
  <2>. DEFINE d == [ver |-> stamp + 1, ext |-> e]
  <2>6. d.ext = e
    OBVIOUS
  <2>. HIDE DEF d
  <2>7. ASSUME NEW k \in Inodes, NEW j \in Inodes
        PROVE  page'[j][k].ext <= data_written
    <3>0. page' = [page EXCEPT ![i] = [img EXCEPT ![i] = d]]
      BY SMTT(40) DEF d
    <3>1. CASE j # i
      BY SMTT(40), <1>3, <3>0, <3>1 DEF OrderedInv, TypeOK
    <3>2. CASE j = i /\ k # i
      BY SMTT(40), <1>3, <2>3, <2>4, <3>0, <3>2 DEF TypeOK, Image
    <3>3. CASE j = i /\ k = i
      BY ZenonT(40), <1>3, <2>3, <2>5, <2>6, <3>0, <3>3 DEF TypeOK, Image
    <3>. QED  BY <3>1, <3>2, <3>3
  <2>. QED
    BY <2>1, <2>7 DEF OrderedInv, OrderedData
<1>4. ASSUME NEW i \in Inodes, mark_dirty(i) PROVE OrderedInv'
  BY <1>4, OrderedKept DEF mark_dirty, commitVars, storageVars, logVars
<1>5. CASE abort
  BY <1>5, OrderedKept DEF abort, abort_pages, commitVars, storageVars, logVars
<1>6. CASE commit_flush_data
  <2>1. /\ UNCHANGED <<page, meta, data_written, buf_redo, log_redo>>
        /\ UNCHANGED <<mdur, data_synced>> \/ SyncStorage
        /\ pc' # "idle" => SyncStorage
    BY <1>6 DEF commit_flush_data, FailCommit, abort_pages, flush_data,
                cacheVars, logVars
  <2>. QED
    BY <2>1, OrderedKept
<1>7. CASE commit_append
  <2>. DEFINE ri == RedoOf(dirty_pages[idx])
  <2>1. /\ idx <= Len(dirty_pages) /\ pc = "append"
        /\ UNCHANGED <<page, meta, data_written>>
        /\ buf_redo' \cup log_redo' \subseteq buf_redo \cup log_redo \cup {ri}
        /\ UNCHANGED <<mdur, data_synced>> \/ SyncStorage
    BY <1>7, AppendEffect
       DEF commit_append, FailCommit, abort_pages, cacheVars
  <2>2. data_synced = data_written /\ data_synced' = data_synced
    BY <2>1 DEF OrderedInv, SyncStorage
  <2>3. dirty_pages[idx] \in Inodes
    BY SMTT(40), <2>1 DEF TypeOK
  <2>4. \A k \in Inodes : ri.data[k].ext <= data_synced'
    BY SMTT(40), <2>2, <2>3 DEF RedoOf, OrderedInv
  <2>. HIDE DEF ri
  <2>5. \A b \in Blocks : mdur'[b] \subseteq mdur[b] /\ meta'[b] \in mdur'[b]
    BY <2>1 DEF OrderedInv, SyncStorage
  <2>6. ASSUME NEW k \in Inodes, NEW r \in buf_redo' \cup log_redo'
        PROVE  r.data[k].ext <= data_synced'
    BY <2>1, <2>2, <2>4, <2>6 DEF OrderedInv, OrderedData
  <2>. QED
    BY <2>1, <2>2, <2>5, <2>6 DEF OrderedInv, OrderedData
<1>8. CASE commit_record
  <2>1. UNCHANGED page
    BY <1>8 DEF commit_record, FailCommit, abort_pages, cacheVars
  <2>. QED
    BY <1>8, <2>1, RecordEffect, OrderedKept
<1>9. CASE commit_write
  <2>1. /\ pc = "write"
        /\ UNCHANGED <<page, data_written, data_synced, logVars>>
    BY <1>9, WriteEffect DEF commit_write, FailCommit, abort_pages, cacheVars
  <2>2. CASE UNCHANGED <<meta, mdur>>
    BY SMTT(40), <2>1, <2>2, OrderedKept DEF logVars
  <2>3. CASE ~UNCHANGED <<meta, mdur>>
    <3>. DEFINE i == dirty_pages[idx]
    <3>1. /\ idx <= Len(dirty_pages)
          /\ meta' = [meta EXCEPT ![BlockOf[i]] = page[i]]
          /\ mdur' = [mdur EXCEPT ![BlockOf[i]] = @ \cup {page[i]}]
      BY <1>9, <2>3, WriteEffect
    <3>2. i \in Inodes
      BY <3>1 DEF TypeOK
    <3>. HIDE DEF i
    <3>3. \A k \in Inodes : page[i][k].ext <= data_synced
      BY SMTT(40), <2>1, <3>2 DEF OrderedInv
    <3>4. \A b \in Blocks : meta'[b] \in mdur'[b]
      BY <3>1, <3>2 DEF OrderedInv, TypeOK
    <3>5. \A b \in Blocks : mdur'[b] \subseteq mdur[b] \cup {page[i]}
      BY <3>1, <3>2 DEF TypeOK
    <3>. QED
      BY SMTT(40), <2>1, <3>3, <3>4, <3>5 DEF OrderedInv, OrderedData, logVars
  <2>. QED  BY SMTT(40), <2>2, <2>3
<1>10. CASE commit_flush_metadata
  <2>1. /\ pc = "flush"
        /\ UNCHANGED <<page, meta, data_written, buf_redo, log_redo>>
        /\ UNCHANGED <<mdur, data_synced>> \/ SyncStorage
    BY SMTT(40), <1>10 DEF commit_flush_metadata, FailCommit, abort_pages,
                 flush_metadata, cacheVars, logVars
  <2>. QED
    BY <2>1, OrderedKept
<1>11. CASE commit_release
  <2>1. /\ UNCHANGED <<meta, mdur, data_written, data_synced, buf_redo,
                       log_redo>>
        /\ pc' = "idle"
        /\ page' = [i \in Inodes |->
                      IF i \in Keys(dirty_pages) THEN FreshImage ELSE page[i]]
    BY SMTT(40), <1>11 DEF commit_release, storageVars, logVars
  <2>2. ASSUME NEW k \in Inodes, NEW j \in Inodes
        PROVE  page'[j][k].ext <= data_written
    BY <2>1 DEF FreshImage, OrderedInv, TypeOK
  <2>. QED
    BY SMTT(40), <2>1, <2>2 DEF OrderedInv, OrderedData
<1>12. CASE UNCHANGED vars
  BY <1>12, OrderedKept
     DEF vars, commitVars, cacheVars, storageVars, logVars
<1>. QED
  BY <1>1, <1>2, <1>3, <1>4, <1>5, <1>6, <1>7, <1>8, <1>9, <1>10, <1>11,
     <1>12 DEF Next

\* No durable metadata, in place or in the journal, refers to data that is not
\* durable.
THEOREM OrderedDataHolds == Spec => []OrderedData
<1>1. Init => OrderedInv
  BY BlockOfAssumption DEF Init, OrderedInv, OrderedData, FreshImage
<1>2. OrderedInv => OrderedData
  BY SMTT(40) DEF OrderedInv
<1>. QED
  BY <1>1, <1>2, TypeCorrect, NextOrderedInv, PTL DEF Spec

-----------------------------------------------------------------------------
\* Every step keeps the publication invariant: what commit() has written home
\* so far is among the possible contents, and all of it after the last flush.
LEMMA NextPublishInv == TypeOK /\ PublishInv /\ [Next]_vars => PublishInv'
<1>. SUFFICES ASSUME TypeOK, PublishInv, [Next]_vars PROVE PublishInv'
  OBVIOUS
<1>. USE BlockOfAssumption
<1>0. ASSUME pc' \in {"idle", "append"} PROVE PublishInv'
  BY <1>0 DEF PublishInv
<1>1. CASE begin
  BY <1>0, <1>1 DEF begin, commitVars
<1>2. CASE write_data
  BY <1>0, <1>2 DEF write_data, commitVars
<1>3. ASSUME NEW i \in Inodes, update_inode_page(i) PROVE PublishInv'
  BY <1>0, <1>3 DEF update_inode_page, commitVars
<1>4. ASSUME NEW i \in Inodes, mark_dirty(i) PROVE PublishInv'
  BY <1>0, <1>4 DEF mark_dirty, commitVars
<1>5. CASE abort
  BY SMTT(40), <1>0, <1>5 DEF abort, commitVars
<1>6. CASE commit_flush_data
  <2>1. pc' \in {"idle", "append"} \/ (pc' = "write" /\ idx' = FirstPage)
    BY <1>6 DEF commit_flush_data, FailCommit
  <2>. QED
    BY <1>0, <2>1 DEF PublishInv, FirstPage
<1>7. CASE commit_append
  BY SMTT(40), <1>0, <1>7, AppendEffect
<1>8. CASE commit_record
  <2>1. pc' = "idle" \/ (pc' = "write" /\ idx' = FirstPage)
    BY SMTT(40), <1>8, RecordEffect
  <2>. QED
    BY <1>0, <2>1 DEF PublishInv, FirstPage
<1>9. CASE commit_write
  <2>1. CASE pc' = "idle"
    BY SMTT(40), <1>0, <2>1
  <2>2. CASE pc' = "flush"
    BY SMTT(40), <1>9, <2>2, WriteEffect DEF PublishInv, Keys
  <2>3. CASE pc' = "write" /\ dirty_pages[idx] \notin cached
    <3>1. /\ pc = "write" /\ idx' = idx + 1 /\ idx <= Len(dirty_pages)
          /\ UNCHANGED <<dirty_pages, cached, page, meta>>
      BY <1>9, <2>3, WriteEffect
    <3>2. ASSUME NEW n \in 1 .. Len(dirty_pages), n < idx + 1,
                 dirty_pages[n] \in cached
          PROVE  n < idx
      BY SMTT(40), <2>3, <3>2 DEF TypeOK
    <3>. QED
      BY SMTT(40), <2>3, <3>1, <3>2 DEF PublishInv
  <2>4. CASE pc' = "write" /\ dirty_pages[idx] \in cached
    <3>. DEFINE i == dirty_pages[idx]
                K == Keys(dirty_pages) \cap cached
    <3>1. /\ pc = "write" /\ idx' = idx + 1 /\ idx <= Len(dirty_pages)
          /\ UNCHANGED <<dirty_pages, cached, page>>
          /\ meta' = [meta EXCEPT ![BlockOf[i]] = page[i]]
      BY SMTT(40), <1>9, <2>4, WriteEffect
    <3>2. i \in K /\ i \in Inodes
      BY <2>4, <3>1 DEF Keys, TypeOK
    <3>3. K \subseteq Inodes
      BY DEF TypeOK
    <3>. HIDE DEF i, K
    <3>4. meta'[BlockOf[i]] = page[i]
      BY SMTT(40), <3>1, <3>2 DEF TypeOK
    <3>5. ASSUME NEW n \in 1 .. Len(dirty_pages), n < idx + 1,
                 dirty_pages[n] \in cached
          PROVE  \E j \in K : /\ BlockOf[j] = BlockOf[dirty_pages[n]]
                              /\ meta'[BlockOf[j]] = page[j]
      <4>1. CASE BlockOf[dirty_pages[n]] = BlockOf[i]
        BY <3>2, <3>4, <4>1
      <4>2. CASE BlockOf[dirty_pages[n]] # BlockOf[i]
        <5>1. n < idx
          BY SMTT(40), <3>5, <4>2 DEF i, TypeOK
        <5>2. PICK j \in K : /\ BlockOf[j] = BlockOf[dirty_pages[n]]
                             /\ meta[BlockOf[j]] = page[j]
          BY SMTT(40), <3>1, <3>5, <5>1 DEF PublishInv, K
        <5>3. meta'[BlockOf[j]] = meta[BlockOf[j]]
          BY <3>1, <3>2, <3>3, <4>2, <5>2 DEF TypeOK
        <5>. QED  BY SMTT(40), <5>2, <5>3
      <4>. QED  BY <4>1, <4>2
    <3>. QED
      BY SMTT(40), <2>4, <3>1, <3>5 DEF PublishInv, K
  <2>. QED
    BY <1>9, <2>1, <2>2, <2>3, <2>4, WriteEffect
<1>10. CASE commit_flush_metadata
  <2>1. /\ pc = "flush"
        /\ \/ pc' = "idle"
           \/ /\ pc' = "release" /\ SyncStorage
              /\ UNCHANGED <<idx, dirty_pages, cached, page, meta>>
    BY SMTT(40), <1>10 DEF commit_flush_metadata, FailCommit, flush_metadata,
       cacheVars
  <2>2. CASE pc' = "release"
    BY SMTT(40), <2>1, <2>2 DEF PublishInv, SyncStorage
  <2>. QED
    BY <1>0, <2>1, <2>2
<1>11. CASE commit_release
  BY SMTT(40), <1>0, <1>11 DEF commit_release
<1>12. CASE UNCHANGED vars
  BY <1>12 DEF PublishInv, vars, txnVars, commitVars, cacheVars, storageVars
<1>. QED
  BY <1>1, <1>2, <1>3, <1>4, <1>5, <1>6, <1>7, <1>8, <1>9, <1>10, <1>11,
     <1>12 DEF Next

\* What commit() acknowledges is durable, in place and in the journal.
THEOREM AcknowledgedIsDurable == Spec => []AcknowledgedDurable
<1>1. Init => PublishInv
  BY SMTT(40) DEF Init, PublishInv
<1>2. TypeOK /\ JournalInv /\ PublishInv => AcknowledgedDurable
  <2>. SUFFICES ASSUME TypeOK, JournalInv, PublishInv, pc = "release"
                PROVE  AcknowledgedDurable
    BY SMTT(40) DEF AcknowledgedDurable
  <2>. USE BlockOfAssumption
  <2>1. ASSUME NEW i \in Keys(dirty_pages) \cap cached
        PROVE  \E j \in Keys(dirty_pages) \cap cached :
                  /\ BlockOf[j] = BlockOf[i]
                  /\ mdur[BlockOf[i]] = {page[j]}
                  /\ journal => RedoOf(j) \in log_redo
    <3>1. PICK n \in 1 .. Len(dirty_pages) : i = dirty_pages[n]
      BY SMTT(40), <2>1 DEF Keys
    <3>2. n < idx
      BY SMTT(40), <3>1 DEF PublishInv, TypeOK
    <3>3. PICK j \in Keys(dirty_pages) \cap cached :
             BlockOf[j] = BlockOf[i] /\ meta[BlockOf[j]] = page[j]
      BY SMTT(40), <2>1, <3>1, <3>2 DEF PublishInv
    <3>4. journal => RedoOf(j) \in log_redo
      BY SMTT(40), <3>3 DEF JournalInv, Keys
    <3>5. mdur[BlockOf[i]] = {page[j]}
      BY <2>1, <3>3 DEF PublishInv, TypeOK
    <3>. QED  BY <3>3, <3>4, <3>5
  <2>2. journal => committing \in log_commit
    BY DEF JournalInv
  <2>. QED
    BY SMTT(40), <2>1, <2>2 DEF AcknowledgedDurable
<1>. QED
  BY <1>1, <1>2, TypeCorrect, InitJournalInv, NextJournalInv, NextPublishInv,
     PTL DEF Spec

=============================================================================
