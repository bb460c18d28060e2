-------------------------- MODULE FuseLayerProofs ---------------------------
(***************************************************************************)
(* Proofs about FuseLayer for any inodes and blocks of the inode table and *)
(* any number of handles, references, links and errors.                    *)
(***************************************************************************)
EXTENDS FuseLayer, FiniteSetTheorems, TLAPS

\* A table with a handle more (open_handle()).
LEMMA ExtendedTable ==
    ASSUME NEW table, NEW fh \in Handles, NEW h \in OpenHandle,
           DOMAIN table \subseteq Handles,
           table \in [DOMAIN table -> OpenHandle],
           NEW e, e = Extended(table, fh, h)
    PROVE  /\ DOMAIN e = DOMAIN table \cup {fh}
           /\ DOMAIN e \subseteq Handles
           /\ e \in [DOMAIN e -> OpenHandle]
           /\ e[fh] = h
           /\ \A f \in DOMAIN table : f # fh => e[f] = table[f]
BY DEF Extended

\* A table with a handle less (release_handle()).
LEMMA ReducedTable ==
    ASSUME NEW table, NEW fh,
           DOMAIN table \subseteq Handles,
           table \in [DOMAIN table -> OpenHandle],
           NEW e, e = Without(table, fh)
    PROVE  /\ DOMAIN e = DOMAIN table \ {fh}
           /\ DOMAIN e \subseteq Handles
           /\ e \in [DOMAIN e -> OpenHandle]
           /\ \A f \in DOMAIN e : e[f] = table[f]
BY DEF Without

\* The handles held in a block are finitely many.
LEMMA HeldFinite ==
    ASSUME FuseTypeOK, NEW b
    PROVE  IsFiniteSet(HeldIn(b)) /\ Cardinality(HeldIn(b)) \in Nat
<1>1. IsFiniteSet(Handles)
  BY FuseAssumption, FS_Interval DEF Handles
<1>2. HeldIn(b) \in SUBSET Handles
  BY DEF FuseTypeOK, HeldIn
<1> QED
  BY <1>1, <1>2, FS_Subset, FS_CardinalityType

\* The steps that leave the handles and their counts alone.
Quiet(i) ==
    \/ lookup(i) \/ lookup_error(i) \/ unlink(i) \/ rmdir(i)
    \/ \E kind \in {"file", "dir"} : make(i, kind) \/ make_error(i, kind)
    \/ \E answered \in BOOLEAN : link(i, answered)
    \/ \E n \in 1 .. MaxKnown : forget(i, n)

\* The requests on a handle.
Requested(fh) ==
    \/ read_write(fh) \/ fallocate_lseek(fh) \/ readdir(fh)
    \/ \E fh_out \in Handles : copy_file_range(fh, fh_out)

\* What they leave unchanged.
LEMMA QuietSteps ==
    ASSUME NEW i \in Inodes, Quiet(i)
    PROVE  UNCHANGED <<open_handles, handles, next_fh, held>>
BY DEF Quiet, lookup, lookup_error, unlink, rmdir, make, make_error, link,
       forget, volume, tables, kernel

\* A request on a handle changes nothing but the answer.
LEMMA RequestSteps ==
    ASSUME NEW fh \in Handles, Requested(fh)
    PROVE  UNCHANGED <<mode, open_handles, node_states, handles, next_fh,
                       known, held, hurt>>
BY Zenon DEF Requested, read_write, fallocate_lseek, readdir, copy_file_range,
       Answer, volume, tables, kernel

\* What has gone wrong stays recorded.
LEMMA HurtStays == [Next]_vars => hurt \subseteq hurt'
BY Zenon DEF Next, vars, lookup, lookup_error, unlink, rmdir, make, make_error,
       create, link, forget, open, opendir, OpenAs, release, releasedir,
       Closed, release_uncommitted, release_error, read_write,
       fallocate_lseek, readdir, copy_file_range, Answer, Fault, NoFault

\* The type invariant is inductive.
THEOREM FuseTypeCorrect == Spec => []FuseTypeOK
<1> USE FuseAssumption
<1>1. Init => FuseTypeOK
  BY DEF Init, FuseTypeOK, Handles
<1>2. FuseTypeOK /\ [Next]_vars => FuseTypeOK'
  <2> SUFFICES ASSUME FuseTypeOK, [Next]_vars
               PROVE  FuseTypeOK'
    OBVIOUS
  <2>1. ASSUME NEW i \in Inodes, lookup(i) \/ lookup_error(i)
        PROVE  FuseTypeOK'
    BY <2>1 DEF FuseTypeOK, lookup, lookup_error, add_node_state, Entry,
                Fault, NoFault, volume, kernel, OpenHandle
  <2>2. ASSUME NEW i \in Inodes, NEW answered \in BOOLEAN, link(i, answered)
        PROVE  FuseTypeOK'
    BY <2>2 DEF FuseTypeOK, link, Entry, Fault, tables, OpenHandle
  <2>3. ASSUME NEW i \in Inodes, unlink(i) \/ rmdir(i) PROVE FuseTypeOK'
    BY <2>3 DEF FuseTypeOK, unlink, rmdir, NoFault, tables, kernel, OpenHandle
  <2>4. ASSUME NEW i \in Inodes, NEW kind \in {"file", "dir"},
               make(i, kind) \/ make_error(i, kind)
        PROVE  FuseTypeOK'
    BY SMTT(40), <2>4 DEF FuseTypeOK, make, make_error, Made, add_node_state,
       Entry,
                Fault, NoFault, kernel, OpenHandle
  <2>5. ASSUME NEW i \in Inodes, NEW dir \in BOOLEAN, open_handle(i, dir)
        PROVE  /\ next_fh' \in Nat \ {0}
               /\ DOMAIN held' \subseteq Handles
               /\ held' \in [DOMAIN held' -> OpenHandle]
               /\ DOMAIN handles' \subseteq Handles
               /\ handles' \in [DOMAIN handles' -> OpenHandle]
    <3>1. next_fh \in Handles /\ [ino |-> i, is_dir |-> dir] \in OpenHandle
      BY <2>5 DEF open_handle, FuseTypeOK, Handles, OpenHandle
    <3>2. /\ DOMAIN held' \subseteq Handles
          /\ held' \in [DOMAIN held' -> OpenHandle]
      BY Zenon, <3>1, <2>5, ExtendedTable DEF open_handle, FuseTypeOK
    <3>3. /\ DOMAIN handles' \subseteq Handles
          /\ handles' \in [DOMAIN handles' -> OpenHandle]
      BY ZenonT(40), <3>1, <2>5, ExtendedTable DEF open_handle, FuseTypeOK
    <3> QED
      BY <3>2, <3>3, <2>5 DEF open_handle, FuseTypeOK
  <2>6. ASSUME NEW i \in Inodes
        PROVE  open_file(i) \in [Blocks -> Nat]
    BY DEF open_file, FuseTypeOK, Blocks
  <2>7. ASSUME NEW i \in Inodes, NEW opened \in BOOLEAN, create(i, opened)
        PROVE  FuseTypeOK'
    <3>1. open_handle(i, FALSE)
      BY Zenon, <2>7 DEF create
    <3>2. open_handles' \in [Blocks -> Nat]
      BY <2>6, <2>7 DEF create, FuseTypeOK
    <3>3. faults' \in Nat /\ hurt' \subseteq
                   {"counted", "unopened", "uncounted", "kept"}
      BY <2>7 DEF create, Fault, NoFault, FuseTypeOK
    <3>4. /\ mode' \in [Inodes -> {"free", "file", "dir"}]
          /\ nlink' \in [Inodes -> Nat]
          /\ node_states' \in [Inodes -> Nat] /\ known' \in [Inodes -> Nat]
          /\ reply' = reply
      BY <2>7 DEF create, Made, add_node_state, Entry, FuseTypeOK
    <3> QED
      BY Zenon, <2>5, <3>1, <3>2, <3>3, <3>4 DEF FuseTypeOK
  <2>8. ASSUME NEW i \in Inodes, NEW dir \in BOOLEAN, OpenAs(i, dir)
        PROVE  FuseTypeOK'
    BY <2>5, <2>6, <2>8 DEF FuseTypeOK, OpenAs, NoFault
  <2>9. ASSUME NEW i \in Inodes, NEW n \in 1 .. MaxKnown, forget(i, n)
        PROVE  FuseTypeOK'
    BY <2>9 DEF FuseTypeOK, forget, decrement_node_state, NoFault, volume,
                OpenHandle
  <2>10. ASSUME NEW fh \in Handles, NEW freed \in BOOLEAN,
                Closed(fh, freed), NoFault \/ Fault({"kept"})
         PROVE  FuseTypeOK'
    <3>1. held[fh].ino \in Inodes
      BY SMTT(40), <2>10 DEF Closed, FuseTypeOK, OpenHandle
    <3>2. open_handles' \in [Blocks -> Nat]
      BY <2>10, <3>1 DEF Closed, release_count, FuseTypeOK, Blocks
    <3>3. mode' \in [Inodes -> {"free", "file", "dir"}]
      BY Zenon, <2>10 DEF Closed, Reclaimed, FuseTypeOK
    <3>4. /\ DOMAIN held' \subseteq Handles
          /\ held' \in [DOMAIN held' -> OpenHandle]
      BY Zenon, <2>10, ReducedTable DEF Closed, FuseTypeOK
    <3>5. /\ DOMAIN handles' \subseteq Handles
          /\ handles' \in [DOMAIN handles' -> OpenHandle]
      BY Zenon, <2>10, ReducedTable DEF Closed, release_handle, FuseTypeOK
    <3> QED
      BY <2>10, <3>2, <3>3, <3>4, <3>5 DEF Closed, FuseTypeOK, NoFault, Fault
  <2>11. ASSUME NEW fh \in Handles, NEW flushed \in BOOLEAN,
                release_error(fh, flushed)
         PROVE  FuseTypeOK'
    <3>1. /\ DOMAIN held' \subseteq Handles
          /\ held' \in [DOMAIN held' -> OpenHandle]
      BY Zenon, <2>11, ReducedTable DEF release_error, FuseTypeOK
    <3>2. /\ DOMAIN handles' \subseteq Handles
          /\ handles' \in [DOMAIN handles' -> OpenHandle]
      BY Zenon, <2>11, ReducedTable DEF release_error, release_handle,
         FuseTypeOK
    <3> QED
      BY <2>11, <3>1, <3>2 DEF release_error, FuseTypeOK, Fault, volume
  <2>12. ASSUME NEW fh \in Handles, NEW i, NEW expect_file \in BOOLEAN
         PROVE  validate_handle(fh, i, expect_file)
                   \in {"ok", "EBADF", "EISDIR", "ENOTDIR"}
    BY DEF validate_handle
  <2>14. ASSUME NEW r \in {"ok", "EBADF", "EISDIR", "ENOTDIR"}, Answer(r)
         PROVE  FuseTypeOK'
    BY <2>14 DEF Answer, FuseTypeOK, volume, tables, kernel, OpenHandle
  <2>15. ASSUME NEW fh \in Handles, Requested(fh)
         PROVE  FuseTypeOK'
    BY Zenon, <2>12, <2>14, <2>15 DEF Requested, read_write, fallocate_lseek,
                               readdir, copy_file_range, Checked
  <2>13. CASE UNCHANGED vars
    BY <2>13 DEF vars, volume, tables, kernel, FuseTypeOK, OpenHandle
  <2> QED
    BY Zenon, <2>1, <2>2, <2>3, <2>4, <2>7, <2>8, <2>9, <2>10, <2>11, <2>13,
       <2>15
    DEF Next, open, opendir, release, releasedir, release_uncommitted,
        Requested
<1> QED
  BY <1>1, <1>2, PTL DEF Spec

\* Every handle of the kernel is answered for by the table.
THEOREM HandlesAlwaysHeld == Spec => []HandlesHeld
<1>1. Init => HandlesHeld
  BY DEF Init, HandlesHeld
<1>2. FuseTypeOK /\ HandlesHeld /\ [Next]_vars => HandlesHeld'
  <2> SUFFICES ASSUME FuseTypeOK, HandlesHeld, [Next]_vars
               PROVE  HandlesHeld'
    OBVIOUS
  <2>1. ASSUME NEW i \in Inodes, NEW dir \in BOOLEAN, open_handle(i, dir)
        PROVE  HandlesHeld'
    <3> DEFINE h == [ino |-> i, is_dir |-> dir]
    <3>1. next_fh \in Handles /\ h \in OpenHandle
      BY <2>1, FuseAssumption DEF open_handle, FuseTypeOK, Handles, OpenHandle
    <3>2. /\ DOMAIN held' = DOMAIN held \cup {next_fh}
          /\ held'[next_fh] = h
          /\ \A f \in DOMAIN held : f # next_fh => held'[f] = held[f]
      BY <2>1 DEF open_handle, Extended
    <3>3. /\ DOMAIN handles' = DOMAIN handles \cup {next_fh}
          /\ handles'[next_fh] = h
          /\ \A f \in DOMAIN handles : f # next_fh => handles'[f] = handles[f]
      BY <2>1 DEF open_handle, Extended
    <3>4. next_fh' = next_fh + 1 /\ next_fh \in Nat
      BY <2>1 DEF open_handle, FuseTypeOK
    <3>5. \A f \in DOMAIN held : f \in Nat
      BY FuseAssumption DEF FuseTypeOK, Handles
    <3> HIDE DEF h
    <3> QED
      BY <3>2, <3>3, <3>4, <3>5 DEF HandlesHeld
  <2>2. ASSUME NEW fh \in Handles, NEW freed \in BOOLEAN, Closed(fh, freed)
        PROVE  HandlesHeld'
    <3>1. /\ DOMAIN held' = DOMAIN held \ {fh}
          /\ \A f \in DOMAIN held' : held'[f] = held[f]
      BY <2>2 DEF Closed, Without
    <3>2. /\ DOMAIN handles' = DOMAIN handles \ {fh}
          /\ \A f \in DOMAIN handles' : handles'[f] = handles[f]
      BY <2>2 DEF Closed, release_handle, Without
    <3> QED
      BY <2>2, <3>1, <3>2 DEF Closed, HandlesHeld
  <2>3. ASSUME NEW fh \in Handles, NEW flushed \in BOOLEAN,
               release_error(fh, flushed)
        PROVE  HandlesHeld'
    <3>1. /\ DOMAIN held' = DOMAIN held \ {fh}
          /\ \A f \in DOMAIN held' : held'[f] = held[f]
      BY <2>3 DEF release_error, Without
    <3>2. /\ DOMAIN handles \ {fh} \subseteq DOMAIN handles'
          /\ \A f \in DOMAIN handles' : handles'[f] = handles[f]
      BY <2>3 DEF release_error, release_handle, Without
    <3> QED
      BY <2>3, <3>1, <3>2 DEF release_error, HandlesHeld
  <2>4. ASSUME UNCHANGED <<handles, held, next_fh>> PROVE HandlesHeld'
    BY <2>4 DEF HandlesHeld
  <2>5. CASE UNCHANGED vars
    BY <2>4, <2>5 DEF vars, tables, kernel
  <2>6. ASSUME NEW i \in Inodes, NEW opened \in BOOLEAN, create(i, opened)
        PROVE  HandlesHeld'
    BY Zenon, <2>1, <2>6 DEF create
  <2>7. ASSUME NEW i \in Inodes, NEW dir \in BOOLEAN, OpenAs(i, dir)
        PROVE  HandlesHeld'
    BY <2>1, <2>7 DEF OpenAs
  <2>8. ASSUME NEW i \in Inodes, Quiet(i)
        PROVE  HandlesHeld'
    BY <2>4, <2>8, QuietSteps
  <2>9. ASSUME NEW fh \in Handles, Requested(fh) PROVE HandlesHeld'
    BY <2>4, <2>9, RequestSteps
  <2> QED
    BY Zenon, <2>2, <2>3, <2>5, <2>6, <2>7, <2>8, <2>9
    DEF Next, open, opendir, release, releasedir, release_uncommitted, Quiet,
        Requested
<1> QED
  BY <1>1, <1>2, FuseTypeCorrect, PTL DEF Spec

\* The server's lookup counts cover the kernel's.
THEOREM LookupAlwaysCovered == Spec => []LookupCovered
<1>1. Init => LookupCovered
  BY DEF Init, LookupCovered
<1>2. FuseTypeOK /\ LookupCovered /\ [Next]_vars => LookupCovered'
  <2> SUFFICES ASSUME FuseTypeOK, LookupCovered, [Next]_vars
               PROVE  LookupCovered'
    OBVIOUS
  <2>1. ASSUME NEW i \in Inodes, Entry(i), node_states' = add_node_state(i),
               hurt \subseteq hurt'
        PROVE  LookupCovered'
    BY <2>1 DEF Entry, add_node_state, LookupCovered, FuseTypeOK
  <2>2. ASSUME NEW i \in Inodes,
               \/ lookup(i)
               \/ \E kind \in {"file", "dir"} : make(i, kind)
               \/ \E opened \in BOOLEAN : create(i, opened)
        PROVE  LookupCovered'
    BY ZenonT(40), <2>1, <2>2 DEF lookup, make, create, Made, NoFault, Fault
  <2>3. ASSUME NEW i \in Inodes,
               \/ lookup_error(i)
               \/ \E kind \in {"file", "dir"} : make_error(i, kind)
        PROVE  LookupCovered'
    BY <2>3 DEF lookup_error, make_error, Made, add_node_state, Fault, kernel,
                LookupCovered, FuseTypeOK
  <2>4. ASSUME NEW i \in Inodes, NEW answered \in BOOLEAN, link(i, answered)
        PROVE  LookupCovered'
    BY <2>4 DEF link, Fault, tables, LookupCovered
  <2>5. ASSUME NEW i \in Inodes, NEW n \in 1 .. MaxKnown, forget(i, n)
        PROVE  LookupCovered'
    BY <2>5, FuseAssumption DEF forget, decrement_node_state, NoFault,
                                LookupCovered, FuseTypeOK
  <2>6. ASSUME UNCHANGED <<node_states, known>>, hurt \subseteq hurt'
        PROVE  LookupCovered'
    BY <2>6 DEF LookupCovered
  <2>7. ASSUME NEW i \in Inodes,
               \/ unlink(i) \/ rmdir(i)
               \/ \E dir \in BOOLEAN : OpenAs(i, dir)
        PROVE  LookupCovered'
    BY <2>6, <2>7 DEF unlink, rmdir, OpenAs, NoFault, tables, kernel
  <2>8. ASSUME NEW fh \in Handles,
               \/ \E freed \in BOOLEAN :
                     Closed(fh, freed) /\ (NoFault \/ Fault({"kept"}))
               \/ Requested(fh)
               \/ \E flushed \in BOOLEAN : release_error(fh, flushed)
        PROVE  LookupCovered'
    BY <2>6, <2>8, RequestSteps DEF Closed, release_error, Fault, NoFault
  <2>9. CASE UNCHANGED vars
    BY SMTT(40), <2>6, <2>9 DEF vars, tables, kernel
  <2> QED
    BY Zenon, <2>2, <2>3, <2>4, <2>5, <2>7, <2>8, <2>9
    DEF Next, open, opendir, release, releasedir, release_uncommitted,
        Requested
<1> QED
  BY <1>1, <1>2, FuseTypeCorrect, PTL DEF Spec

\* A step from counted handles leads to counted handles.
LEMMA CountedStep ==
    FuseTypeOK /\ FuseTypeOK' /\ HandlesHeld /\ HeldCounted /\ [Next]_vars
        => HeldCounted'
<1> SUFFICES ASSUME FuseTypeOK, FuseTypeOK', HandlesHeld, HeldCounted,
                    [Next]_vars, "unopened" \notin hurt', NEW b \in Blocks
             PROVE  Cardinality(HeldIn(b)') <= open_handles'[b]
  BY DEF HeldCounted, Blocks, HeldIn
<1>1. hurt \subseteq hurt'
  BY HurtStays
<1>2. /\ Cardinality(HeldIn(b)) <= open_handles[b]
      /\ IsFiniteSet(HeldIn(b)) /\ Cardinality(HeldIn(b)) \in Nat
      /\ open_handles[b] \in Nat
  BY <1>1, HeldFinite DEF HeldCounted, FuseTypeOK
<1>3. ASSUME NEW i \in Inodes, NEW dir \in BOOLEAN, open_handle(i, dir),
             open_handles' = open_file(i)
      PROVE  Cardinality(HeldIn(b)') <= open_handles'[b]
  <2>1. /\ DOMAIN held' = DOMAIN held \cup {next_fh}
        /\ held'[next_fh].ino = i
        /\ \A f \in DOMAIN held : f # next_fh => held'[f] = held[f]
    BY <1>3 DEF open_handle, Extended
  <2>2. next_fh \notin DOMAIN held
    BY FuseAssumption DEF HandlesHeld, FuseTypeOK, Handles
  <2>3. CASE BlockOf[i] = b
    <3>1. HeldIn(b)' = HeldIn(b) \cup {next_fh}
      BY <2>1, <2>2, <2>3 DEF HeldIn
    <3>2. Cardinality(HeldIn(b)') = Cardinality(HeldIn(b)) + 1
      BY ZenonT(40), <3>1, <2>2, <1>2, FS_AddElement DEF HeldIn
    <3>3. open_handles'[b] = open_handles[b] + 1
      BY <1>3, <2>3 DEF open_file, FuseTypeOK
    <3> QED
      BY <3>2, <3>3, <1>2
  <2>4. CASE BlockOf[i] # b
    <3>1. HeldIn(b)' = HeldIn(b)
      BY <2>1, <2>2, <2>4 DEF HeldIn
    <3>2. open_handles'[b] = open_handles[b]
      BY <1>3, <2>4 DEF open_file, FuseTypeOK
    <3> QED
      BY <3>1, <3>2, <1>2
  <2> QED
    BY <2>3, <2>4
<1>4. ASSUME NEW fh \in Handles, NEW freed \in BOOLEAN, Closed(fh, freed)
      PROVE  Cardinality(HeldIn(b)') <= open_handles'[b]
  <2>1. /\ DOMAIN held' = DOMAIN held \ {fh}
        /\ \A f \in DOMAIN held' : held'[f] = held[f]
        /\ fh \in DOMAIN held
    BY <1>4 DEF Closed, Without
  <2>2. HeldIn(b)' = HeldIn(b) \ {fh}
    BY <2>1 DEF HeldIn
  <2>3. CASE BlockOf[held[fh].ino] = b
    <3>1. fh \in HeldIn(b)
      BY <2>1, <2>3 DEF HeldIn
    <3>2. Cardinality(HeldIn(b)') = Cardinality(HeldIn(b)) - 1
      BY ZenonT(40), <3>1, <2>2, <1>2, FS_RemoveElement
    <3>3. Cardinality(HeldIn(b)) > 0
      BY <3>1, <1>2, FS_EmptySet
    <3>4. open_handles'[b] =
             IF open_handles[b] > 0 THEN open_handles[b] - 1 ELSE 0
      BY <1>4, <2>3 DEF Closed, release_count, FuseTypeOK
    <3> QED
      BY <3>2, <3>3, <3>4, <1>2
  <2>4. CASE BlockOf[held[fh].ino] # b
    <3>1. HeldIn(b)' = HeldIn(b)
      BY <2>1, <2>2, <2>4 DEF HeldIn
    <3>2. open_handles'[b] = open_handles[b]
      BY <1>4, <2>4 DEF Closed, release_count, FuseTypeOK
    <3> QED
      BY <3>1, <3>2, <1>2
  <2> QED
    BY <2>3, <2>4
<1>5. ASSUME NEW fh \in Handles, NEW flushed \in BOOLEAN,
             release_error(fh, flushed)
      PROVE  Cardinality(HeldIn(b)') <= open_handles'[b]
  <2>1. /\ DOMAIN held' = DOMAIN held \ {fh}
        /\ \A f \in DOMAIN held' : held'[f] = held[f]
        /\ open_handles' = open_handles
    BY <1>5 DEF release_error, Without, volume
  <2>2. HeldIn(b)' \in SUBSET HeldIn(b)
    BY <2>1 DEF HeldIn
  <2>3. /\ Cardinality(HeldIn(b)') <= Cardinality(HeldIn(b))
        /\ IsFiniteSet(HeldIn(b)')
    BY <2>2, <1>2, FS_Subset
  <2>4. Cardinality(HeldIn(b)') \in Nat
    BY <2>3, FS_CardinalityType
  <2> QED
    BY <2>1, <2>3, <2>4, <1>2
<1>6. ASSUME UNCHANGED <<held, open_handles>>
      PROVE  Cardinality(HeldIn(b)') <= open_handles'[b]
  <2>1. HeldIn(b)' = HeldIn(b)
    BY <1>6 DEF HeldIn
  <2> QED
    BY <2>1, <1>2, <1>6
<1>7. ASSUME NEW i \in Inodes, NEW opened \in BOOLEAN, create(i, opened)
      PROVE  Cardinality(HeldIn(b)') <= open_handles'[b]
  <2>1. open_handle(i, FALSE) /\ (opened \/ Fault({"unopened"}))
        /\ (opened => open_handles' = open_file(i))
    BY ZenonT(40), <1>7 DEF create
  <2>2. opened
    BY <2>1 DEF Fault
  <2> QED
    BY Zenon, <1>3, <2>1, <2>2
<1>8. ASSUME NEW i \in Inodes, NEW dir \in BOOLEAN, OpenAs(i, dir)
      PROVE  Cardinality(HeldIn(b)') <= open_handles'[b]
  BY <1>3, <1>8 DEF OpenAs
<1>9. ASSUME NEW i \in Inodes, Quiet(i)
      PROVE  Cardinality(HeldIn(b)') <= open_handles'[b]
  BY <1>6, <1>9, QuietSteps
<1>10. ASSUME NEW fh \in Handles, Requested(fh)
       PROVE  Cardinality(HeldIn(b)') <= open_handles'[b]
  BY <1>6, <1>10, RequestSteps
<1>11. CASE UNCHANGED vars
  BY <1>6, <1>11 DEF vars, volume, kernel
<1> QED
  BY ZenonT(40), <1>4, <1>5, <1>7, <1>8, <1>9, <1>10, <1>11
  DEF Next, open, opendir, release, releasedir, release_uncommitted, Quiet,
      Requested

\* has_open_handles() sees every handle of the kernel.
THEOREM HeldAlwaysCounted == Spec => []HeldCounted
<1>1. Init => HeldCounted
  <2> SUFFICES ASSUME Init, NEW b \in Blocks
               PROVE  Cardinality(HeldIn(b)) <= open_handles[b]
    BY DEF HeldCounted
  <2>1. HeldIn(b) = {} /\ open_handles[b] = 0
    BY DEF Init, HeldIn
  <2> QED
    BY <2>1, FS_EmptySet
<1> QED
  BY <1>1, CountedStep, FuseTypeCorrect, HandlesAlwaysHeld, PTL DEF Spec

\* What the counts are for: a handle held on an inode of a block keeps the
\* count of the block above zero.
HeldKept ==
    "unopened" \notin hurt =>
        \A fh \in DOMAIN held : open_handles[BlockOf[held[fh].ino]] # 0

\* It follows from the counts.
LEMMA CountedKept == FuseTypeOK /\ HeldCounted => HeldKept
<1> SUFFICES ASSUME FuseTypeOK, HeldCounted, "unopened" \notin hurt,
                    NEW fh \in DOMAIN held
             PROVE  open_handles[BlockOf[held[fh].ino]] # 0
  BY DEF HeldKept
<1> DEFINE b == BlockOf[held[fh].ino]
<1>1. b \in Blocks /\ fh \in HeldIn(b)
  BY DEF FuseTypeOK, OpenHandle, Blocks, HeldIn
<1>2. IsFiniteSet(HeldIn(b)) /\ Cardinality(HeldIn(b)) \in Nat
  BY HeldFinite
<1>3. Cardinality(HeldIn(b)) # 0
  BY <1>1, <1>2, FS_EmptySet
<1>4. Cardinality(HeldIn(b)) <= open_handles[b] /\ open_handles[b] \in Nat
  BY SMTT(40), <1>1 DEF HeldCounted, FuseTypeOK
<1> QED
  BY <1>2, <1>3, <1>4

\* A step between states with kept handles frees no file that is held.
LEMMA OpenStep ==
    ASSUME FuseTypeOK, HeldKept, HeldKept', [Next]_vars,
           NEW fh \in DOMAIN held \cap DOMAIN held',
           "unopened" \notin hurt', mode[held[fh].ino] = "file"
    PROVE  mode'[held[fh].ino] = "file"
<1>1. "unopened" \notin hurt
  BY HurtStays
<1>2. held[fh].ino \in Inodes
  BY DEF FuseTypeOK, OpenHandle
<1>3. open_handles[BlockOf[held[fh].ino]] # 0
  BY <1>1 DEF HeldKept
<1>4. ASSUME NEW i \in Inodes, unlink(i)
      PROVE  mode'[held[fh].ino] = "file"
  BY <1>2, <1>3, <1>4 DEF unlink, frees, FuseTypeOK
<1>5. ASSUME NEW g \in Handles, NEW freed \in BOOLEAN, Closed(g, freed)
      PROVE  mode'[held[fh].ino] = "file"
  <2>1. /\ held'[fh] = held[fh]
        /\ mode' = IF freed THEN Reclaimed(held[g].ino) ELSE mode
    BY <1>5 DEF Closed, Without
  <2>2. open_handles'[BlockOf[held'[fh].ino]] # 0
    BY DEF HeldKept
  <2> QED
    BY <1>2, <2>1, <2>2 DEF Reclaimed, FuseTypeOK
<1>6. ASSUME NEW i \in Inodes,
             \/ rmdir(i)
             \/ \E kind \in {"file", "dir"} : Made(i, kind)
      PROVE  mode'[held[fh].ino] = "file"
  BY <1>2, <1>6 DEF rmdir, Made, FuseTypeOK
<1>7. ASSUME UNCHANGED mode
      PROVE  mode'[held[fh].ino] = "file"
  BY SMTT(40), <1>7
<1>8. ASSUME NEW i \in Inodes,
             \/ lookup(i) \/ lookup_error(i)
             \/ \E answered \in BOOLEAN : link(i, answered)
             \/ \E n \in 1 .. MaxKnown : forget(i, n)
             \/ \E dir \in BOOLEAN : OpenAs(i, dir)
      PROVE  mode'[held[fh].ino] = "file"
  BY SMTT(40), <1>7, <1>8 DEF lookup, lookup_error, link, forget, OpenAs,
     volume
<1>9. ASSUME NEW g \in Handles,
             \/ Requested(g)
             \/ \E flushed \in BOOLEAN : release_error(g, flushed)
      PROVE  mode'[held[fh].ino] = "file"
  BY <1>7, <1>9, RequestSteps DEF release_error, volume
<1>10. CASE UNCHANGED vars
  BY <1>7, <1>10 DEF vars, volume
<1> QED
  BY ZenonT(40), <1>4, <1>5, <1>6, <1>8, <1>9, <1>10
  DEF Next, make, make_error, create, open, opendir, release, releasedir,
      release_uncommitted, Requested

\* Neither an unlink nor the release of another handle frees a file that
\* the kernel holds open.
THEOREM OpenNeverFreed == Spec => OpenNotFreed
<1>1. FuseTypeOK /\ HeldKept /\ HeldKept' /\ [Next]_vars
        => [\A fh \in DOMAIN held \cap DOMAIN held' :
              ("unopened" \notin hurt' /\ mode[held[fh].ino] = "file")
                 => mode'[held[fh].ino] = "file"]_vars
  BY OpenStep
<1> QED
  BY <1>1, CountedKept, FuseTypeCorrect, HeldAlwaysCounted, PTL
     DEF Spec, OpenNotFreed
=============================================================================
