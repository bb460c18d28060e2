-------------------------- MODULE MountStateProofs --------------------------
(***************************************************************************)
(* Proofs about MountState for any users, any damaged images and any       *)
(* number of commits and faults.                                           *)
(***************************************************************************)
EXTENDS MountState, TLAPS

Process == [kind : Kinds, pc : Pcs, seen : FsStates, log : LogStates,
            signalled : BOOLEAN, left : BOOLEAN]

\* The image and the counters.
ImageTyped ==
    /\ fsstate \in fsstate_dur /\ fsstate_dur \subseteq FsStates
    /\ logstate \in logstate_dur /\ logstate_dur \subseteq LogStates
    /\ unsynced \subseteq Updates \cup {"map"}
    /\ torn \in BOOLEAN
    /\ commits \in 0 .. MaxCommits /\ faults \in 0 .. MaxFaults
    /\ hurt \subseteq {"skipped", "failed", "left", "abandoned"}

\* What no step changes.
PartsTyped ==
    /\ haslog \in BOOLEAN /\ damage \in Damages
    /\ "log" \in damage => haslog

\* Where a program is once it has the volume open.
OpenedPcs == MountPcs \cup ServePcs \cup UmountPcs \cup CheckPcs
             \cup {"parked"}

\* Where a program goes that never writes.
ReaderPcs == {"super", "log", "recover", "map", "spawn", "serving", "parked",
              "check", "dump", "off"}

\* What a process at pc, of the kind kind and of the user p, has checked
\* before it got there.
Checked(p, kind, pc) ==
    /\ IF pc = "off" THEN kind = "dump" ELSE kind \in Users[p]
    /\ pc \in (OpenPcs \ {"super"}) \cup OpenedPcs =>
         "super" \notin damage /\ "geometry" \notin damage
    /\ pc \in (OpenPcs \ {"super", "log"}) \cup OpenedPcs =>
         "log" \notin damage
    /\ pc \in OpenedPcs => "map" \notin damage
    /\ kind \in ReaderKinds => pc \in ReaderPcs
    /\ kind = "dump_journal" => pc \in {"super", "off"}
    /\ pc \in MountPcs \ {"spawn"} => kind = "mount"
    /\ pc \in UmountPcs \cup (ServePcs \ {"serving"}) => kind = "mount"
    /\ pc \in {"spawn", "serving"} => kind \in {"mount", "mount_ro"}
    /\ kind = "mount" /\ pc \in {"mark", "mark_flush", "spawn"} \cup ServePcs
                                \cup UmountPcs => "root" \notin damage
    /\ pc = "check_repair" => kind = "repair"
    /\ pc \in {"repair", "repair_flush"} =>
         kind = "repair" /\ "root" \notin damage /\ "child" \notin damage

AllChecked == \A p \in Programs : Checked(p, prog[p].kind, prog[p].pc)

\* The inductive invariant.
Inv ==
    /\ ImageTyped /\ PartsTyped
    /\ prog \in [Programs -> Process]
    /\ AllChecked

\* A step of process p alone, which leaves it as kind l at d.
Moved(p, l, d) ==
    /\ prog' \in [Programs -> Process]
    /\ prog'[p].kind = l /\ prog'[p].pc = d
    /\ \A q \in Programs : q # p => prog'[q] = prog[q]

-----------------------------------------------------------------------------
(* The updates of prog.                                                    *)

\* No process is a process at "off".
LEMMA IdleTyped == Idle \in Process /\ Idle.pc = "off" /\ Idle.kind = "dump"
BY DEF Idle, Process, Kinds, ReaderKinds, WriterKinds, Pcs, FsStates, LogStates

\* A process that goes on.
LEMMA GotoMoves ==
    ASSUME prog \in [Programs -> Process], NEW p \in Programs,
           NEW c \in Pcs, Goto(p, c)
    PROVE  Moved(p, prog[p].kind, c)
BY DEF Moved, Goto, Process

\* A process that goes on with a state of the log.
LEMMA LogMoves ==
    ASSUME prog \in [Programs -> Process], NEW p \in Programs,
           NEW c \in Pcs, NEW g \in LogStates,
           prog' = [prog EXCEPT ![p].pc = c, ![p].log = g]
    PROVE  Moved(p, prog[p].kind, c)
BY Zenon DEF Moved, Process

\* A process that stays where it is and sets a flag.
LEMMA FlagMoves ==
    ASSUME prog \in [Programs -> Process], NEW p \in Programs,
           \/ prog' = [prog EXCEPT ![p].left = TRUE]
           \/ prog' = [prog EXCEPT ![p].left = FALSE]
           \/ prog' = [prog EXCEPT ![p].signalled = TRUE]
    PROVE  Moved(p, prog[p].kind, prog[p].pc)
<1>1. CASE prog' = [prog EXCEPT ![p].left = TRUE]
  BY ZenonT(40), <1>1 DEF Moved, Process
<1>2. CASE prog' = [prog EXCEPT ![p].left = FALSE]
  BY ZenonT(40), <1>2 DEF Moved, Process
<1>3. CASE prog' = [prog EXCEPT ![p].signalled = TRUE]
  BY ZenonT(40), <1>3 DEF Moved, Process
<1> QED BY <1>1, <1>2, <1>3

\* A process that ends.
LEMMA ExitMoves ==
    ASSUME prog \in [Programs -> Process], NEW p \in Programs, Exit(p)
    PROVE  Moved(p, "dump", "off")
BY IdleTyped DEF Moved, Exit

\* One process has moved to a place its checks allow.
LEMMA MovedChecked ==
    ASSUME Inv, NEW p \in Programs, NEW l, NEW d, Moved(p, l, d),
           Checked(p, l, d), UNCHANGED <<haslog, damage>>
    PROVE  PartsTyped' /\ (prog \in [Programs -> Process])' /\ AllChecked'
<1>1. ASSUME NEW q \in Programs PROVE Checked(q, prog[q].kind, prog[q].pc)'
  <2>1. CASE q = p
    BY <2>1 DEF Moved, Checked
  <2>2. CASE q # p
    <3>1. prog'[q] = prog[q]
      BY <2>2 DEF Moved
    <3>2. Checked(q, prog[q].kind, prog[q].pc)
      BY DEF Inv, AllChecked
    <3> QED BY <3>1, <3>2 DEF Checked
  <2> QED BY <2>1, <2>2
<1> QED BY <1>1 DEF AllChecked, Moved, Inv, PartsTyped

\* Nothing is asked of no process.
LEMMA ExitChecked == \A p : Checked(p, "dump", "off")
BY DEF Checked, OpenPcs, OpenedPcs, MountPcs, ServePcs, UmountPcs, CheckPcs,
       ReaderPcs, ReaderKinds

-----------------------------------------------------------------------------
(* Every step of a process leaves the parts alone and takes the process    *)
(* where its checks allow.                                                 *)

Kept(p) ==
    /\ UNCHANGED <<haslog, damage>>
    /\ \E l, d : Moved(p, l, d) /\ Checked(p, l, d)

\* A step that ends the process.
LEMMA ExitKept ==
    ASSUME Inv, NEW p \in Programs, Exit(p), UNCHANGED <<haslog, damage>>
    PROVE  Kept(p)
BY ExitMoves, ExitChecked DEF Kept, Inv

\* A step to a place whose checks are done.
LEMMA GotoKept ==
    ASSUME Inv, NEW p \in Programs, NEW c \in Pcs, Goto(p, c),
           Checked(p, prog[p].kind, c), UNCHANGED <<haslog, damage>>
    PROVE  Kept(p)
BY GotoMoves DEF Kept, Inv

\* The end of a session.
LEMMA DestroyKept ==
    ASSUME Inv, NEW p \in Programs, destroy(p)
    PROVE  Kept(p)
<1> USE DEF Checked, Pcs, OpenPcs, OpenedPcs, MountPcs, ServePcs, UmountPcs,
            CheckPcs, ReaderPcs
<1>1. /\ Checked(p, prog[p].kind, prog[p].pc)
      /\ prog[p].pc = "serving" /\ UNCHANGED <<haslog, damage>>
  BY SMTT(40) DEF Inv, AllChecked, destroy, At
<1>2. CASE prog[p].kind = "mount"
  <2>1. Checked(p, prog[p].kind, "umount")
    BY SMTT(40), <1>1, <1>2 DEF ReaderKinds
  <2> QED BY <1>1, <1>2, <2>1, GotoKept DEF destroy
<1>3. CASE prog[p].kind # "mount"
  <2>1. Checked(p, prog[p].kind, "parked")
    BY <1>1, <1>3 DEF ReaderKinds
  <2> QED BY <1>1, <1>3, <2>1, ExitKept, GotoKept DEF destroy, AfterDestroy
<1> QED BY <1>2, <1>3

\* The steps the process takes by itself.
LEMMA AdvanceKept ==
    ASSUME Inv, NEW p \in Programs, Advance(p)
    PROVE  Kept(p)
<1> USE DEF Checked, Pcs, OpenPcs, OpenedPcs, MountPcs, ServePcs, UmountPcs,
            CheckPcs, ReaderPcs
<1> DEFINE k == prog[p].kind
<1>0. /\ Checked(p, k, prog[p].pc) /\ prog[p] \in Process
      /\ prog \in [Programs -> Process] /\ PartsTyped /\ k \in Kinds
  BY DEF Inv, AllChecked, Process
<1>1. CASE read_super(p)
  <2>1. UNCHANGED <<haslog, damage>> /\ prog[p].pc = "super"
    BY <1>1 DEF read_super, At
  <2>2. CASE Exit(p)
    BY <2>1, <2>2, ExitKept
  <2>3. CASE ~Exit(p)
    <3>1. /\ "super" \notin damage /\ "geometry" \notin damage
          /\ k # "dump_journal"
          /\ prog' = [prog EXCEPT ![p].pc = "log",
                 ![p].seen = IF prog[p].kind = "repair" THEN fsstate ELSE @]
      BY <1>1, <2>3 DEF read_super, validate_super,
                         validate_against_superblock
    <3>2. Moved(p, k, "log")
      BY ZenonT(40), <1>0, <3>1 DEF Moved, Process, Inv, ImageTyped
    <3>3. Checked(p, k, "log")
      BY <1>0, <2>1, <3>1
    <3> QED BY <2>1, <3>2, <3>3 DEF Kept
  <2> QED BY <2>2, <2>3
<1>2. CASE init_log(p)
  <2>1. UNCHANGED <<haslog, damage>> /\ prog[p].pc = "log"
    BY <1>2 DEF init_log, At
  <2>2. CASE Exit(p)
    BY <2>1, <2>2, ExitKept
  <2>3. CASE ~Exit(p)
    <3> DEFINE c == IF haslog THEN "recover" ELSE "map"
    <3>1. /\ haslog => "log" \notin damage
          /\ prog' = [prog EXCEPT ![p].pc = c, ![p].log = logstate]
      BY <1>2, <2>3 DEF init_log, log_valid
    <3>2. Moved(p, k, c)
      BY ZenonT(40), <1>0, <3>1 DEF Moved, Process, Inv, ImageTyped
    <3>3. Checked(p, k, c)
      BY <1>0, <2>1, <3>1 DEF PartsTyped
    <3> QED BY <2>1, <3>2, <3>3 DEF Kept
  <2> QED BY <2>2, <2>3
<1>3. CASE recover_replay(p)
  <2>1. UNCHANGED <<haslog, damage>> /\ prog[p].pc = "recover"
    BY <1>3 DEF recover_replay, At
  <2>2. CASE Exit(p)
    BY <2>1, <2>2, ExitKept
  <2>3. CASE ~Exit(p)
    <3>1. Goto(p, "redone") /\ k \in WriterKinds
      BY <1>3, <2>3 DEF recover_replay, writable
    <3>2. Checked(p, k, "redone")
      BY <1>0, <2>1, <3>1 DEF WriterKinds, ReaderKinds
    <3> QED BY <2>1, <3>1, <3>2, GotoKept
  <2> QED BY <2>2, <2>3
<1>4. CASE load_map(p)
  <2>1. UNCHANGED <<haslog, damage>> /\ prog[p].pc = "map"
    BY <1>4 DEF load_map, At
  <2>2. CASE Exit(p)
    BY <2>1, <2>2, ExitKept
  <2>3. CASE ~Exit(p)
    <3> DEFINE c == AfterOpen[k]
    <3>1. /\ "map" \notin damage
          /\ prog' = [prog EXCEPT ![p].pc = c,
                 ![p].log = IF prog[p].kind = "mount" THEN @ ELSE Idle.log]
      BY <1>4, <2>3 DEF load_map
    <3>2. \/ k = "mount" /\ c = "root"
          \/ k = "mount_ro" /\ c = "spawn"
          \/ k = "read_only" /\ c = "check"
          \/ k = "repair" /\ c = "check_repair"
          \/ k = "replay" /\ c = "replayed"
          \/ k = "dump" /\ c = "dump"
      BY <1>0, <2>1 DEF AfterOpen, Kinds, WriterKinds, ReaderKinds
    <3> HIDE DEF c
    <3>3. c \in Pcs /\ Idle.log \in LogStates
      BY <3>2 DEF Idle, LogStates
    <3> DEFINE g == IF k = "mount" THEN prog[p].log ELSE Idle.log
    <3>4. g \in LogStates
      BY <1>0, <3>3 DEF Process
    <3>5. prog' = [prog EXCEPT ![p].pc = c, ![p].log = g]
      BY <1>0, <3>1 DEF Process
    <3> HIDE DEF g
    <3>6. Moved(p, k, c)
      BY ZenonT(40), <1>0, <3>3, <3>4, <3>5, LogMoves
    <3>7. Checked(p, k, c)
      BY <1>0, <2>1, <3>1, <3>2 DEF ReaderKinds
    <3> QED BY <2>1, <3>6, <3>7 DEF Kept
  <2> QED BY <2>2, <2>3
<1>5. CASE validate_root(p)
  <2>1. UNCHANGED <<haslog, damage>> /\ prog[p].pc = "root"
    BY <1>5 DEF validate_root, At
  <2>2. CASE Exit(p)
    BY SMTT(40), <2>1, <2>2, ExitKept
  <2>3. CASE ~Exit(p)
    <3>1. Goto(p, "mark") /\ "root" \notin damage
      BY <1>5, <2>3 DEF validate_root, root_is_sound
    <3>2. Checked(p, k, "mark")
      BY SMTT(40), <1>0, <2>1, <3>1 DEF ReaderKinds
    <3> QED BY <2>1, <3>1, <3>2, GotoKept
  <2> QED BY <2>2, <2>3
<1>6. CASE spawn_mount(p)
  <2>1. UNCHANGED <<haslog, damage>> /\ prog[p].pc = "spawn"
    BY <1>6 DEF spawn_mount, At
  <2>2. Checked(p, k, "serving")
    BY SMTT(40), <1>0, <2>1 DEF ReaderKinds
  <2> QED BY <1>6, <2>1, <2>2, ExitKept, GotoKept DEF spawn_mount
<1>7. CASE recover_skip(p)
  <2>1. Checked(p, k, "map")
    BY SMTT(40), <1>0, <1>7 DEF recover_skip, At, ReaderKinds
  <2> QED BY <1>7, <2>1, GotoKept DEF recover_skip
<1>8. CASE recover_finalize(p)
  <2>1. Checked(p, k, "redo_sync")
    BY SMTT(40), <1>0, <1>8 DEF recover_finalize, At, ReaderKinds
  <2> QED BY <1>8, <2>1, GotoKept DEF recover_finalize
<1>9. CASE recover_sync(p)
  <2>1. Checked(p, k, "map")
    BY SMTT(40), <1>0, <1>9 DEF recover_sync, At, ReaderKinds
  <2> QED BY <1>9, <2>1, GotoKept DEF recover_sync
<1>10. CASE mark_dirty(p)
  <2>1. Checked(p, k, "mark_flush")
    BY SMTT(40), <1>0, <1>10 DEF mark_dirty, At, ReaderKinds
  <2> QED BY <1>10, <2>1, GotoKept DEF mark_dirty
<1>11. CASE mark_flush(p)
  <2>1. Checked(p, k, "spawn")
    BY SMTT(40), <1>0, <1>11 DEF mark_flush, At, ReaderKinds
  <2> QED BY <1>11, <2>1, GotoKept DEF mark_flush
<1>12. CASE commit_home(p)
  <2>1. Checked(p, k, "home_rest")
    BY SMTT(40), <1>0, <1>12 DEF commit_home, At, ReaderKinds
  <2> QED BY <1>12, <2>1, GotoKept DEF commit_home
<1>13. CASE commit_rest(p)
  <2>1. Checked(p, k, "home_flush")
    BY SMTT(40), <1>0, <1>13 DEF commit_rest, At, ReaderKinds
  <2> QED BY <1>13, <2>1, GotoKept DEF commit_rest
<1>14. CASE commit_flush(p)
  <2>1. Checked(p, k, "bmap")
    BY SMTT(40), <1>0, <1>14 DEF commit_flush, At, ReaderKinds
  <2> QED BY <1>14, <2>1, GotoKept DEF commit_flush
<1>15. CASE commit_map(p)
  <2>1. Checked(p, k, "serving")
    BY SMTT(40), <1>0, <1>15 DEF commit_map, At, ReaderKinds
  <2> QED BY <1>15, <2>1, GotoKept DEF commit_map
<1>16. CASE umount_pages(p)
  <2>1. Checked(p, k, "umount_log")
    BY SMTT(40), <1>0, <1>16 DEF umount_pages, At, ReaderKinds
  <2> QED BY <1>16, <2>1, GotoKept DEF umount_pages
<1>17. CASE umount_log(p)
  <2>1. Checked(p, k, "umount_map")
    BY SMTT(40), <1>0, <1>17 DEF umount_log, At, ReaderKinds
  <2> QED BY <1>17, <2>1, GotoKept DEF umount_log
<1>18. CASE umount_map(p)
  <2>1. Checked(p, k, "umount_mark")
    BY SMTT(40), <1>0, <1>18 DEF umount_map, At, ReaderKinds
  <2> QED BY <1>18, <2>1, GotoKept DEF umount_map
<1>19. CASE umount_mark(p)
  <2>1. Checked(p, k, "umount_flush")
    BY SMTT(40), <1>0, <1>19 DEF umount_mark, At, ReaderKinds
  <2> QED BY <1>19, <2>1, GotoKept DEF umount_mark
<1>20. CASE repair_mark(p)
  <2>1. Checked(p, k, "repair_flush")
    BY <1>0, <1>20 DEF repair_mark, At, ReaderKinds
  <2> QED BY <1>20, <2>1, GotoKept DEF repair_mark
<1>21. CASE drop_session(p)
  <2>1. destroy(p) /\ prog[p].signalled
    BY SMTT(40), <1>21 DEF drop_session, leaves_loop
  <2> QED BY <2>1, DestroyKept
<1>22. CASE umount_flush(p)
  <2>1. Checked(p, k, "parked")
    BY <1>0, <1>22 DEF umount_flush, At, ReaderKinds
  <2> QED BY <1>22, <2>1, ExitKept, GotoKept DEF umount_flush, AfterDestroy
<1>23. CASE cmd_repair(p)
  <2>1. UNCHANGED <<haslog, damage>> /\ prog[p].pc = "check_repair"
    BY <1>23 DEF cmd_repair, At
  <2>2. CASE Exit(p)
    BY SMTT(40), <2>1, <2>2, ExitKept
  <2>3. CASE ~Exit(p)
    <3>1. Goto(p, "repair") /\ damage \cap {"root", "child"} = {}
      BY <1>23, <2>3 DEF cmd_repair, has_structural_errors
    <3>2. Checked(p, k, "repair")
      BY <1>0, <2>1, <3>1 DEF ReaderKinds
    <3> QED BY <2>1, <3>1, <3>2, GotoKept
  <2> QED BY <2>2, <2>3
<1>24. CASE \/ leave_parked(p) \/ cmd_read_only(p) \/ cmd_replay(p)
           \/ cmd_dump(p) \/ cmd_dump_journal(p) \/ repair_flush(p)
  BY SMTT(40), <1>24, ExitKept DEF leave_parked, cmd_read_only, cmd_replay,
     cmd_dump,
                        cmd_dump_journal, repair_flush
<1> QED BY SMTT(40), <1>1, <1>2, <1>3, <1>4, <1>5, <1>6, <1>7, <1>8, <1>9,
           <1>10,
           <1>11, <1>12, <1>13, <1>14, <1>15, <1>16, <1>17, <1>18, <1>19,
           <1>20, <1>21, <1>22, <1>23, <1>24 DEF Advance

\* The steps it is made to take.
LEMMA AskedKept ==
    ASSUME Inv, NEW p \in Programs, Asked(p)
    PROVE  Kept(p)
<1> USE DEF Checked, Pcs, OpenPcs, OpenedPcs, MountPcs, ServePcs, UmountPcs,
            CheckPcs, ReaderPcs
<1> DEFINE k == prog[p].kind
<1>0. /\ Checked(p, k, prog[p].pc) /\ prog[p] \in Process
      /\ prog \in [Programs -> Process]
  BY DEF Inv, AllChecked
<1>1. ASSUME NEW kind \in Users[p], Start(p, kind) PROVE Kept(p)
  <2> DEFINE r == [Idle EXCEPT !.kind = kind, !.pc = "super"]
  <2>1. kind \in Kinds
    BY MountAssumption DEF Programs
  <2>2. r \in Process /\ r.kind = kind /\ r.pc = "super"
    BY Zenon, <2>1 DEF Idle, Process, FsStates, LogStates
  <2>3. prog' = [prog EXCEPT ![p] = r] /\ UNCHANGED <<haslog, damage>>
    BY <1>1 DEF Start
  <2> HIDE DEF r
  <2>4. Moved(p, kind, "super")
    BY <1>0, <2>2, <2>3 DEF Moved
  <2>5. Checked(p, kind, "super")
    BY SMTT(40), <1>1
  <2> QED BY <2>3, <2>4, <2>5 DEF Kept
<1>2. CASE commit_journal(p)
  <2>1. Checked(p, k, "home")
    BY SMTT(40), <1>0, <1>2 DEF commit_journal, At, ReaderKinds
  <2> QED BY <1>2, <2>1, GotoKept DEF commit_journal
<1>3. CASE operation_fails(p) \/ sync(p) \/ handle_sigint(p)
  <2>1. UNCHANGED <<haslog, damage>>
    BY <1>3 DEF operation_fails, sync, handle_sigint
  <2>2. \/ prog' = [prog EXCEPT ![p].left = TRUE]
        \/ prog' = [prog EXCEPT ![p].left = FALSE]
        \/ prog' = [prog EXCEPT ![p].signalled = TRUE]
    BY <1>3 DEF operation_fails, sync, handle_sigint
  <2>3. Moved(p, k, prog[p].pc)
    BY <1>0, <2>2, FlagMoves
  <2> QED BY <1>0, <2>1, <2>3 DEF Kept
<1>4. CASE unmounted_outside(p)
  BY <1>4, DestroyKept DEF unmounted_outside
<1>5. CASE io_error(p)
  <2>1. UNCHANGED <<haslog, damage>>
    BY <1>5 DEF io_error
  <2>2. CASE Exit(p)
    BY SMTT(40), <2>1, <2>2, ExitKept
  <2>3. CASE prog[p].pc \in UmountPcs /\ Goto(p, "parked")
    <3>1. Checked(p, k, "parked")
      BY SMTT(40), <1>0, <2>3 DEF ReaderKinds
    <3> QED BY SMTT(40), <2>1, <2>3, <3>1, GotoKept
  <2>4. CASE prog[p].pc \in ServePcs \ {"serving"} /\ Goto(p, "serving")
    <3>1. Checked(p, k, "serving")
      BY <1>0, <2>4 DEF ReaderKinds
    <3> QED BY SMTT(40), <2>1, <2>4, <3>1, GotoKept
  <2> QED BY <1>5, <2>2, <2>3, <2>4 DEF io_error, AfterDestroy
<1>6. CASE kill(p)
  BY <1>6, ExitKept DEF kill
<1> QED BY SMTT(40), <1>1, <1>2, <1>3, <1>4, <1>5, <1>6 DEF Asked, mount, jfsck

-----------------------------------------------------------------------------
(* The image.                                                              *)

\* A step that does not write.
LEMMA QuietImage ==
    ASSUME ImageTyped, UNCHANGED <<image, bounds, hurt>>
    PROVE  ImageTyped'
BY DEF ImageTyped, image, bounds, Updates

\* The writes and syncs of the steps the process takes by itself.
LEMMA AdvanceImage ==
    ASSUME Inv, NEW p \in Programs, Advance(p)
    PROVE  ImageTyped' /\ UNCHANGED bounds
<1>0. ImageTyped /\ prog[p] \in Process
  BY DEF Inv
<1>1. CASE \/ read_super(p) \/ init_log(p) \/ load_map(p) \/ validate_root(p)
           \/ spawn_mount(p) \/ leave_parked(p) \/ cmd_read_only(p)
           \/ cmd_repair(p) \/ cmd_replay(p) \/ cmd_dump(p)
           \/ cmd_dump_journal(p) \/ drop_session(p)
  <2>1. UNCHANGED <<image, bounds, hurt>>
    BY <1>1 DEF read_super, init_log, load_map, validate_root, spawn_mount,
                leave_parked, cmd_read_only, cmd_repair, cmd_replay, cmd_dump,
                cmd_dump_journal, drop_session, destroy
  <2> QED BY <1>0, <2>1, QuietImage
<1>2. CASE recover_skip(p)
  <2>1. /\ hurt' = hurt \/ hurt' = hurt \cup {"skipped"}
        /\ UNCHANGED <<image, bounds>>
    BY <1>0, <1>2 DEF recover_skip, ImageTyped
  <2> QED BY Zenon, <1>0, <2>1 DEF ImageTyped, image, bounds, Updates
<1>3. CASE recover_replay(p)
  <2>1. CASE UNCHANGED image
    <3>1. UNCHANGED <<image, bounds, hurt>>
      BY <1>3, <2>1 DEF recover_replay
    <3> QED BY <1>0, <3>1, QuietImage
  <2>2. CASE ~UNCHANGED image
    <3>1. /\ write_blocks({"redo"}) \/ write_blocks({})
          /\ torn' = FALSE /\ UNCHANGED <<bounds, hurt>>
      BY <1>0, <1>3, <2>2 DEF recover_replay, ImageTyped
    <3> QED BY ZenonT(40), <1>0, <3>1 DEF write_blocks, ImageTyped, bounds,
               Updates
  <2> QED BY <2>1, <2>2
<1>4. CASE recover_finalize(p)
  BY <1>0, <1>4 DEF recover_finalize, write_log_state, ImageTyped, bounds,
                    Updates, LogStates
<1>5. CASE mark_dirty(p) \/ umount_mark(p) \/ repair_mark(p)
  <2>1. /\ write_state("FM_DIRTY") \/ write_state("FM_CLEAN")
        /\ UNCHANGED <<torn, bounds, hurt>>
    BY <1>5 DEF mark_dirty, umount_mark, repair_mark
  <2> QED BY ZenonT(40), <1>0, <2>1 DEF write_state, ImageTyped, bounds,
             Updates, FsStates
<1>6. CASE \/ recover_sync(p) \/ mark_flush(p) \/ commit_flush(p)
           \/ umount_flush(p) \/ repair_flush(p)
  <2>1. sync_all /\ UNCHANGED <<torn, bounds, hurt>>
    BY <1>6 DEF recover_sync, mark_flush, commit_flush, umount_flush,
                repair_flush
  <2> QED BY <1>0, <2>1 DEF sync_all, ImageTyped, bounds, Updates
<1>7. CASE commit_home(p) \/ commit_rest(p)
  <2>1. /\ write_blocks({"home"}) /\ torn' \in BOOLEAN
        /\ UNCHANGED <<bounds, hurt>>
    BY Zenon, <1>7 DEF commit_home, commit_rest
  <2> QED BY <1>0, <2>1 DEF write_blocks, ImageTyped, bounds, Updates
<1>8. CASE commit_map(p) \/ umount_map(p)
  <2>1. write_blocks({"map"}) /\ UNCHANGED <<torn, bounds, hurt>>
    BY <1>8 DEF commit_map, umount_map
  <2> QED BY <1>0, <2>1 DEF write_blocks, ImageTyped, bounds, Updates
<1>9. CASE umount_pages(p)
  <2>1. /\ write_blocks({"home"}) \/ write_blocks({})
        /\ hurt' = hurt \/ hurt' = hurt \cup {"left"}
        /\ UNCHANGED <<torn, bounds>>
    BY <1>0, <1>9 DEF umount_pages, ImageTyped
  <2> QED BY Zenon, <1>0, <2>1 DEF write_blocks, ImageTyped, bounds, Updates
<1>10. CASE umount_log(p)
  <2>1. /\ sync_all \/ write_blocks({})
        /\ UNCHANGED <<torn, bounds, hurt>>
    BY <1>10 DEF umount_log
  <2>2. CASE sync_all
    BY <1>0, <2>1, <2>2 DEF sync_all, ImageTyped, bounds, Updates
  <2>3. CASE write_blocks({})
    BY <1>0, <2>1, <2>3 DEF write_blocks, ImageTyped, bounds, Updates
  <2> QED BY <2>1, <2>2, <2>3
<1> QED BY <1>1, <1>2, <1>3, <1>4, <1>5, <1>6, <1>7, <1>8, <1>9, <1>10
        DEF Advance

\* Those of the steps it is made to take.
LEMMA AskedImage ==
    ASSUME Inv, NEW p \in Programs, Asked(p)
    PROVE  ImageTyped'
<1>0. /\ ImageTyped /\ prog[p] \in Process
      /\ MaxCommits \in Nat /\ MaxFaults \in Nat
  BY MountAssumption DEF Inv
<1>1. CASE \/ \E kind \in Users[p] : mount(p, kind) \/ jfsck(p, kind)
           \/ operation_fails(p) \/ handle_sigint(p) \/ unmounted_outside(p)
  <2>1. UNCHANGED <<image, bounds, hurt>>
    BY Zenon, <1>1 DEF mount, jfsck, Start, operation_fails, handle_sigint,
                unmounted_outside, destroy
  <2> QED BY <1>0, <2>1, QuietImage
<1>2. CASE commit_journal(p)
  BY <1>0, <1>2 DEF commit_journal, sync_all, ImageTyped, Updates, Process
<1>3. CASE sync(p)
  BY <1>0, <1>3 DEF sync, sync_all, ImageTyped, bounds, Updates
<1>4. CASE io_error(p) \/ kill(p)
  <2>1. Fault /\ UNCHANGED <<image, commits>>
    BY <1>4 DEF io_error, kill
  <2>2. Abandoned(p) \subseteq {"abandoned"}
    BY SMTT(40) DEF Abandoned
  <2>3. hurt' \subseteq hurt \cup {"failed"} \cup Abandoned(p)
    BY <1>4 DEF io_error, kill
  <2>4. hurt' \subseteq {"skipped", "failed", "left", "abandoned"}
    BY <1>0, <2>2, <2>3 DEF ImageTyped
  <2> QED BY <1>0, <2>1, <2>4 DEF Fault, ImageTyped, image, Updates
<1> QED BY <1>1, <1>2, <1>3, <1>4 DEF Asked

-----------------------------------------------------------------------------
(* The invariant, and types.                                               *)

\* The invariant holds on any image the programs may find.
LEMMA InitInv == Init => Inv
<1> SUFFICES ASSUME Init PROVE Inv
  OBVIOUS
<1>1. ImageTyped
  <2>1. torn \in BOOLEAN
    BY Zenon DEF Init
  <2>2. 0 \in 0 .. MaxCommits /\ 0 \in 0 .. MaxFaults
    BY MountAssumption
  <2> QED BY <2>1, <2>2 DEF Init, ImageTyped
<1>2. PartsTyped
  BY DEF Init, PartsTyped
<1>3. \A p \in Programs : prog[p] = Idle
  BY DEF Init
<1>4. prog \in [Programs -> Process]
  BY IdleTyped DEF Init
<1>5. AllChecked
  BY <1>3, IdleTyped, ExitChecked DEF AllChecked
<1> QED BY <1>1, <1>2, <1>4, <1>5 DEF Inv

\* Every step keeps it.
LEMMA StepInv == Inv /\ [Next]_vars => Inv'
<1> SUFFICES ASSUME Inv, [Next]_vars PROVE Inv'
  OBVIOUS
<1>1. CASE power_loss
  <2>1. ImageTyped'
    <3>1. MaxFaults \in Nat
      BY MountAssumption
    <3>2. torn' \in BOOLEAN
      BY <1>1 DEF power_loss, Inv, ImageTyped
    <3> QED BY <1>1, <3>1, <3>2 DEF power_loss, Fault, Inv, ImageTyped
  <2>2. PartsTyped'
    BY <1>1 DEF power_loss, Inv, PartsTyped
  <2>3. \A p \in Programs : prog'[p] = Idle
    BY <1>1 DEF power_loss
  <2>4. (prog \in [Programs -> Process])'
    BY <1>1, IdleTyped DEF power_loss
  <2>5. AllChecked'
    <3> SUFFICES ASSUME NEW p \in Programs
                 PROVE  Checked(p, prog[p].kind, prog[p].pc)'
      BY DEF AllChecked
    <3>1. Checked(p, "dump", "off")
      BY ExitChecked
    <3>2. damage' = damage
      BY <1>1 DEF power_loss
    <3> QED BY <2>3, <3>1, <3>2, IdleTyped DEF Checked
  <2> QED BY <2>1, <2>2, <2>4, <2>5 DEF Inv
<1>2. ASSUME NEW p \in Programs, Advance(p) \/ Asked(p) PROVE Inv'
  <2>1. Kept(p) /\ ImageTyped'
    BY <1>2, AdvanceKept, AskedKept, AdvanceImage, AskedImage
  <2>2. PICK l, d : Moved(p, l, d) /\ Checked(p, l, d)
    BY <2>1 DEF Kept
  <2>3. UNCHANGED <<haslog, damage>>
    BY <2>1 DEF Kept
  <2>4. PartsTyped' /\ (prog \in [Programs -> Process])' /\ AllChecked'
    BY SMTT(40), <2>2, <2>3, MovedChecked
  <2> QED BY <2>1, <2>4 DEF Inv
<1>3. CASE UNCHANGED vars
  BY <1>3 DEF vars, image, bounds, Inv, ImageTyped, PartsTyped, AllChecked,
              Checked
<1> QED BY <1>1, <1>2, <1>3 DEF Next

\* So it always holds.
LEMMA InvAlways == Spec => []Inv
<1> QED BY InitInv, StepInv, PTL DEF Spec

\* The types hold, and a mount past its open has found the superblock, the
\* geometry, the log and the map sound (Volume::open_from_storage()), on
\* whatever image it was started.
THEOREM MountTypeCorrect == Spec => []MountTypeOK
<1>1. Inv => MountTypeOK
  <2> SUFFICES ASSUME Inv PROVE MountTypeOK
    OBVIOUS
  <2>1. ASSUME NEW p \in Programs, prog[p].pc \in MountPcs \cup ServePcs
        PROVE  damage \cap OpenParts = {}
    <3>1. Checked(p, prog[p].kind, prog[p].pc) /\ prog[p].pc \in OpenedPcs
      BY <2>1 DEF Inv, AllChecked, OpenedPcs
    <3> QED BY <3>1 DEF Checked, OpenParts
  <2> QED BY <2>1 DEF Inv, ImageTyped, PartsTyped, Process, MountTypeOK
<1> QED BY <1>1, InvAlways, PTL

-----------------------------------------------------------------------------
(* Who writes.                                                             *)

\* A step of a process of a reading kind leaves the image as it is.
LEMMA ReaderQuiet ==
    ASSUME Inv, NEW p \in Programs, Advance(p) \/ Asked(p),
           prog[p].kind \in ReaderKinds
    PROVE  UNCHANGED image
<1>1. prog[p].pc \in ReaderPcs /\ prog[p].kind # "mount"
      /\ ~writable(prog[p].kind)
  BY DEF Inv, AllChecked, Checked, ReaderKinds, WriterKinds, writable
<1>2. CASE Advance(p)
  <2>1. \/ read_super(p) \/ init_log(p) \/ recover_skip(p) \/ recover_replay(p)
        \/ load_map(p) \/ spawn_mount(p) \/ drop_session(p)
        \/ leave_parked(p) \/ cmd_read_only(p) \/ cmd_dump(p)
        \/ cmd_dump_journal(p)
    BY Zenon, <1>1, <1>2
       DEF Advance, ReaderPcs, At, recover_finalize, recover_sync,
           validate_root, mark_dirty, mark_flush, commit_home, commit_rest,
           commit_flush, commit_map, umount_pages, umount_log, umount_map,
           umount_mark, umount_flush, cmd_repair, repair_mark, repair_flush,
           cmd_replay
  <2> QED BY <1>1, <2>1
       DEF read_super, init_log, recover_skip, recover_replay, load_map,
           spawn_mount, drop_session, destroy, leave_parked, cmd_read_only,
           cmd_dump, cmd_dump_journal
<1>3. CASE Asked(p)
  BY ZenonT(40), <1>1, <1>3
     DEF Asked, mount, jfsck, Start, commit_journal, operation_fails, sync,
         handle_sigint, unmounted_outside, destroy, io_error, kill
<1> QED BY SMTT(40), <1>2, <1>3

\* The steps that change s_state.
LEMMA StateWriters ==
    ASSUME NEW p \in Programs, Advance(p) \/ Asked(p), fsstate' # fsstate
    PROVE  mark_dirty(p) \/ umount_mark(p) \/ repair_mark(p)
<1>1. CASE Advance(p)
  BY ZenonT(40), <1>1
     DEF Advance, read_super, init_log, recover_skip, recover_replay, load_map,
         recover_finalize, recover_sync, validate_root, mark_flush,
         spawn_mount, commit_home, commit_rest, commit_flush, commit_map,
         drop_session, destroy, leave_parked, umount_pages, umount_log,
         umount_map, umount_flush, cmd_read_only, cmd_repair, repair_flush,
         cmd_replay, cmd_dump, cmd_dump_journal, image, sync_all,
         write_blocks, write_log_state
<1>2. CASE Asked(p)
  BY ZenonT(40), <1>2
     DEF Asked, mount, jfsck, Start, commit_journal, operation_fails, sync,
         handle_sigint, unmounted_outside, destroy, io_error, kill, image,
         sync_all
<1> QED BY <1>1, <1>2

\* A step that is no fault and changes p is a step of p.
LEMMA OwnStep ==
    ASSUME Inv, [Next]_vars, NEW p \in Programs, prog'[p] # prog[p],
           faults' = faults
    PROVE  Advance(p) \/ Asked(p)
<1>1. faults \in Nat
  BY MountAssumption DEF Inv, ImageTyped
<1>2. ~power_loss
  BY <1>1 DEF power_loss, Fault
<1>3. PICK q \in Programs : Advance(q) \/ Asked(q)
  BY <1>2 DEF Next, vars
<1>4. Kept(q)
  BY <1>3, AdvanceKept, AskedKept
<1>5. q = p
  BY <1>4 DEF Kept, Moved
<1> QED BY <1>3, <1>5

\* mount --ro, jfsck --read-only and the dumps change nothing on the image,
\* whoever else has it open and whatever marks it carries.
THEOREM ReadersNeverWrite == Spec => ReadersWriteNothing
<1> DEFINE A == \A p \in Programs :
                   (prog'[p] # prog[p] /\ faults' = faults
                      /\ {prog[p].kind, prog'[p].kind} \subseteq ReaderKinds
                      /\ \A q \in Programs \ {p} : prog'[q] = prog[q])
                   => UNCHANGED image
<1>1. Inv /\ [Next]_vars => [A]_vars
  BY OwnStep, ReaderQuiet
<1> QED BY <1>1, InvAlways, PTL DEF Spec, ReadersWriteNothing

\* No program changes s_state of a volume that it could not mount, and
\* jfsck --repair changes it only where check_consistent() reports nothing.
THEOREM OnlySoundAreMarked == Spec => OnlySoundMarked
<1> DEFINE A == \A p \in Programs :
                   (fsstate' # fsstate /\ prog'[p] # prog[p]
                      /\ faults' = faults) =>
                      /\ damage \cap (OpenParts \cup {"root"}) = {}
                      /\ prog[p].kind = "repair" => "child" \notin damage
<1>1. ASSUME Inv, [Next]_vars, NEW p \in Programs, fsstate' # fsstate,
             prog'[p] # prog[p], faults' = faults
      PROVE  /\ damage \cap (OpenParts \cup {"root"}) = {}
             /\ prog[p].kind = "repair" => "child" \notin damage
  <2>1. mark_dirty(p) \/ umount_mark(p) \/ repair_mark(p)
    BY <1>1, OwnStep, StateWriters
  <2>2. prog[p].pc \in {"mark", "umount_mark", "repair"}
    BY <2>1 DEF mark_dirty, umount_mark, repair_mark, At
  <2>3. Checked(p, prog[p].kind, prog[p].pc)
    BY <1>1 DEF Inv, AllChecked
  <2> QED BY <2>2, <2>3 DEF Checked, OpenedPcs, MountPcs, UmountPcs, CheckPcs,
                            OpenParts
<1>2. Inv /\ [Next]_vars => [A]_vars
  BY <1>1
<1> QED BY <1>2, InvAlways, PTL DEF Spec, OnlySoundMarked

-----------------------------------------------------------------------------
(* The dirty mark of a mount.                                              *)

\* At most one user runs programs that write; nothing locks the image, so
\* this is the users' part.
OneWriter ==
    \A u, v \in Programs :
        (Users[u] \cap WriterKinds # {} /\ Users[v] \cap WriterKinds # {}) =>
            u = v

\* Where the mark must be on the device.
MarkedPcs == {"spawn"} \cup ServePcs \cup (UmountPcs \ {"umount_flush"})

\* WriterMarked with the step before it, where the mark is written and not
\* yet flushed.
Marked ==
    \A p \in Programs : prog[p].kind = "mount" =>
        /\ prog[p].pc \in MarkedPcs => fsstate_dur = {"FM_DIRTY"}
        /\ prog[p].pc = "mark_flush" => fsstate = "FM_DIRTY"

\* The end of a session.
LEMMA DestroyMarked ==
    ASSUME prog \in [Programs -> Process], NEW p \in Programs, destroy(p),
           ~Exit(p),
           prog[p].kind = "mount" =>
             (prog[p].pc \in MarkedPcs => fsstate_dur = {"FM_DIRTY"})
    PROVE  /\ prog'[p].pc \in MarkedPcs => fsstate_dur' = {"FM_DIRTY"}
           /\ prog'[p].pc # "mark_flush"
<1>1. prog[p].pc = "serving" /\ fsstate_dur' = fsstate_dur
  BY DEF destroy, At, image
<1>2. CASE prog[p].kind = "mount"
  <2>1. prog'[p].pc = "umount"
    BY SMTT(40), <1>2, GotoMoves DEF destroy, Moved, Pcs, UmountPcs
  <2> QED BY <1>1, <1>2, <2>1 DEF MarkedPcs, ServePcs
<1>3. CASE prog[p].kind # "mount"
  <2>1. prog'[p].pc = "parked"
    BY <1>3, GotoMoves DEF destroy, AfterDestroy, Moved, Pcs
  <2> QED BY <2>1 DEF MarkedPcs, ServePcs, UmountPcs
<1> QED BY <1>2, <1>3

\* A step of the mount itself.
LEMMA MarkedOwnStep ==
    ASSUME Inv, Inv', Marked, NEW p \in Programs, Advance(p) \/ Asked(p),
           prog'[p].kind = "mount"
    PROVE  /\ prog'[p].pc \in MarkedPcs => fsstate_dur' = {"FM_DIRTY"}
           /\ prog'[p].pc = "mark_flush" => fsstate' = "FM_DIRTY"
<1> USE DEF MarkedPcs, ServePcs, UmountPcs
<1>0. /\ prog \in [Programs -> Process] /\ prog[p] \in Process
      /\ fsstate \in fsstate_dur /\ Checked(p, prog[p].kind, prog[p].pc)
      /\ prog[p].kind = "mount" =>
           /\ prog[p].pc \in MarkedPcs => fsstate_dur = {"FM_DIRTY"}
           /\ prog[p].pc = "mark_flush" => fsstate = "FM_DIRTY"
  BY DEF Inv, ImageTyped, AllChecked, Marked
<1>1. ~Exit(p)
  BY <1>0, ExitMoves DEF Moved
<1>2. CASE Asked(p)
  <2>1. CASE \E kind \in Users[p] : mount(p, kind) \/ jfsck(p, kind)
    <3>1. prog'[p].pc = "super"
      BY ZenonT(40), <1>0, <2>1 DEF mount, jfsck, Start, Idle
    <3> QED BY <3>1
  <2>2. CASE commit_journal(p)
    <3>1. prog[p].kind = "mount" /\ prog[p].pc = "serving"
      BY <2>2 DEF commit_journal, At
    <3>2. fsstate_dur' = {fsstate} /\ Goto(p, "home")
      BY <2>2 DEF commit_journal, sync_all
    <3>3. prog'[p].pc = "home"
      BY <1>0, <3>2, GotoMoves DEF Moved, Pcs
    <3> QED BY <1>0, <3>1, <3>2, <3>3
  <2>3. CASE operation_fails(p) \/ sync(p) \/ handle_sigint(p)
    <3>1. Moved(p, prog[p].kind, prog[p].pc)
      BY <1>0, <2>3, FlagMoves DEF operation_fails, sync, handle_sigint
    <3>2. fsstate' = fsstate /\ fsstate_dur' \in {fsstate_dur, {fsstate}}
      BY SMTT(40), <2>3 DEF operation_fails, sync, handle_sigint, sync_all,
         image
    <3> QED BY <1>0, <3>1, <3>2 DEF Moved
  <2>4. CASE unmounted_outside(p)
    BY <2>4, <1>0, <1>1, DestroyMarked DEF unmounted_outside
  <2>5. CASE io_error(p)
    <3>1. /\ UNCHANGED image
          /\ \/ Goto(p, "parked")
             \/ prog[p].pc \in ServePcs \ {"serving"} /\ Goto(p, "serving")
      BY <1>1, <2>5 DEF io_error, AfterDestroy
    <3>2. CASE Goto(p, "parked")
      <4>1. prog'[p].pc = "parked"
        BY SMTT(40), <1>0, <3>2, GotoMoves DEF Moved, Pcs
      <4> QED BY <4>1
    <3>3. CASE prog[p].pc \in ServePcs \ {"serving"} /\ Goto(p, "serving")
      <4>1. prog'[p].pc = "serving" /\ prog'[p].kind = prog[p].kind
        BY <1>0, <3>3, GotoMoves DEF Moved, Pcs
      <4> QED BY <1>0, <3>1, <3>3, <4>1 DEF image
    <3> QED BY <3>1, <3>2, <3>3
  <2>6. ~kill(p)
    BY <1>1 DEF kill
  <2> QED BY ZenonT(40), <1>2, <2>1, <2>2, <2>3, <2>4, <2>5, <2>6 DEF Asked
<1>3. CASE Advance(p)
  <2>1. CASE drop_session(p)
    BY <2>1, <1>0, <1>1, DestroyMarked DEF drop_session
  <2>2. CASE read_super(p) \/ init_log(p)
    <3>1. prog'[p].pc \in {"log", "recover", "map"}
      BY <1>0, <1>1, <2>2 DEF read_super, init_log, Process
    <3> QED BY <3>1
  <2>3. CASE load_map(p)
    <3>1. prog'[p].kind = prog[p].kind /\ prog'[p].pc = AfterOpen[prog[p].kind]
      BY SMTT(40), <1>0, <1>1, <2>3 DEF load_map, Process
    <3>2. prog'[p].pc = "root"
      BY <3>1 DEF AfterOpen
    <3> QED BY <3>2
  <2>4. CASE mark_dirty(p)
    <3>1. prog'[p].pc = "mark_flush" /\ fsstate' = "FM_DIRTY"
      BY SMTT(40), <1>0, <2>4 DEF mark_dirty, write_state, Goto, Process
    <3> QED BY <3>1
  <2>5. CASE mark_flush(p) \/ commit_flush(p)
    <3>1. /\ fsstate_dur' = {fsstate} /\ prog'[p].pc # "mark_flush"
          /\ prog'[p].kind = prog[p].kind
          /\ prog[p].pc \in {"mark_flush", "home_flush"}
      BY SMTT(40), <1>0, <2>5 DEF mark_flush, commit_flush, sync_all, Goto,
         Process, At
    <3> QED BY <1>0, <3>1
  <2>6. CASE \/ spawn_mount(p) \/ commit_home(p) \/ commit_rest(p)
             \/ commit_map(p) \/ umount_pages(p) \/ umount_map(p)
    <3>1. /\ fsstate_dur' = fsstate_dur /\ prog'[p].pc # "mark_flush"
          /\ prog'[p].kind = prog[p].kind /\ prog[p].pc \in MarkedPcs
      BY SMTT(40), <1>0, <1>1, <2>6
         DEF spawn_mount, commit_home, commit_rest, commit_map, umount_pages,
             umount_map, write_blocks, image, Goto, Process, At
    <3> QED BY <1>0, <3>1
  <2>7. CASE umount_log(p)
    <3>1. /\ fsstate_dur' \in {fsstate_dur, {fsstate}}
          /\ prog'[p].pc = "umount_map" /\ prog'[p].kind = prog[p].kind
          /\ prog[p].pc = "umount_log"
      BY <1>0, <2>7 DEF umount_log, sync_all, write_blocks, Goto, Process, At
    <3> QED BY <1>0, <3>1
  <2>8. CASE \/ recover_skip(p) \/ recover_replay(p) \/ recover_finalize(p)
             \/ recover_sync(p) \/ validate_root(p) \/ umount_mark(p)
             \/ umount_flush(p) \/ cmd_repair(p) \/ repair_mark(p)
    <3>1. prog'[p].pc \in {"map", "redone", "redo_sync", "mark",
                           "umount_flush", "parked", "repair",
                           "repair_flush"}
      BY SMTT(40), <1>0, <1>1, <2>8
         DEF recover_skip, recover_replay, recover_finalize, recover_sync,
             validate_root, umount_mark, umount_flush, AfterDestroy,
             cmd_repair, repair_mark, Goto, Process
    <3> QED BY <3>1
  <2>9. ~(\/ leave_parked(p) \/ cmd_read_only(p) \/ repair_flush(p)
          \/ cmd_replay(p) \/ cmd_dump(p) \/ cmd_dump_journal(p))
    BY SMTT(40), <1>1 DEF leave_parked, cmd_read_only, repair_flush,
       cmd_replay,
                cmd_dump, cmd_dump_journal
  <2> QED BY ZenonT(40), <1>3, <2>1, <2>2, <2>3, <2>4, <2>5, <2>6, <2>7,
             <2>8, <2>9
          DEF Advance
<1> QED BY <1>2, <1>3

\* A step of another process, which no user with a mount shares.
LEMMA MarkedOtherStep ==
    ASSUME OneWriter, Inv, NEW p \in Programs, NEW q \in Programs, p # q,
           prog[p].kind = "mount", prog[p].pc # "off",
           Advance(q) \/ Asked(q)
    PROVE  UNCHANGED image
<1>1. /\ Checked(p, prog[p].kind, prog[p].pc)
      /\ Checked(q, prog[q].kind, prog[q].pc) /\ prog[q].kind \in Kinds
  BY SMTT(40) DEF Inv, AllChecked, Process
<1>2. "mount" \in Users[p] \cap WriterKinds
  BY <1>1 DEF Checked, WriterKinds
<1>3. Users[q] \cap WriterKinds = {}
  BY SMTT(40), <1>2 DEF OneWriter
<1>4. prog[q].kind = "dump" \/ prog[q].kind \in Users[q]
  BY SMTT(40), <1>1 DEF Checked
<1>5. prog[q].kind \in ReaderKinds
  BY SMTT(40), <1>1, <1>3, <1>4 DEF Kinds, ReaderKinds
<1> QED BY <1>5, ReaderQuiet

\* Every step keeps the mark.
LEMMA StepMarked ==
    OneWriter /\ Inv /\ Inv' /\ Marked /\ [Next]_vars => Marked'
<1> SUFFICES ASSUME OneWriter, Inv, Inv', Marked, [Next]_vars,
                    NEW p \in Programs, prog'[p].kind = "mount"
             PROVE  /\ prog'[p].pc \in MarkedPcs => fsstate_dur' = {"FM_DIRTY"}
                    /\ prog'[p].pc = "mark_flush" => fsstate' = "FM_DIRTY"
  BY DEF Marked
<1>1. CASE power_loss
  BY <1>1, IdleTyped DEF power_loss
<1>2. ASSUME NEW q \in Programs, Advance(q) \/ Asked(q), q # p
      PROVE  /\ prog'[p].pc \in MarkedPcs => fsstate_dur' = {"FM_DIRTY"}
             /\ prog'[p].pc = "mark_flush" => fsstate' = "FM_DIRTY"
  <2>1. prog'[p] = prog[p]
    BY SMTT(40), <1>2, AdvanceKept, AskedKept DEF Kept, Moved
  <2>2. CASE prog[p].pc = "off"
    BY <2>1, <2>2 DEF MarkedPcs, ServePcs, UmountPcs
  <2>3. CASE prog[p].pc # "off"
    <3>1. UNCHANGED image
      BY <1>2, <2>1, <2>3, MarkedOtherStep
    <3> QED BY SMTT(40), <2>1, <3>1 DEF Marked, image
  <2> QED BY SMTT(40), <2>2, <2>3
<1>3. CASE UNCHANGED vars
  BY <1>3 DEF vars, image, Marked
<1> QED BY <1>1, <1>2, <1>3, MarkedOwnStep DEF Next

\* So it is always there.
LEMMA MarkedAlways == ASSUME OneWriter PROVE Spec => []Marked
<1>1. Init => Marked
  BY IdleTyped DEF Init, Marked
<1>2. Inv /\ Inv' /\ Marked /\ [Next]_vars => Marked'
  BY StepMarked
<1> QED BY <1>1, <1>2, InvAlways, PTL DEF Spec

\* While a mount is served, and in umount() up to its last write, FM_DIRTY
\* is on the device: a power loss at any moment leaves the mark, for any
\* number of readers beside the mount, provided only one user writes.
THEOREM WriterAlwaysMarked ==
    ASSUME OneWriter PROVE Spec => []WriterMarked
<1>1. Marked => WriterMarked
  BY DEF Marked, WriterMarked, MarkedPcs
<1> QED BY <1>1, MarkedAlways, PTL

-----------------------------------------------------------------------------
(* FM_CLEAN and torn updates.                                              *)

\* Where a writer may have blocks of an update to sync.
BusyPcs == {"redone", "redo_sync", "umount", "umount_log"} \cup ServePcs

\* Where a writer has no update in part of its blocks.
SoundPcs == {"redone", "redo_sync", "map"} \cup MountPcs
            \cup (ServePcs \ {"home_rest"}) \cup UmountPcs \cup CheckPcs

\* The image is as a writer at c leaves it; c is "off" where no program
\* writes.
Whole(c) ==
    /\ "FM_CLEAN" \in fsstate_dur => ~torn /\ unsynced \cap Updates = {}
    /\ c \notin BusyPcs => unsynced \cap Updates = {}
    /\ c \in SoundPcs => ~torn

Writers == {p \in Programs : prog[p].kind \in WriterKinds}

\* With one writer at most, CleanIsWhole is a matter of where it is.
WholeInv ==
    (haslog /\ hurt = {}) =>
        /\ Writers = {} => Whole("off")
        /\ \A p \in Writers : Whole(prog[p].pc)

\* There is one writer at most.
LEMMA WriterUnique ==
    ASSUME OneWriter, Inv, NEW p \in Writers, NEW q \in Writers
    PROVE  p = q
<1>1. ASSUME NEW r \in Writers
      PROVE  r \in Programs /\ Users[r] \cap WriterKinds # {}
  <2>1. r \in Programs /\ Checked(r, prog[r].kind, prog[r].pc)
        /\ prog[r].kind \in WriterKinds
    BY SMTT(40) DEF Writers, Inv, AllChecked
  <2>2. prog[r].kind \in Users[r]
    BY <2>1 DEF Checked, WriterKinds
  <2> QED BY <2>1, <2>2
<1> QED BY <1>1 DEF OneWriter

\* What has happened to the marks stays.
LEMMA HurtGrows ==
    ASSUME NEW p \in Programs, Advance(p) \/ Asked(p), hurt' = {}
    PROVE  hurt = {}
<1>1. CASE Advance(p)
  <2>1. hurt \subseteq hurt'
    BY ZenonT(40), <1>1
       DEF Advance, read_super, init_log, recover_skip, recover_replay,
           load_map, recover_finalize, recover_sync, validate_root,
           mark_dirty, mark_flush, spawn_mount, commit_home, commit_rest,
           commit_flush, commit_map, drop_session, destroy, leave_parked,
           umount_pages, umount_log, umount_map, umount_mark, umount_flush,
           cmd_read_only, cmd_repair, repair_mark, repair_flush, cmd_replay,
           cmd_dump, cmd_dump_journal
  <2> QED BY <2>1
<1>2. CASE Asked(p)
  <2>1. hurt \subseteq hurt'
    BY ZenonT(40), <1>2
       DEF Asked, mount, jfsck, Start, commit_journal, operation_fails, sync,
           handle_sigint, unmounted_outside, destroy, io_error, kill
  <2> QED BY <2>1
<1> QED BY <1>1, <1>2

\* A writer that moves and leaves the image: to a place with no more to it,
\* or without anything left to sync.
LEMMA QuietWhole ==
    ASSUME NEW p \in Programs, Whole(prog[p].pc), UNCHANGED image,
           prog'[p].pc \in SoundPcs => prog[p].pc \in SoundPcs \/ ~torn,
           prog'[p].pc \notin BusyPcs =>
             prog[p].pc \notin BusyPcs \/ unsynced \cap Updates = {}
    PROVE  Whole(prog[p].pc)'
BY DEF Whole, image

\* A writer that syncs.
LEMMA SyncWhole ==
    ASSUME NEW p \in Programs, Whole(prog[p].pc), prog[p].pc \in SoundPcs,
           fsstate \in fsstate_dur,
           fsstate_dur' = {fsstate}, unsynced' = {}, UNCHANGED torn
    PROVE  Whole(prog[p].pc)'
BY SMTT(40) DEF Whole

\* The end of a session of the writer.
LEMMA DestroyWhole ==
    ASSUME prog \in [Programs -> Process], NEW p \in Programs, destroy(p),
           prog[p].kind \notin ReaderKinds,
           Checked(p, prog[p].kind, prog[p].pc), Whole(prog[p].pc)
    PROVE  Whole(prog[p].pc)'
<1>1. prog[p].pc = "serving" /\ UNCHANGED image
  BY SMTT(40) DEF destroy, At
<1>2. prog[p].kind = "mount"
  BY SMTT(40), <1>1 DEF Checked, ReaderKinds
<1>3. prog'[p].pc = "umount"
  BY <1>2, GotoMoves DEF destroy, Moved, Pcs, UmountPcs
<1> QED BY <1>1, <1>3, QuietWhole DEF BusyPcs, SoundPcs, ServePcs, UmountPcs

\* The step of the writer.
LEMMA WholeOwnStep ==
    ASSUME Inv, Marked, NEW p \in Programs, prog[p].kind \in WriterKinds,
           haslog, hurt = {}, hurt' = {}, Whole(prog[p].pc),
           Advance(p) \/ Asked(p)
    PROVE  Whole(prog[p].pc)'
<1> DEFINE c == prog[p].pc
<1> USE DEF BusyPcs, SoundPcs, OpenPcs, MountPcs, ServePcs, UmountPcs, CheckPcs
<1>0. /\ prog \in [Programs -> Process] /\ prog[p] \in Process
      /\ fsstate \in fsstate_dur /\ Checked(p, prog[p].kind, c)
      /\ prog[p].kind \notin ReaderKinds
      /\ (prog[p].kind = "mount" /\ c \in MarkedPcs) =>
           fsstate_dur = {"FM_DIRTY"}
  BY DEF Inv, ImageTyped, AllChecked, Marked, WriterKinds, ReaderKinds
<1>1. Exit(p) => prog'[p].pc = "off"
  BY SMTT(40), <1>0, ExitMoves DEF Moved
<1>2. \A d \in Pcs : Goto(p, d) => prog'[p].pc = d
  BY SMTT(40), <1>0, GotoMoves DEF Moved
<1>3. CASE Asked(p)
  <2>1. ~\E kind \in Users[p] : mount(p, kind) \/ jfsck(p, kind)
    BY ZenonT(40), <1>0 DEF mount, jfsck, Start, Running, Checked, ReaderKinds
  <2>2. CASE commit_journal(p)
    <3>1. /\ fsstate_dur' = {fsstate} /\ unsynced' = {} /\ UNCHANGED torn
          /\ c = "serving"
      BY <2>2 DEF commit_journal, sync_all, At
    <3> QED BY SMTT(40), <1>0, <3>1, SyncWhole
  <2>3. CASE sync(p)
    <3>1. /\ fsstate_dur' = {fsstate} /\ unsynced' = {} /\ UNCHANGED torn
          /\ c = "serving"
      BY SMTT(40), <2>3 DEF sync, sync_all, At
    <3> QED BY <1>0, <3>1, SyncWhole
  <2>4. CASE operation_fails(p) \/ handle_sigint(p)
    <3>1. UNCHANGED image
      BY Zenon, <2>4 DEF operation_fails, handle_sigint
    <3>2. prog'[p].pc = c
      BY ZenonT(40), <1>0, <2>4, FlagMoves DEF operation_fails,
         handle_sigint, Moved
    <3> QED BY <3>1, <3>2, QuietWhole
  <2>5. CASE unmounted_outside(p)
    BY SMTT(40), <1>0, <2>5, DestroyWhole DEF unmounted_outside
  <2>6. CASE io_error(p) \/ kill(p)
    <3>1. UNCHANGED image /\ Abandoned(p) = {}
      BY ZenonT(40), <2>6 DEF io_error, kill
    <3>2. CASE prog'[p].pc \in {"off", "parked"}
      <4>1. unsynced \cap Updates = {}
        BY SMTT(40), <3>1, <3>2 DEF Abandoned
      <4> QED BY SMTT(40), <3>1, <3>2, <4>1, QuietWhole
    <3>3. CASE prog'[p].pc \notin {"off", "parked"}
      <4>1. /\ c \in ServePcs \ {"serving"} /\ c # "home_rest"
            /\ Goto(p, "serving")
        BY Zenon, <1>1, <1>2, <2>6, <3>3 DEF io_error, kill, AfterDestroy,
           At, Pcs
      <4>2. prog'[p].pc = "serving"
        BY <1>2, <4>1 DEF Pcs
      <4> QED BY SMTT(40), <3>1, <4>1, <4>2, QuietWhole
    <3> QED BY <3>2, <3>3
  <2> QED BY ZenonT(40), <1>3, <2>1, <2>2, <2>3, <2>4, <2>5, <2>6 DEF Asked
<1>4. CASE Advance(p)
  <2>1. CASE drop_session(p)
    BY <1>0, <2>1, DestroyWhole DEF drop_session
  <2>2. CASE read_super(p)
    <3>1. /\ UNCHANGED image /\ c = "super"
          /\ prog'[p].pc \in {"off", "log"}
      BY <1>0, <1>1, <2>2 DEF read_super, At, Process
    <3> QED BY ZenonT(40), <3>1, QuietWhole
  <2>3. CASE init_log(p)
    <3>1. /\ UNCHANGED image /\ c = "log"
          /\ prog'[p].pc \in {"off", "recover"}
      BY SMTT(40), <1>0, <1>1, <2>3 DEF init_log, At, Process
    <3> QED BY ZenonT(40), <3>1, QuietWhole
  <2>4. CASE recover_skip(p)
    <3>1. UNCHANGED image /\ c = "recover" /\ ~torn /\ Goto(p, "map")
      BY SMTT(40), <2>4 DEF recover_skip, At
    <3>2. prog'[p].pc = "map"
      BY SMTT(40), <1>2, <3>1 DEF Pcs
    <3> QED BY ZenonT(40), <3>1, <3>2, QuietWhole
  <2>5. CASE recover_replay(p)
    <3>1. /\ write_blocks(IF torn THEN {"redo"} ELSE {})
          /\ torn' = FALSE /\ Goto(p, "redone") /\ c = "recover"
      BY SMTT(40), <2>5 DEF recover_replay, writable, At
    <3>2. prog'[p].pc = "redone" /\ fsstate_dur' = fsstate_dur
      BY SMTT(40), <1>2, <3>1 DEF Pcs, write_blocks
    <3>3. ~torn => unsynced' = unsynced
      BY SMTT(40), <3>1 DEF write_blocks
    <3>4. "FM_CLEAN" \in fsstate_dur' => unsynced' \cap Updates = {}
      BY SMTT(40), <3>2, <3>3 DEF Whole
    <3> QED BY SMTT(40), <3>1, <3>2, <3>4 DEF Whole
  <2>6. CASE recover_finalize(p)
    <3>1. /\ c = "redone" /\ Goto(p, "redo_sync")
          /\ UNCHANGED <<fsstate_dur, unsynced, torn>>
      BY SMTT(40), <2>6 DEF recover_finalize, write_log_state, At
    <3>2. prog'[p].pc = "redo_sync"
      BY SMTT(40), <1>2, <3>1 DEF Pcs
    <3> QED BY SMTT(40), <3>1, <3>2 DEF Whole
  <2>7. CASE \/ recover_sync(p) \/ mark_flush(p) \/ commit_flush(p)
             \/ umount_flush(p) \/ repair_flush(p)
    <3>1. /\ sync_all /\ UNCHANGED torn
          /\ c \in {"redo_sync", "mark_flush", "home_flush", "umount_flush",
                    "repair_flush"}
      BY Zenon, <2>7 DEF recover_sync, mark_flush, commit_flush, umount_flush,
                  repair_flush, At
    <3> QED BY <1>0, <3>1, SyncWhole DEF sync_all
  <2>8. CASE load_map(p)
    <3>1. UNCHANGED image /\ c = "map"
      BY SMTT(40), <2>8 DEF load_map, At
    <3> QED BY ZenonT(40), <3>1, QuietWhole
  <2>9. CASE validate_root(p) \/ cmd_repair(p)
    <3>1. UNCHANGED image /\ c \in {"root", "check_repair"}
      BY ZenonT(40), <2>9 DEF validate_root, cmd_repair, At
    <3> QED BY <3>1, QuietWhole
  <2>10. CASE mark_dirty(p)
    <3>1. /\ c = "mark" /\ UNCHANGED <<unsynced, torn>>
          /\ fsstate_dur' = fsstate_dur \cup {"FM_DIRTY"}
      BY SMTT(40), <2>10 DEF mark_dirty, write_state, At
    <3>2. unsynced \cap Updates = {} /\ ~torn
      BY SMTT(40), <3>1 DEF Whole
    <3> QED BY SMTT(40), <3>1, <3>2 DEF Whole
  <2>11. CASE umount_mark(p) \/ repair_mark(p)
    <3>1. /\ c \in {"umount_mark", "repair"} /\ UNCHANGED <<unsynced, torn>>
      BY ZenonT(40), <2>11 DEF umount_mark, repair_mark, write_state, At
    <3>2. unsynced \cap Updates = {} /\ ~torn
      BY SMTT(40), <3>1 DEF Whole
    <3> QED BY <3>1, <3>2 DEF Whole
  <2>12. CASE spawn_mount(p)
    <3>1. UNCHANGED image /\ c = "spawn"
      BY SMTT(40), <2>12 DEF spawn_mount, At
    <3> QED BY <3>1, QuietWhole
  <2>13. CASE commit_home(p) \/ commit_rest(p)
    <3>1. /\ c \in {"home", "home_rest"} /\ UNCHANGED fsstate_dur
          /\ \/ prog'[p].pc = "home_rest"
             \/ prog'[p].pc = "home_flush" /\ ~torn'
      BY Zenon, <1>2, <2>13 DEF commit_home, commit_rest, write_blocks, At, Pcs
    <3>2. fsstate_dur = {"FM_DIRTY"}
      BY Zenon, <1>0, <3>1 DEF Checked, MarkedPcs
    <3> QED BY <3>1, <3>2 DEF Whole
  <2>14. CASE commit_map(p) \/ umount_map(p)
    <3>1. /\ write_blocks({"map"}) /\ UNCHANGED torn
          /\ \/ c = "bmap" /\ prog'[p].pc = "serving"
             \/ c = "umount_map" /\ prog'[p].pc = "umount_mark"
      BY ZenonT(40), <1>2, <2>14 DEF commit_map, umount_map, At, Pcs
    <3>2. unsynced' \cap Updates = unsynced \cap Updates
      BY SMTT(40), <3>1 DEF write_blocks, Updates
    <3> QED BY ZenonT(40), <3>1, <3>2 DEF Whole, write_blocks
  <2>15. CASE umount_pages(p)
    <3>1. /\ write_blocks({}) /\ UNCHANGED torn
          /\ c = "umount" /\ prog'[p].pc = "umount_log"
      BY SMTT(40), <1>2, <2>15 DEF umount_pages, At, Pcs
    <3> QED BY SMTT(40), <3>1 DEF Whole, write_blocks
  <2>16. CASE umount_log(p)
    <3>1. sync_all /\ UNCHANGED torn /\ c = "umount_log"
      BY <2>16 DEF umount_log, At
    <3> QED BY SMTT(40), <1>0, <3>1, SyncWhole DEF sync_all
  <2>17. CASE \/ leave_parked(p) \/ cmd_read_only(p) \/ cmd_replay(p)
              \/ cmd_dump(p) \/ cmd_dump_journal(p)
    <3>1. /\ UNCHANGED image /\ prog'[p].pc = "off"
          /\ c \in {"parked", "check", "replayed", "dump", "super"}
      BY ZenonT(40), <1>1, <2>17 DEF leave_parked, cmd_read_only, cmd_replay,
         cmd_dump,
                         cmd_dump_journal, At
    <3> QED BY ZenonT(40), <3>1, QuietWhole
  <2> QED BY Zenon, <1>4, <2>1, <2>2, <2>3, <2>4, <2>5, <2>6, <2>7, <2>8, <2>9,
             <2>10, <2>11, <2>12, <2>13, <2>14, <2>15, <2>16, <2>17
          DEF Advance
<1> QED BY SMTT(40), <1>3, <1>4

\* There is one writer at most after a step.
LEMMA WriterUniqueAfter ==
    ASSUME OneWriter, Inv', NEW p \in Writers', NEW q \in Writers'
    PROVE  p = q
<1>1. ASSUME NEW r \in Writers'
      PROVE  r \in Programs /\ Users[r] \cap WriterKinds # {}
  <2>1. r \in Programs /\ Checked(r, prog[r].kind, prog[r].pc)'
        /\ prog'[r].kind \in WriterKinds
    BY DEF Writers, Inv, AllChecked
  <2>2. prog'[r].kind \in Users[r]
    BY <2>1 DEF Checked, WriterKinds
  <2> QED BY <2>1, <2>2
<1> QED BY <1>1 DEF OneWriter

\* What kind of program a process is changes where it starts and ends.
LEMMA KindChanges ==
    ASSUME Inv, NEW p \in Programs, Advance(p) \/ Asked(p),
           prog'[p].kind # prog[p].kind
    PROVE  Exit(p) \/ \E kind \in Users[p] : Start(p, kind)
<1>0. prog \in [Programs -> Process] /\ prog[p] \in Process
  BY DEF Inv
<1>1. ~\E c \in Pcs : Goto(p, c)
  BY SMTT(40), <1>0, GotoMoves DEF Moved
<1>2. CASE Advance(p)
  <2>1. CASE read_super(p) \/ init_log(p) \/ load_map(p)
    BY SMTT(40), <1>0, <2>1 DEF read_super, init_log, load_map, Process
  <2>2. CASE ~(read_super(p) \/ init_log(p) \/ load_map(p))
    <3>1. Exit(p) \/ \E c \in Pcs : Goto(p, c)
      BY ZenonT(40), <1>2, <2>2
         DEF Advance, recover_skip, recover_replay, recover_finalize,
             recover_sync, validate_root, mark_dirty, mark_flush,
             spawn_mount, commit_home, commit_rest, commit_flush, commit_map,
             drop_session, destroy, AfterDestroy, leave_parked, umount_pages,
             umount_log, umount_map, umount_mark, umount_flush,
             cmd_read_only, cmd_repair, repair_mark, repair_flush,
             cmd_replay, cmd_dump, cmd_dump_journal, Pcs, OpenPcs, MountPcs,
             ServePcs, UmountPcs, CheckPcs
    <3> QED BY <1>1, <3>1
  <2> QED BY <2>1, <2>2
<1>3. CASE Asked(p)
  <2>1. ~(operation_fails(p) \/ sync(p) \/ handle_sigint(p))
    BY <1>0, FlagMoves DEF operation_fails, sync, handle_sigint, Moved
  <2>2. \/ Exit(p) \/ \E c \in Pcs : Goto(p, c)
        \/ \E kind \in Users[p] : Start(p, kind)
    BY ZenonT(40), <1>3, <2>1
       DEF Asked, mount, jfsck, commit_journal, unmounted_outside, destroy,
           AfterDestroy, io_error, kill, Pcs, OpenPcs, MountPcs, ServePcs,
           UmountPcs
  <2> QED BY <1>1, <2>2
<1> QED BY <1>2, <1>3

\* A program stops being a writer by ending.
LEMMA LeavesOff ==
    ASSUME Inv, NEW p \in Programs, Advance(p) \/ Asked(p),
           prog[p].kind \in WriterKinds, prog'[p].kind \notin WriterKinds
    PROVE  prog'[p].pc = "off"
<1>1. prog'[p].kind # prog[p].kind
  BY SMTT(40)
<1>2. ~Running(p) => prog[p].kind = "dump"
  BY DEF Inv, AllChecked, Checked, Running
<1>3. Exit(p)
  BY ZenonT(40), <1>1, <1>2, KindChanges DEF Start, WriterKinds
<1> QED BY <1>3, ExitMoves DEF Inv, Moved

\* A program becomes a writer by starting.
LEMMA WriterStarts ==
    ASSUME Inv, NEW p \in Programs, Advance(p) \/ Asked(p),
           prog[p].kind \notin WriterKinds, prog'[p].kind \in WriterKinds
    PROVE  prog'[p].pc = "super"
<1>1. prog'[p].kind # prog[p].kind
  OBVIOUS
<1>2. ~Exit(p)
  BY SMTT(40), ExitMoves DEF Inv, Moved, WriterKinds
<1>3. PICK kind \in Users[p] : Start(p, kind)
  BY <1>1, <1>2, KindChanges
<1> QED BY <1>3 DEF Start, Idle, Inv

\* A step of p, which is a writer before it, after it or neither.
LEMMA WholeStep ==
    ASSUME OneWriter, Inv, Inv', Marked, WholeInv,
           NEW p \in Programs, Advance(p) \/ Asked(p)
    PROVE  WholeInv'
<1> SUFFICES ASSUME haslog', hurt' = {}
             PROVE  /\ Writers' = {} => Whole("off")'
                    /\ \A q \in Writers' : Whole(prog[q].pc)'
  BY DEF WholeInv
<1>0. Kept(p)
  BY AdvanceKept, AskedKept
<1>1. haslog /\ hurt = {} /\ \A q \in Programs : q # p => prog'[q] = prog[q]
  BY SMTT(40), <1>0, HurtGrows DEF Kept, Moved
<1>2. /\ Writers = {} => Whole("off")
      /\ \A q \in Writers : Whole(prog[q].pc)
  BY <1>1 DEF WholeInv
<1>3. CASE p \in Writers
  <2>1. prog[p].kind \in WriterKinds
    BY SMTT(40), <1>3 DEF Writers
  <2>2. Whole(prog[p].pc)'
    BY SMTT(40), <1>1, <1>2, <1>3, <2>1, WholeOwnStep
  <2>3. Writers' \subseteq {p}
    BY SMTT(40), <1>1, <1>3, WriterUnique DEF Writers
  <2>4. CASE Writers' = {}
    <3>1. prog'[p].kind \notin WriterKinds
      BY <2>4 DEF Writers
    <3>2. prog'[p].pc = "off"
      BY SMTT(40), <1>3, <2>1, <3>1, LeavesOff
    <3>3. Whole("off")'
      BY SMTT(40), <2>2, <3>2 DEF Whole
    <3> QED BY <2>4, <3>3
  <2>5. CASE Writers' # {}
    BY SMTT(40), <2>2, <2>3, <2>5
  <2> QED BY <2>4, <2>5
<1>4. CASE p \notin Writers
  <2>1. UNCHANGED image
    <3>1. prog[p].kind \in Kinds /\ prog[p].kind \notin WriterKinds
      BY SMTT(40), <1>4 DEF Writers, Inv, Process
    <3> QED BY <3>1, ReaderQuiet DEF Kinds
  <2>2. ASSUME NEW q \in Writers', q # p
        PROVE  q \in Writers /\ Whole(prog[q].pc)'
    <3>1. q \in Writers /\ prog'[q] = prog[q]
      BY <1>1, <2>2 DEF Writers
    <3>2. Whole(prog[q].pc)
      BY <1>2, <3>1
    <3> QED BY SMTT(40), <2>1, <3>1, <3>2 DEF Whole, image
  <2>3. CASE p \notin Writers'
    <3>1. Writers' = Writers
      BY SMTT(40), <1>1, <1>4, <2>3 DEF Writers
    <3>2. Writers = {} => Whole("off")'
      BY SMTT(40), <1>2, <2>1 DEF Whole, image
    <3> QED BY SMTT(40), <2>2, <2>3, <3>1, <3>2
  <2>4. CASE p \in Writers'
    <3>1. Writers' = {p}
      <4>1. ASSUME NEW q \in Writers' PROVE q = p
        BY SMTT(40), <2>4, WriterUniqueAfter
      <4> QED BY <2>4, <4>1
    <3>2. Writers = {}
      BY SMTT(40), <1>1, <1>4, <3>1 DEF Writers
    <3>3. Whole("off")'
      BY SMTT(40), <1>2, <2>1, <3>2 DEF Whole, image
    <3>4. prog'[p].pc = "super"
      BY SMTT(40), <1>4, <2>4, WriterStarts DEF Writers
    <3>5. Whole(prog[p].pc)'
      BY <3>3, <3>4 DEF Whole, BusyPcs, SoundPcs, ServePcs, MountPcs,
                        UmountPcs, CheckPcs
    <3> QED BY <3>1, <3>5
  <2> QED BY <2>3, <2>4
<1> QED BY <1>3, <1>4

\* An image comes with a torn update only under FM_DIRTY.
LEMMA InitWhole == Init => WholeInv
<1> SUFFICES ASSUME Init PROVE WholeInv
  OBVIOUS
<1>1. "FM_CLEAN" \in fsstate_dur => ~torn
  <2>1. fsstate_dur = {fsstate}
    BY DEF Init
  <2>2. fsstate # "FM_DIRTY" => ~torn
    BY ZenonT(40) DEF Init
  <2> QED BY <2>1, <2>2
<1>2. Whole("off")
  BY <1>1 DEF Init, Whole, SoundPcs, ServePcs, MountPcs, UmountPcs, CheckPcs
<1>3. Writers = {}
  BY IdleTyped DEF Init, Writers, WriterKinds
<1> QED BY <1>2, <1>3 DEF WholeInv

\* Every step keeps WholeInv.
LEMMA StepWhole ==
    OneWriter /\ Inv /\ Inv' /\ Marked /\ WholeInv /\ [Next]_vars => WholeInv'
<1> SUFFICES ASSUME OneWriter, Inv, Inv', Marked, WholeInv, [Next]_vars
             PROVE  WholeInv'
  OBVIOUS
<1>1. CASE power_loss
  <2> SUFFICES ASSUME haslog', hurt' = {} PROVE Writers' = {} /\ Whole("off")'
    BY DEF WholeInv
  <2>1. Writers' = {}
    BY SMTT(40), <1>1, IdleTyped DEF power_loss, Writers, WriterKinds
  <2>2. "FM_CLEAN" \in fsstate_dur => ~torn /\ unsynced \cap Updates = {}
    <3>1. haslog /\ hurt = {}
      BY <1>1 DEF power_loss
    <3> QED BY <3>1 DEF WholeInv, Whole
  <2>3. "FM_CLEAN" \in fsstate_dur' => ~torn'
    <3> SUFFICES ASSUME "FM_CLEAN" \in fsstate_dur' PROVE ~torn'
      OBVIOUS
    <3>1. "FM_CLEAN" \in fsstate_dur
      BY <1>1 DEF power_loss
    <3>2. ~torn /\ torn' \in {torn}
      BY <1>1, <2>2, <3>1 DEF power_loss
    <3> QED BY <3>2
  <2>4. unsynced' = {}
    BY SMTT(40), <1>1 DEF power_loss
  <2> QED BY <2>1, <2>3, <2>4 DEF Whole, SoundPcs, ServePcs, MountPcs,
                                  UmountPcs, CheckPcs
<1>2. CASE UNCHANGED vars
  BY <1>2 DEF vars, image, WholeInv, Whole, Writers
<1> QED BY <1>1, <1>2, WholeStep DEF Next

\* On a volume with a log, where one user writes, no power loss during or
\* after a commit, a replay, umount() or jfsck --repair leaves FM_CLEAN over
\* an update in part of its blocks, unless one of the events in hurt has
\* happened.
THEOREM CleanIsAlwaysWhole ==
    ASSUME OneWriter PROVE Spec => []CleanIsWhole
<1>1. Inv /\ Inv' /\ Marked /\ WholeInv /\ [Next]_vars => WholeInv'
  BY StepWhole
<1>2. WholeInv => CleanIsWhole
  BY DEF WholeInv, CleanIsWhole, Whole
<1>3. Spec => []Marked
  BY MarkedAlways
<1> QED BY <1>1, <1>2, <1>3, InitWhole, InvAlways, PTL DEF Spec
=============================================================================
