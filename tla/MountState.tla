----------------------------- MODULE MountState -----------------------------
(***************************************************************************)
(* The programs that open an image and the marks they leave on it: the     *)
(* FUSE mount (src/src/bin/mount.rs), writable and --ro, and jfsck         *)
(* --read-only, --repair, --replay and the dumps (src/src/bin/jfsck.rs),   *)
(* over Volume::open_from_storage(), mount_from_storage(), umount() and    *)
(* check_consistent() (src/src/volume.rs).                                 *)
(*                                                                         *)
(* Of the image the module keeps s_state of the superblock, the state of   *)
(* the log superblock, and what the order of writes and syncs makes of the *)
(* rest: unsynced holds the kinds of writes that a power loss may drop,    *)
(* and torn says that an update in the journal has reached only some of    *)
(* its blocks.  What the replay of a log writes is JournalRecovery's       *)
(* subject; here it completes a torn update.                               *)
(***************************************************************************)
EXTENDS Naturals, FiniteSets

CONSTANTS
    Users,        \* which programs each of several users may run
    Damages,      \* the sets of parts of the image that may be broken
    MaxCommits,   \* bound: transactions of the mounts
    MaxFaults     \* bound: power losses, kills and I/O errors

\* What stops an open, what else stops a mount, what jfsck reports, and what
\* it does not look at.
OpenParts == {"super", "geometry", "log", "map"}
Parts == OpenParts \cup {"root", "child", "deep"}

WriterKinds == {"mount", "repair", "replay"}
ReaderKinds == {"mount_ro", "read_only", "dump", "dump_journal"}
Kinds == WriterKinds \cup ReaderKinds

ASSUME MountAssumption ==
    /\ Damages \subseteq SUBSET Parts
    /\ \A u \in DOMAIN Users : Users[u] \subseteq Kinds
    /\ MaxCommits \in Nat /\ MaxFaults \in Nat

VARIABLES
    fsstate, fsstate_dur,    \* s_state, and its values after a power loss
    logstate, logstate_dur,  \* LogSuper::state, likewise
    unsynced,    \* kinds of block writes since the last sync
    torn,        \* a journaled update has reached only some of its blocks
    haslog,      \* JfsSuperblock::has_inline_log()
    damage,      \* broken parts of the image
    prog,        \* the processes
    commits, faults,
    hurt         \* what has happened that the marks do not survive

image == <<fsstate, fsstate_dur, logstate, logstate_dur, unsynced, torn>>
bounds == <<commits, faults>>
vars == <<image, haslog, damage, prog, bounds, hurt>>

\* One process of each user at a time.
Programs == DOMAIN Users

FsStates == {"FM_CLEAN", "FM_DIRTY"}
LogStates == {"LOGREDONE", "LOGMOUNT"}

OpenPcs == {"super", "log", "recover", "redone", "redo_sync", "map"}
MountPcs == {"root", "mark", "mark_flush", "spawn"}
ServePcs == {"serving", "home", "home_rest", "home_flush", "bmap"}
UmountPcs == {"umount", "umount_log", "umount_map", "umount_mark",
              "umount_flush"}
CheckPcs == {"check", "check_repair", "repair", "repair_flush", "replayed",
             "dump"}
Pcs == OpenPcs \cup MountPcs \cup ServePcs \cup UmountPcs \cup CheckPcs
       \cup {"parked", "off"}

\* No process: seen is s_state as it was read, log the state in memory,
\* signalled is ~RUNNING, left says that a transaction was left open.
Idle == [kind |-> "dump", pc |-> "off", seen |-> "FM_CLEAN",
         log |-> "LOGREDONE", signalled |-> FALSE, left |-> FALSE]

\* mkfs leaves FM_CLEAN and LOGREDONE; an image of another implementation
\* may come with any marks and with a torn update.
Init ==
    /\ fsstate \in FsStates /\ fsstate_dur = {fsstate}
    /\ logstate \in LogStates /\ logstate_dur = {logstate}
    /\ unsynced = {}
    /\ haslog \in BOOLEAN
    /\ torn \in {FALSE, haslog /\ fsstate = "FM_DIRTY"
                           /\ logstate = "LOGMOUNT"}
    /\ damage \in Damages /\ ("log" \in damage => haslog)
    /\ prog = [p \in Programs |-> Idle]
    /\ commits = 0 /\ faults = 0 /\ hurt = {}

-----------------------------------------------------------------------------
(* The image file.                                                         *)

\* FileStorage::sync(), flush_data() and flush_metadata().
sync_all ==
    /\ fsstate_dur' = {fsstate} /\ logstate_dur' = {logstate}
    /\ unsynced' = {}
    /\ UNCHANGED <<fsstate, logstate>>

\* set_fs_state() up to its flush_metadata().
write_state(s) ==
    /\ fsstate' = s /\ fsstate_dur' = fsstate_dur \cup {s}
    /\ UNCHANGED <<logstate, logstate_dur, unsynced>>

write_log_state(s) ==
    /\ logstate' = s /\ logstate_dur' = logstate_dur \cup {s}
    /\ UNCHANGED <<fsstate, fsstate_dur, unsynced>>

write_blocks(kinds) ==
    /\ unsynced' = unsynced \cup kinds
    /\ UNCHANGED <<fsstate, fsstate_dur, logstate, logstate_dur>>

\* Mutant of writable: a read-only image accepts writes.
writable_anyway(kind) == TRUE

\* FileStorage::open() or open_readonly(): only the first kind of file
\* accepts write_bytes() and write_block().
writable(kind) == kind \in WriterKinds

-----------------------------------------------------------------------------
(* Steps of a process.                                                     *)

Running(p) == prog[p].pc # "off"
At(p, pc) == prog[p].pc = pc
Goto(p, pc) == prog' = [prog EXCEPT ![p].pc = pc]
Exit(p) == prog' = [prog EXCEPT ![p] = Idle]

\* Nothing locks the image.
Start(p, kind) ==
    /\ ~Running(p)
    /\ prog' = [prog EXCEPT ![p] = [Idle EXCEPT !.kind = kind,
                                                !.pc = "super"]]
    /\ UNCHANGED <<image, haslog, damage, bounds, hurt>>

\* main() of mount and of jfsck, which takes its mode from the arguments.
mount(p, kind) == kind \in {"mount", "mount_ro"} /\ Start(p, kind)

jfsck(p, kind) ==
    /\ kind \in {"read_only", "repair", "replay", "dump", "dump_journal"}
    /\ Start(p, kind)

\* Magic and version of the superblock; the device is as large as it says.
validate_super == "super" \notin damage
validate_against_superblock == "geometry" \notin damage

\* The first reads of an open.  Only cmd_repair() looks at s_state again.
read_super(p) ==
    /\ At(p, "super") /\ prog[p].kind # "dump_journal"
    /\ IF ~(validate_super /\ validate_against_superblock)
       THEN Exit(p)
       ELSE prog' = [prog EXCEPT
              ![p].pc = "log",
              ![p].seen = IF prog[p].kind = "repair" THEN fsstate ELSE @]
    /\ UNCHANGED <<image, haslog, damage, bounds, hurt>>

\* Mutant of log_valid: the log superblock is not looked at.
log_unchecked == TRUE

\* Magic and version of the log superblock.
log_valid == haslog => "log" \notin damage

init_log(p) ==
    /\ At(p, "log")
    /\ IF ~log_valid
       THEN Exit(p)
       ELSE prog' = [prog EXCEPT
              ![p].pc = IF haslog THEN "recover" ELSE "map",
              ![p].log = logstate]
    /\ UNCHANGED <<image, haslog, damage, bounds, hurt>>

\* recover_journal(): the early return, or replay() up to its finalization,
\* which on a read-only image fails at its first write.
recover_skip(p) ==
    /\ At(p, "recover") /\ prog[p].log = "LOGREDONE"
    /\ Goto(p, "map")
    /\ hurt' = hurt \cup (IF torn THEN {"skipped"} ELSE {})
    /\ UNCHANGED <<image, haslog, damage, bounds>>

recover_replay(p) ==
    /\ At(p, "recover") /\ prog[p].log # "LOGREDONE"
    /\ IF writable(prog[p].kind)
       THEN /\ write_blocks(IF torn THEN {"redo"} ELSE {})
            /\ torn' = FALSE
            /\ Goto(p, "redone")
       ELSE Exit(p) /\ UNCHANGED image
    /\ UNCHANGED <<haslog, damage, bounds, hurt>>

\* replay() writes LOGREDONE, write_super() writes it once more.
recover_finalize(p) ==
    /\ At(p, "redone")
    /\ write_log_state("LOGREDONE")
    /\ Goto(p, "redo_sync")
    /\ UNCHANGED <<torn, haslog, damage, bounds, hurt>>

\* Mutant of recover_sync: the sync after the replay is missing.
recover_no_sync(p) ==
    /\ At(p, "redo_sync")
    /\ Goto(p, "map")
    /\ UNCHANGED <<image, haslog, damage, bounds, hurt>>

recover_sync(p) ==
    /\ At(p, "redo_sync")
    /\ sync_all
    /\ Goto(p, "map")
    /\ UNCHANGED <<torn, haslog, damage, bounds, hurt>>

AfterOpen == [mount |-> "root", mount_ro |-> "spawn", read_only |-> "check",
              repair |-> "check_repair", replay |-> "replayed",
              dump |-> "dump"]

\* BlockAllocMap::new(), and where the program goes with the open volume.
\* Only a writable mount uses the log again.
load_map(p) ==
    /\ At(p, "map")
    /\ IF "map" \in damage
       THEN Exit(p)
       ELSE prog' = [prog EXCEPT
              ![p].pc = AfterOpen[prog[p].kind],
              ![p].log = IF prog[p].kind = "mount" THEN @ ELSE Idle.log]
    /\ UNCHANGED <<image, haslog, damage, bounds, hurt>>

-----------------------------------------------------------------------------
(* The mount.                                                              *)

root_is_sound == "root" \notin damage

\* The root inode is read, is a directory, and its dtree parses.
validate_root(p) ==
    /\ At(p, "root")
    /\ IF root_is_sound THEN Goto(p, "mark") ELSE Exit(p)
    /\ UNCHANGED <<image, haslog, damage, bounds, hurt>>

mark_dirty(p) ==
    /\ At(p, "mark")
    /\ write_state("FM_DIRTY")
    /\ Goto(p, "mark_flush")
    /\ UNCHANGED <<torn, haslog, damage, bounds, hurt>>

\* Mutant of mark_flush: FM_DIRTY is not flushed.
mark_flush_none(p) ==
    /\ At(p, "mark_flush")
    /\ Goto(p, "spawn")
    /\ UNCHANGED <<image, haslog, damage, bounds, hurt>>

mark_flush(p) ==
    /\ At(p, "mark_flush")
    /\ sync_all
    /\ Goto(p, "spawn")
    /\ UNCHANGED <<torn, haslog, damage, bounds, hurt>>

\* spawn_mount() may fail; FM_DIRTY then stays behind.
spawn_mount(p) ==
    /\ At(p, "spawn")
    /\ Goto(p, "serving") \/ Exit(p)
    /\ UNCHANGED <<image, haslog, damage, bounds, hurt>>

\* Volume::commit_transaction() of a handler: the journal with its sync and
\* then the logsuper, whose state is the one read at the open; the blocks;
\* flush_metadata(); the allocation map.
commit_journal(p) ==
    /\ At(p, "serving") /\ prog[p].kind = "mount" /\ ~prog[p].left
    /\ commits < MaxCommits /\ commits' = commits + 1
    /\ IF haslog
       THEN /\ logstate' = prog[p].log
            /\ logstate_dur' = {logstate, prog[p].log}
            /\ fsstate_dur' = {fsstate} /\ unsynced' = {}
            /\ UNCHANGED fsstate
       ELSE sync_all
    /\ Goto(p, "home")
    /\ UNCHANGED <<torn, haslog, damage, faults, hurt>>

\* write_block() of the first dirty page and of the others.
commit_home(p) ==
    /\ At(p, "home")
    /\ write_blocks({"home"})
    /\ torn' = TRUE
    /\ Goto(p, "home_rest")
    /\ UNCHANGED <<haslog, damage, bounds, hurt>>

commit_rest(p) ==
    /\ At(p, "home_rest")
    /\ write_blocks({"home"})
    /\ torn' = (hurt \cap {"skipped", "failed"} # {})
    /\ Goto(p, "home_flush")
    /\ UNCHANGED <<haslog, damage, bounds, hurt>>

commit_flush(p) ==
    /\ At(p, "home_flush")
    /\ sync_all
    /\ Goto(p, "bmap")
    /\ UNCHANGED <<torn, haslog, damage, bounds, hurt>>

commit_map(p) ==
    /\ At(p, "bmap")
    /\ write_blocks({"map"})
    /\ Goto(p, "serving")
    /\ UNCHANGED <<torn, haslog, damage, bounds, hurt>>

\* A handler returns an error between begin and commit and leaves its
\* transaction open with its dirty pages.
operation_fails(p) ==
    /\ At(p, "serving") /\ prog[p].kind = "mount" /\ ~prog[p].left
    /\ prog' = [prog EXCEPT ![p].left = TRUE]
    /\ UNCHANGED <<image, haslog, damage, bounds, hurt>>

\* sync(): flush_all(), the open transaction, the log, the map, sync().
sync(p) ==
    /\ At(p, "serving") /\ prog[p].kind = "mount"
    /\ sync_all
    /\ prog' = [prog EXCEPT ![p].left = FALSE]
    /\ hurt' = hurt \cup (IF prog[p].left THEN {"left"} ELSE {})
    /\ UNCHANGED <<torn, haslog, damage, bounds>>

-----------------------------------------------------------------------------
(* The end of a mount.                                                     *)

\* handle_sigint().
handle_sigint(p) ==
    /\ prog[p].pc \in ServePcs \cup UmountPcs \cup {"parked"}
    /\ ~prog[p].signalled
    /\ prog' = [prog EXCEPT ![p].signalled = TRUE]
    /\ UNCHANGED <<image, haslog, damage, bounds, hurt>>

\* A mount whose session is over: main() waits for the signal.
AfterDestroy(p) == IF prog[p].signalled THEN Exit(p) ELSE Goto(p, "parked")

\* Mutant of leaves_loop: the signal is not looked at.
stays_in_loop(p) == FALSE

leaves_loop(p) == prog[p].signalled

\* The session ends, because main() has left its loop and drops it or
\* because the file system is unmounted from outside, and calls destroy(),
\* which runs umount() on a writable volume.
destroy(p) ==
    /\ At(p, "serving")
    /\ IF prog[p].kind = "mount" THEN Goto(p, "umount") ELSE AfterDestroy(p)
    /\ UNCHANGED <<image, haslog, damage, bounds, hurt>>

drop_session(p) == leaves_loop(p) /\ destroy(p)
unmounted_outside(p) == ~prog[p].signalled /\ destroy(p)

leave_parked(p) ==
    /\ At(p, "parked") /\ leaves_loop(p)
    /\ Exit(p)
    /\ UNCHANGED <<image, haslog, damage, bounds, hurt>>

umount_pages(p) ==
    /\ At(p, "umount")
    /\ write_blocks(IF prog[p].left THEN {"home"} ELSE {})
    /\ hurt' = hurt \cup (IF prog[p].left THEN {"left"} ELSE {})
    /\ Goto(p, "umount_log")
    /\ UNCHANGED <<torn, haslog, damage, bounds>>

umount_log(p) ==
    /\ At(p, "umount_log")
    /\ IF haslog
       THEN sync_all
       ELSE write_blocks({})
    /\ Goto(p, "umount_map")
    /\ UNCHANGED <<torn, haslog, damage, bounds, hurt>>

umount_map(p) ==
    /\ At(p, "umount_map")
    /\ write_blocks({"map"})
    /\ Goto(p, "umount_mark")
    /\ UNCHANGED <<torn, haslog, damage, bounds, hurt>>

umount_mark(p) ==
    /\ At(p, "umount_mark")
    /\ write_state("FM_CLEAN")
    /\ Goto(p, "umount_flush")
    /\ UNCHANGED <<torn, haslog, damage, bounds, hurt>>

umount_flush(p) ==
    /\ At(p, "umount_flush")
    /\ sync_all
    /\ AfterDestroy(p)
    /\ UNCHANGED <<torn, haslog, damage, bounds, hurt>>

-----------------------------------------------------------------------------
(* jfsck.                                                                  *)

\* Mutant of has_structural_errors: the report is not looked at.
reports_nothing == FALSE

\* check_consistent() reports an error: the root, or what its entries name.
has_structural_errors == damage \cap {"root", "child"} # {}

\* The report is printed.
cmd_read_only(p) ==
    /\ At(p, "check")
    /\ Exit(p)
    /\ UNCHANGED <<image, haslog, damage, bounds, hurt>>

\* Up to set_fs_state(): the state is the one the open has read.
cmd_repair(p) ==
    /\ At(p, "check_repair")
    /\ IF prog[p].seen = "FM_DIRTY" /\ ~has_structural_errors
       THEN Goto(p, "repair")
       ELSE Exit(p)
    /\ UNCHANGED <<image, haslog, damage, bounds, hurt>>

\* The open has replayed the log.
cmd_replay(p) ==
    /\ At(p, "replayed")
    /\ Exit(p)
    /\ UNCHANGED <<image, haslog, damage, bounds, hurt>>

\* cmd_dump_inode(), cmd_dump_xtree() and cmd_dump_dtree() on the open
\* volume; cmd_dump_journal() opens none and reads the two superblocks.
cmd_dump(p) ==
    /\ At(p, "dump")
    /\ Exit(p)
    /\ UNCHANGED <<image, haslog, damage, bounds, hurt>>

cmd_dump_journal(p) ==
    /\ At(p, "super") /\ prog[p].kind = "dump_journal"
    /\ Exit(p)
    /\ UNCHANGED <<image, haslog, damage, bounds, hurt>>

repair_mark(p) ==
    /\ At(p, "repair")
    /\ write_state("FM_CLEAN")
    /\ Goto(p, "repair_flush")
    /\ UNCHANGED <<torn, haslog, damage, bounds, hurt>>

repair_flush(p) ==
    /\ At(p, "repair_flush")
    /\ sync_all
    /\ Exit(p)
    /\ UNCHANGED <<torn, haslog, damage, bounds, hurt>>

-----------------------------------------------------------------------------
(* What goes wrong around them.                                            *)

Fault == faults < MaxFaults /\ faults' = faults + 1

\* Writes of blocks of an update.
Updates == {"home", "redo"}

\* The process or its session ends; nobody is left to sync what it wrote.
Abandoned(p) ==
    IF prog'[p].pc \in {"off", "parked"} /\ unsynced \cap Updates # {}
    THEN {"abandoned"} ELSE {}

\* An I/O error.  A program that opens, checks or repairs ends; umount()
\* returns the error, which destroy() ignores; commit() returns it to the
\* handler, with part of its blocks written if it came between them.
io_error(p) ==
    /\ Fault
    /\ \/ /\ prog[p].pc \in OpenPcs \cup (MountPcs \ {"spawn"}) \cup CheckPcs
          /\ Exit(p)
       \/ prog[p].pc \in UmountPcs /\ AfterDestroy(p)
       \/ prog[p].pc \in ServePcs \ {"serving"} /\ Goto(p, "serving")
    /\ hurt' = hurt \cup (IF At(p, "home_rest") THEN {"failed"} ELSE {})
                    \cup Abandoned(p)
    /\ UNCHANGED <<image, haslog, damage, commits>>

\* The process dies; what it has written stays in the page cache of the
\* system.
kill(p) ==
    /\ Fault /\ Running(p)
    /\ Exit(p)
    /\ hurt' = hurt \cup Abandoned(p)
    /\ UNCHANGED <<image, haslog, damage, commits>>

\* Every write since the last sync is kept or lost.
power_loss ==
    /\ Fault
    /\ prog' = [p \in Programs |-> Idle]
    /\ fsstate' \in fsstate_dur /\ fsstate_dur' = {fsstate'}
    /\ logstate' \in logstate_dur /\ logstate_dur' = {logstate'}
    /\ unsynced' = {}
    /\ torn' \in IF unsynced \cap Updates # {} THEN BOOLEAN ELSE {torn}
    /\ hurt \cap {"skipped", "failed"} # {} => (torn => torn')
    /\ UNCHANGED <<haslog, damage, commits, hurt>>

-----------------------------------------------------------------------------
\* A step the process takes by itself.
Advance(p) ==
    \/ read_super(p) \/ init_log(p) \/ recover_skip(p) \/ recover_replay(p)
    \/ recover_finalize(p) \/ recover_sync(p) \/ load_map(p)
    \/ validate_root(p) \/ mark_dirty(p) \/ mark_flush(p) \/ spawn_mount(p)
    \/ commit_home(p) \/ commit_rest(p) \/ commit_flush(p) \/ commit_map(p)
    \/ drop_session(p) \/ leave_parked(p)
    \/ umount_pages(p) \/ umount_log(p) \/ umount_map(p) \/ umount_mark(p)
    \/ umount_flush(p)
    \/ cmd_read_only(p) \/ cmd_repair(p) \/ repair_mark(p)
    \/ repair_flush(p) \/ cmd_replay(p) \/ cmd_dump(p)
    \/ cmd_dump_journal(p)

\* What users and the environment make it do.
Asked(p) ==
    \/ \E kind \in Users[p] : mount(p, kind) \/ jfsck(p, kind)
    \/ commit_journal(p) \/ operation_fails(p) \/ sync(p)
    \/ handle_sigint(p) \/ unmounted_outside(p)
    \/ io_error(p) \/ kill(p)

Next == power_loss \/ \E p \in Programs : Advance(p) \/ Asked(p)

\* A process that can go on does: its main thread and the session's threads
\* are scheduled.
Fairness == \A p \in Programs : WF_vars(Advance(p))

Spec == Init /\ [][Next]_vars /\ Fairness

-----------------------------------------------------------------------------
\* Types; and a mount that got past the open has found the superblock, the
\* geometry, the log and the map sound.
MountTypeOK ==
    /\ fsstate \in fsstate_dur /\ fsstate_dur \subseteq FsStates
    /\ logstate \in logstate_dur /\ logstate_dur \subseteq LogStates
    /\ unsynced \subseteq Updates \cup {"map"}
    /\ torn \in BOOLEAN /\ haslog \in BOOLEAN /\ damage \in Damages
    /\ prog \in [Programs -> [kind : Kinds, pc : Pcs, seen : FsStates,
                              log : LogStates, signalled : BOOLEAN,
                              left : BOOLEAN]]
    /\ \A p \in Programs : prog[p].pc \in MountPcs \cup ServePcs =>
                            damage \cap OpenParts = {}
    /\ commits \in 0 .. MaxCommits /\ faults \in 0 .. MaxFaults
    /\ hurt \subseteq {"skipped", "failed", "left", "abandoned"}

\* mount_from_storage() marks the volume "to indicate a writer is active":
\* from spawn_mount() until umount() marks it clean, a power loss leaves
\* FM_DIRTY, whatever other programs open the image meanwhile.
WriterMarked ==
    \A p \in Programs :
        /\ prog[p].kind = "mount"
        /\ prog[p].pc \in {"spawn"} \cup ServePcs
                         \cup (UmountPcs \ {"umount_flush"})
        => fsstate_dur = {"FM_DIRTY"}

\* On a volume with a log, a power loss never leaves an update in part of
\* its blocks under FM_CLEAN: not in a commit, not during recovery, umount()
\* or jfsck --repair, and not after them, as long as no mount has skipped
\* the replay it needed, no commit failed between its blocks, no open
\* transaction was flushed and no program ended before its sync.
CleanIsWhole ==
    (haslog /\ hurt = {} /\ "FM_CLEAN" \in fsstate_dur) =>
        ~torn /\ unsynced \cap Updates = {}

\* A mount --ro, jfsck --read-only and the dumps change nothing on the
\* image, also where its log asks for a replay.
ReadersWriteNothing ==
    [][\A p \in Programs :
          (prog'[p] # prog[p] /\ faults' = faults
             /\ {prog[p].kind, prog'[p].kind} \subseteq ReaderKinds
             /\ \A q \in Programs \ {p} : prog'[q] = prog[q])
          => UNCHANGED image]_vars

\* jfsck --repair turns FM_DIRTY into FM_CLEAN only on a volume without a
\* reported error, and no program marks a volume that cannot be mounted.
OnlySoundMarked ==
    [][\A p \in Programs :
          (fsstate' # fsstate /\ prog'[p] # prog[p] /\ faults' = faults) =>
             /\ damage \cap (OpenParts \cup {"root"}) = {}
             /\ prog[p].kind = "repair" => "child" \notin damage]_vars

\* A writable mount that is told to stop ends, with FM_CLEAN on the device
\* unless something failed.
StopsClean ==
    \A p \in {q \in Programs : "mount" \in Users[q]} :
        (/\ prog[p].kind = "mount" /\ prog[p].signalled
         /\ prog[p].pc \in ServePcs \cup UmountPcs) ~>
            (~Running(p) /\ (faults > 0 \/ fsstate_dur = {"FM_CLEAN"}))
=============================================================================
