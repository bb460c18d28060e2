-------------------------- MODULE MCJournalRecovery -------------------------
(* JournalRecovery over every log of a few records.                        *)
EXTENDS JournalRecovery

CONSTANTS b1, b2

MCFsBlocks == {b1, b2}

Entry(kind, tid, agg, block, ptype, stops) ==
    [kind |-> kind, tid |-> tid, agg |-> agg, block |-> block,
     ptype |-> ptype, stops |-> stops]

Commits == {Entry("commit", t, 0, b1, "unknown", FALSE) : t \in Tids}
Mounts == {Entry("mount", 1, a, b1, "unknown", FALSE) : a \in Aggregates}
Syncpts == {Entry("syncpt", 1, 0, b1, "unknown", s) : s \in BOOLEAN}
Others == {Entry("other", 1, 0, b1, "unknown", FALSE)}
Redos(blocks, ptypes) ==
    {Entry("redopage", t, 0, b, p, FALSE) :
        t \in Tids, b \in blocks, p \in ptypes}
NoRedos(blocks) ==
    {Entry("noredopage", t, 0, b, "unknown", FALSE) :
        t \in Tids, b \in blocks}

\* Every kind of record; the mount record may be of another aggregate.
AllKinds ==
    Commits \cup Mounts \cup Syncpts \cup Others \cup NoRedos({b1})
        \cup Redos({b1}, {"inode", "data", "unknown"})
=============================================================================
