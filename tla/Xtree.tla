------------------------------- MODULE Xtree -------------------------------
(***************************************************************************)
(* The extent tree of a file (btree/xtree.rs): the inline root, a list of  *)
(* extents in the order of their slots.  Offsets and lengths are in        *)
(* blocks.  `next' is nextindex counted from XTENTRYSTART; a split can     *)
(* raise it past the slots there are, and the extents beyond are dropped.  *)
(***************************************************************************)
EXTENDS Integers, Sequences, FiniteSets, SequencesExt

CONSTANT MaxXad  \* slots of the root, XTROOTMAXSLOT - XTENTRYSTART

ASSUME MaxXadAssumption == MaxXad \in Nat \ {0}

Xad(off, len, addr) == [off |-> off, len |-> len, addr |-> addr]
EmptyRoot == [xad |-> <<>>, next |-> 0]

EndOf(x) == x.off + x.len

\* The logical and physical block pairs of an extent and of a root.
XadPairs(x) == {<<x.off + k, x.addr + k>> : k \in 0 .. x.len - 1}
Pairs(root) == UNION {XadPairs(root.xad[i]) : i \in DOMAIN root.xad}

\* The slot of the extent that lookup() returns, 0 for none.
lookup(root, fsb) ==
    SelectInSeq(root.xad, LAMBDA x : x.off <= fsb /\ fsb < EndOf(x))

\* map_blocks() reports everything from the first unmapped block to the end
\* of the range as one hole; this is where the hole starts.
HoleStart(root, fsb, len) ==
    Min({l \in fsb .. fsb + len - 1 : lookup(root, l) = 0} \cup {fsb + len})

-----------------------------------------------------------------------------
\* Storing the kept extents in the slots.
WriteBack(kept) ==
    [xad |-> SubSeq(kept, 1, IF Len(kept) > MaxXad THEN MaxXad ELSE Len(kept)),
     next |-> Len(kept)]

AppendXad(root, x) == [xad |-> Append(root.xad, x), next |-> root.next + 1]

ExtendsLast(root, off, addr) ==
    /\ root.next > 0
    /\ EndOf(root.xad[root.next]) = off
    /\ root.xad[root.next].addr + root.xad[root.next].len = addr

\* insert_extent() returns the root unchanged when it is full.
insert_extent(root, off, len, addr) ==
    CASE root.next > MaxXad -> root
      [] root.next <= MaxXad /\ ExtendsLast(root, off, addr) ->
           [root EXCEPT !.xad[root.next].len = @ + len]
      [] root.next < MaxXad /\ ~ExtendsLast(root, off, addr) ->
           AppendXad(root, Xad(off, len, addr))
      [] OTHER -> root

\* Only called while the root has a free slot.
insert_taken_extent(root, x) == AppendXad(root, x)

-----------------------------------------------------------------------------
\* The part of an extent in front of, inside and behind [start, end).
Before(x, start) ==
    IF x.off < start /\ start < EndOf(x)
    THEN <<Xad(x.off, start - x.off, x.addr)>>
    ELSE IF EndOf(x) <= start THEN <<x>> ELSE <<>>
After(x, end) ==
    IF x.off < end /\ end < EndOf(x)
    THEN <<Xad(end, EndOf(x) - end, x.addr + (end - x.off))>>
    ELSE IF x.off >= end THEN <<x>> ELSE <<>>
Inside(x, start, end) ==
    LET from == IF x.off < start THEN start ELSE x.off
        to == IF EndOf(x) > end THEN end ELSE EndOf(x)
    IN  IF from < to THEN <<Xad(from, to - from, x.addr + (from - x.off))>>
        ELSE <<>>

\* An extent that begins in front of the range and ends behind it.
Spans(x, start, end) == x.off < start /\ EndOf(x) > end

\* The right part of a spanned extent keeps the address of the freed part
\* in punch_extents(), while take_extents() adds the length of the range.
PunchedAfter(x, start, end) ==
    IF Spans(x, start, end)
    THEN <<Xad(end, EndOf(x) - end, x.addr + (start - x.off))>>
    ELSE After(x, end)

MapSlots(root, Op(_)) ==
    FlattenSeq([i \in DOMAIN root.xad |-> Op(root.xad[i])])

\* Mutant of truncate_extents: the straddling extent is freed as a whole.
truncate_whole(root, eof) ==
    [root  |-> WriteBack(MapSlots(root, LAMBDA x : Before(x, eof))),
     freed |-> SelectSeq(root.xad, LAMBDA x : EndOf(x) > eof)]

truncate_extents(root, eof) ==
    [root  |-> WriteBack(MapSlots(root, LAMBDA x : Before(x, eof))),
     freed |-> MapSlots(root, LAMBDA x :
                  IF EndOf(x) > eof THEN Inside(x, eof, EndOf(x)) ELSE <<>>)]

punch_extents(root, start, end) ==
    [root  |-> WriteBack(MapSlots(root, LAMBDA x :
                  Before(x, start) \o PunchedAfter(x, start, end))),
     freed |-> MapSlots(root, LAMBDA x : Inside(x, start, end))]

take_extents(root, start, end) ==
    [root  |-> WriteBack(MapSlots(root, LAMBDA x :
                  Before(x, start) \o After(x, end))),
     taken |-> MapSlots(root, LAMBDA x : Inside(x, start, end))]
=============================================================================
