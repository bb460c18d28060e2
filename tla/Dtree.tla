------------------------------- MODULE Dtree -------------------------------
(***************************************************************************)
(* The inline directory root of btree/dtree.rs.                            *)
(*                                                                         *)
(* A root has the slots behind its header slot, the table `stbl' of the    *)
(* slots in use (its length is nextindex; the code never sorts it) and the *)
(* chain of free slots that another mkfs may have left (freecnt,           *)
(* freelist), and the parent directory (idotdot).  Names are as long as a  *)
(* slot allows: the callers refuse longer ones.  The index of an entry is  *)
(* left out.                                                               *)
(***************************************************************************)
EXTENDS Naturals, Sequences, SequencesExt

CONSTANT DTROOTMAXSLOT   \* slots of a root, the header included

ASSUME DtreeAssumption == DTROOTMAXSLOT \in Nat \ {0, 1, 2}

DTENTRYSTART == 1
EntrySlots == DTENTRYSTART .. DTROOTMAXSLOT - 1

\* A slot of zeroes, and the reply for a name that is not there.
ZeroSlot == [name |-> "", ino |-> 0]
NoEntry == 0

LdtEntry(name, ino) == [name |-> name, ino |-> ino]

EmptyDtRoot(free, parent) ==
    [slot |-> [s \in EntrySlots |-> ZeroSlot], stbl |-> <<>>,
     free |-> free, idotdot |-> parent]

next_index(dt) == Len(dt.stbl)

entries(dt) == [k \in DOMAIN dt.stbl |-> dt.slot[dt.stbl[k]]]

\* Places of a name in the table.
PlacesOf(dt, name) == {k \in DOMAIN dt.stbl : entries(dt)[k].name = name}

lookup(dt, name) ==
    IF PlacesOf(dt, name) = {} THEN NoEntry
    ELSE entries(dt)[Min(PlacesOf(dt, name))].ino

\* The slot behind as many slots as there are entries.
next_free(dt) ==
    Min({next_index(dt) + DTENTRYSTART, DTROOTMAXSLOT - 1})

alloc_slot(dt) == IF dt.free # <<>> THEN Head(dt.free) ELSE next_free(dt)

Full(dt) == next_index(dt) >= DTROOTMAXSLOT - 1

\* Whether insert() returns true.
CanInsert(dt, name) == lookup(dt, name) = NoEntry /\ ~Full(dt)

insert(dt, name, ino) ==
    LET s == alloc_slot(dt)
    IN  [dt EXCEPT !.slot[s] = LdtEntry(name, ino),
                   !.stbl = Append(@, s),
                   !.free = IF @ # <<>> THEN Tail(@) ELSE @]

\* The table closes the gap; the slot is zeroed and not put on the free list.
remove(dt, name) ==
    IF PlacesOf(dt, name) = {} THEN dt
    ELSE LET k == Min(PlacesOf(dt, name))
         IN  [dt EXCEPT !.slot[dt.stbl[k]] = ZeroSlot,
                        !.stbl = RemoveAt(@, k)]

\* Whether insert() would write over the slot of an entry.
OverwritesEntry(dt) == alloc_slot(dt) \in Range(dt.stbl)

IsDtRoot(dt) ==
    /\ DOMAIN dt.slot = EntrySlots
    /\ \A k \in DOMAIN dt.stbl : dt.stbl[k] \in EntrySlots
    /\ next_index(dt) < DTROOTMAXSLOT
    /\ \A k \in DOMAIN dt.free : dt.free[k] \in EntrySlots
=============================================================================
