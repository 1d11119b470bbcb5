---------------------------- MODULE AddressSpace ----------------------------
(***************************************************************************)
(* From an ELF file to an address space: the pages of ELFPages, the tables *)
(* PageCollection.get_spec puts their frames into, and the loader, which   *)
(* maps the tables' contents (init_level_0 to init_level_3) and looks      *)
(* frames up by address (get_cdl_frame_cap).                               *)
(*                                                                         *)
(* Python has a Level for every level of tables, with the coverage of a    *)
(* table; the loader has the bits of the indices.  Level 1 is the top.  A  *)
(* table is identified by its level and the first address it covers.  The  *)
(* 32-bit version of init_vspace is in InitSystem.                         *)
(***************************************************************************)
EXTENDS ELFPages

CONSTANTS PageBits   \* seL4_PageBits

Coverage  == img.arch.coverage   \* the coverage of the levels, from the top
IndexBits == img.arch.bits       \* the bits of the index at every level
NumLevels == Len(Coverage)       \* CDL_PT_NUM_LEVELS

(* The bits of an address below the index at level l. *)
BitsBelow(bits, l) == PageBits + FoldLeft(LAMBDA a, b : a + b, 0, SubSeq(bits, l + 1, Len(bits)))
Shift(l) == BitsBelow(IndexBits, l)

ASSUME LevelsAssumption ==
    /\ PageSize = 2 ^ PageBits
    /\ \A x \in Images :
          /\ Len(x.arch.coverage) = Len(x.arch.bits) /\ Len(x.arch.bits) >= 2
          /\ \A l \in DOMAIN x.arch.bits :
                x.arch.coverage[l] = 2 ^ (BitsBelow(x.arch.bits, l) + x.arch.bits[l])

VARIABLES tables,    \* for every table, the caps in its slots
          fill,      \* the fill of every frame
          mapping,   \* the table and slot that set_mapping gives a cap
          stack,     \* the calls of init_level_N: table, base and the slots left
          mapped     \* the frames mapped, with their addresses

vars == <<img, pc, i, given, regs, k, at, pages, order, tables, fill, mapping, stack, mapped>>

Root == <<1, 0>>

Init ==
    /\ ElfInit
    /\ tables = Root :> [x \in {} |-> x]
    /\ fill = [f \in {} |-> f] /\ mapping = [f \in {} |-> f]
    /\ stack = <<>> /\ mapped = {}

LoadELF == GetPages /\ UNCHANGED <<tables, fill, mapping, stack, mapped>>
-----------------------------------------------------------------------------
BaseVaddr(l, v) == RoundDown(v, Coverage[l])
ChildIndex(l, v) == (v % Coverage[l]) \div (IF l = NumLevels THEN PageSize ELSE Coverage[l + 1])

(* The level whose tables hold frames of this size. *)
FrameLevel(size) ==
    CHOOSE l \in 1 .. NumLevels :
        /\ l = NumLevels \/ size >= Coverage[l + 1]
        /\ \A m \in 1 .. l - 1 : size < Coverage[m + 1]

TableAt(l, v) == <<l, IF l = 1 THEN 0 ELSE BaseVaddr(l, v)>>
TableCap(t) == [type |-> "table", obj |-> t]

(* Mutant of PageCap: the frames that were given do not get here. *)
PageCapMade(v) == [type |-> "frame", obj |-> <<"frame", k>>, size |-> pages[v].size,
                   rights |-> pages[v].flags, deferred |-> FALSE]

(* _get_page_cap *)
PageCap(v) ==
    IF v \in DOMAIN given THEN given[v].cap
    ELSE [type |-> "frame", obj |-> <<"frame", k>>, size |-> pages[v].size,
          rights |-> pages[v].flags, deferred |-> FALSE]

With(f, x, y) == [z \in DOMAIN f \cup {x} |-> IF z = x THEN y ELSE f[z]]

(* The slots on the way from the root to the table for the page at v. *)
Way(v, l) == {[table |-> TableAt(m - 1, v), slot |-> ChildIndex(m - 1, v), child |-> TableAt(m, v)] : m \in 2 .. l}

(* _get_page_cap asserts it. *)
SizeAsGiven(v) == v \in DOMAIN given => given[v].size = pages[v].size

(* The size is right, and a table that exists is still where it was put. *)
CanInsert(v) ==
    /\ SizeAsGiven(v)
    /\ \A w \in Way(v, FrameLevel(pages[v].size)) :
          w.child \in DOMAIN tables => tables[w.table][w.slot] = TableCap(w.child)

(* get_spec, for one page: tables that are missing are made and put into   *)
(* their parents; the frame goes into the last.  A frame that was given    *)
(* keeps the fill it has.                                                  *)
InsertPage ==
    /\ pc = "spec" /\ k <= Len(order)
    /\ LET v     == order[k]
           l     == FrameLevel(pages[v].size)
           new   == {w \in Way(v, l) : w.child \notin DOMAIN tables}
           grown == [t \in DOMAIN tables \cup {w.child : w \in new} |->
                       LET own  == IF t \in DOMAIN tables THEN tables[t] ELSE [x \in {} |-> x]
                           kids == {w \in new : w.table = t}
                       IN  [x \in DOMAIN own \cup {w.slot : w \in kids} |->
                              IF \E w \in kids : w.slot = x
                              THEN TableCap((CHOOSE w \in kids : w.slot = x).child) ELSE own[x]]]
           t     == TableAt(l, v)
           cap   == PageCap(v)
       IN  \/ /\ CanInsert(v)
              /\ tables' = [grown EXCEPT ![t] = With(@, ChildIndex(l, v), cap)]
              /\ fill' = IF cap = NoCap THEN fill
                         ELSE With(fill, cap.obj, pages[v].fill \o
                                                  (IF cap.obj \in DOMAIN fill THEN fill[cap.obj] ELSE <<>>))
              /\ mapping' = IF cap # NoCap /\ cap.deferred
                            THEN With(mapping, cap.obj, <<t, ChildIndex(l, v)>>) ELSE mapping
              /\ k' = k + 1
              /\ UNCHANGED pc
           \/ /\ ~CanInsert(v)
              /\ pc' = "error"
              /\ UNCHANGED <<tables, fill, mapping, k>>
    /\ UNCHANGED <<img, i, given, regs, at, pages, order, stack, mapped>>

(* The slots of a table in the spec that is printed. *)
Slots(t) == {x \in DOMAIN tables[t] : tables[t][x] # NoCap}
Call(t, base) == [table |-> t, base |-> base, slots |-> Slots(t)]

SpecDone ==
    /\ pc = "spec" /\ k > Len(order)
    /\ pc' = "map" /\ stack' = <<Call(Root, 0)>>
    /\ UNCHANGED <<img, i, given, regs, k, at, pages, order, tables, fill, mapping, mapped>>
-----------------------------------------------------------------------------
SlotBase(call, slot) == call.base + slot * 2 ^ Shift(call.table[1])

(* init_level_N: the next slot of the table.  A frame is mapped (map_page) *)
(* and the slots of a table below are next.                                *)
MapSlot ==
    /\ pc = "map" /\ stack # <<>>
    /\ LET call == Head(stack)
           slot == Min(call.slots)
           cap  == tables[call.table][slot]
           base == SlotBase(call, slot)
           rest == <<[call EXCEPT !.slots = @ \ {slot}]>> \o Tail(stack)
       IN  /\ call.slots # {}
           /\ \/ /\ cap.type = "frame"
                 /\ mapped' = mapped \cup {[vaddr |-> base, cap |-> cap]}
                 /\ stack' = rest
              \/ /\ cap.type = "table"
                 /\ stack' = <<Call(cap.obj, base)>> \o rest
                 /\ UNCHANGED mapped
    /\ UNCHANGED <<img, pc, i, given, regs, k, at, pages, order, tables, fill, mapping>>

(* The end of the loop over a table's slots, and of init_vspace. *)
MapReturn ==
    /\ pc = "map" /\ stack # <<>> /\ Head(stack).slots = {}
    /\ stack' = Tail(stack)
    /\ pc' = IF Tail(stack) = <<>> THEN "done" ELSE pc
    /\ UNCHANGED <<img, i, given, regs, k, at, pages, order, tables, fill, mapping, mapped>>

Next == LoadELF \/ InsertPage \/ SpecDone \/ MapSlot \/ MapReturn
        \/ (pc \in {"done", "error"} /\ UNCHANGED vars)

Spec == Init /\ [][Next]_vars
-----------------------------------------------------------------------------
(* PML4_SLOT, PGD_SLOT, PUD_SLOT, PDPT_SLOT, PD_SLOT, PT_SLOT *)
SlotOf(v, l) == (v \div 2 ^ Shift(l)) % 2 ^ IndexBits[l]

(* get_cap_at, NoCap for NULL.  A frame has no slots. *)
CapAt(cap, slot) ==
    IF cap.type = "table" /\ slot \in Slots(cap.obj) THEN tables[cap.obj][slot] ELSE NoCap

(* Mutant of Lookup: large frames are not expected. *)
LookupSmall(v) ==
    LET cap[l \in 0 .. NumLevels] ==
            IF l = 0 THEN TableCap(Root)
            ELSE LET up == cap[l - 1] IN IF up = NoCap THEN NoCap ELSE CapAt(up, SlotOf(v, l))
    IN  cap[NumLevels]

(* get_cdl_frame_cap: down to the last but one level, where the cap may    *)
(* already be that of a large frame.  NoCap: the loader stops.             *)
Lookup(v) ==
    LET cap[l \in 0 .. NumLevels] ==
            IF l = 0 THEN TableCap(Root)
            ELSE LET up == cap[l - 1]
                 IN  IF up = NoCap THEN NoCap
                     ELSE IF l = NumLevels /\ up.type = "frame" THEN up
                     ELSE CapAt(up, SlotOf(v, l))
    IN  cap[NumLevels]
-----------------------------------------------------------------------------
(* The byte at offset o of a frame after its fills: an offset in the file, *)
(* or -1 for zero.                                                         *)
Byte(f, o) ==
    LET hits == {n \in DOMAIN fill[f] : o \in fill[f][n].dest .. fill[f][n].dest + fill[f][n].len - 1}
    IN  IF hits = {} THEN -1 ELSE fill[f][Max(hits)].src + o - fill[f][Max(hits)].dest

Memory(s) == s.vaddr .. s.vaddr + s.memsz - 1
Loaded == UNION {Memory(img.segs[n]) : n \in DOMAIN img.segs}
Covering(v) == {m \in mapped : v \in m.vaddr .. m.vaddr + m.cap.size - 1}
Guarded(v) == \E a \in DOMAIN given : given[a].cap = NoCap /\ v \in a .. a + given[a].size - 1

(* Segments share pages, are promoted to large frames, are cut by given    *)
(* frames and end in zeros: after loading, every byte of every segment is  *)
(* mapped exactly once, and has its value in the file or is zero; and a    *)
(* page that the tool makes has the permissions of the segments in it, all *)
(* of them and no others.                                                  *)
SegmentsIn(m) ==
    {n \in DOMAIN img.segs : Memory(img.segs[n]) \cap (m.vaddr .. m.vaddr + m.cap.size - 1) # {}}
ImageLoaded ==
    pc = "done" =>
        /\ \A n \in DOMAIN img.segs :
              LET s == img.segs[n]
              IN  \A v \in {x \in Memory(s) : ~Guarded(x)} :
                      /\ Cardinality(Covering(v)) = 1
                      /\ \A m \in Covering(v) :
                            Byte(m.cap.obj, v - m.vaddr) =
                                IF v - s.vaddr < s.filesz THEN s.offset + v - s.vaddr ELSE -1
        /\ \A m \in {x \in mapped : x.vaddr \notin DOMAIN given} :
              m.cap.rights = UNION {img.segs[n].flags : n \in SegmentsIn(m)}

(* A frame given for a symbol is mapped at the symbol with the rights it   *)
(* was given with, and its cap in a CNode refers to the slot it was mapped *)
(* from; nothing is mapped where no frame was given.                       *)
GivenFramesMapped ==
    pc = "done" =>
        \A v \in DOMAIN given \cap Loaded :
            IF given[v].cap = NoCap
            THEN \A x \in v .. v + given[v].size - 1 : Covering(x) = {}
            ELSE /\ [vaddr |-> v, cap |-> given[v].cap] \in mapped
                 /\ given[v].cap.deferred =>
                       tables[mapping[given[v].cap.obj][1]][mapping[given[v].cap.obj][2]] = given[v].cap

(* The loader's two walks agree: a frame that is looked up is the one that *)
(* is mapped there; and the loader stops only if nothing is mapped, or if  *)
(* the frame is not in the first of its slots or above the last two        *)
(* levels.                                                                 *)
LookupAgrees ==
    pc = "done" =>
        \A v \in 0 .. Coverage[1] - 1 :
            LET cap == Lookup(v)
            IN  IF cap # NoCap
                THEN \E m \in Covering(v) : m.cap = cap
                ELSE \A m \in Covering(v) :
                        \/ FrameLevel(m.cap.size) < NumLevels - 1
                        \/ v >= m.vaddr + 2 ^ Shift(FrameLevel(m.cap.size))
=============================================================================
