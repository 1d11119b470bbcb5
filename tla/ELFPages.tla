------------------------------ MODULE ELFPages ------------------------------
(***************************************************************************)
(* python-capdl: ELF.get_pages, which divides the segments of an ELF file  *)
(* into the pages of an address space, with AddressSpaceAllocator, which   *)
(* says which frames to use for some of its symbols.                       *)
(*                                                                         *)
(* An image has segments with an address, sizes in memory and in the file, *)
(* an offset in the file and flags; symbols with an address, a size, and   *)
(* the sizes of and the caps to their frames (NoCap for a page that must   *)
(* not be mapped); says whether large frames may be used; and is for an    *)
(* architecture with certain sizes of frames (page_sizes).                 *)
(***************************************************************************)
EXTENDS Integers, Sequences, FiniteSets, SequencesExt

CONSTANTS Images,
          PageSize,    \* PAGE_SIZE
          NoCap

ASSUME PageAssumption ==
    PageSize \in Nat \ {0} /\ \A x \in Images : PageSize \in x.arch.sizes

VARIABLES img,
          pc, i,     \* the phase, and the symbol or segment
          given,     \* _regions of the allocator: size and cap of an address
          regs, k,   \* the regions of the segment, and the section or region
          at,        \* vaddr in a region
          pages,     \* PageCollection._pages
          order      \* the addresses of the pages as they were added

ElfInit ==
    /\ img \in Images
    /\ pc = "symbols" /\ i = 1 /\ k = 1 /\ at = 0
    /\ given = [v \in {} |-> v] /\ pages = [v \in {} |-> v]
    /\ regs = <<>> /\ order = <<>>

(* A failed assertion. *)
ElfError == pc' = "error" /\ UNCHANGED <<img, i, given, regs, k, at, pages, order>>

Goto(p) == pc' = p
-----------------------------------------------------------------------------
(* The frames of the symbols, in the order of their addresses. *)
SumTo(sizes, n) == FoldLeft(LAMBDA a, b : a + b, 0, SubSeq(sizes, 1, n))
FramesOf(sym) ==
    [n \in DOMAIN sym.sizes |-> [vaddr |-> sym.vaddr + SumTo(sym.sizes, n - 1),
                                 size |-> sym.sizes[n], cap |-> sym.caps[n]]]
existing_pages == SortSeq(img.syms, LAMBDA a, b : a.vaddr < b.vaddr)
Frames == FlattenSeq([n \in DOMAIN img.syms |-> FramesOf(existing_pages[n])])

CheckAlignment(sym) == \A n \in DOMAIN sym.sizes : FramesOf(sym)[n].vaddr % sym.sizes[n] = 0
Addresses(sym) == {FramesOf(sym)[n].vaddr : n \in DOMAIN sym.sizes}

SymbolAccepted(sym) ==
    /\ sym.size >= SumTo(sym.sizes, Len(sym.sizes))
    /\ CheckAlignment(sym)
    /\ Addresses(sym) \cap DOMAIN given = {}

(* add_region_with_caps, for the symbols that were given frames. *)
AddRegionWithCaps ==
    LET sym == existing_pages[i]
    IN  /\ pc = "symbols" /\ i <= Len(img.syms)
        /\ \/ /\ SymbolAccepted(sym)
              /\ given' = [v \in DOMAIN given \cup Addresses(sym) |->
                             IF v \in DOMAIN given THEN given[v]
                             ELSE LET n == CHOOSE m \in DOMAIN sym.sizes : FramesOf(sym)[m].vaddr = v
                                  IN  [size |-> sym.sizes[n], cap |-> sym.caps[n]]]
              /\ i' = i + 1
              /\ UNCHANGED <<img, pc, regs, k, at, pages, order>>
           \/ ~SymbolAccepted(sym) /\ ElfError

SymbolsDone ==
    /\ pc = "symbols" /\ i > Len(img.syms)
    /\ Goto("segments") /\ i' = 1
    /\ UNCHANGED <<img, given, regs, k, at, pages, order>>
-----------------------------------------------------------------------------
seg == img.segs[i]
seg_end == seg.vaddr + seg.memsz

(* regions_in_segment *)
Skipped(f) == f.vaddr >= seg_end \/ f.vaddr + f.size < seg.vaddr
InSegment(f) == f.vaddr >= seg.vaddr /\ f.vaddr + f.size <= seg_end
RegionsInSegment == SelectSeq(Frames, LAMBDA f : ~Skipped(f))

StartSegment ==
    /\ pc = "segments" /\ i <= Len(img.segs)
    /\ \/ /\ seg.memsz = 0
          /\ i' = i + 1
          /\ UNCHANGED <<img, pc, given, regs, k, at, pages, order>>
       \/ /\ seg.memsz # 0
          /\ \A n \in DOMAIN RegionsInSegment : InSegment(RegionsInSegment[n])
          /\ regs' = <<[addr |-> seg.vaddr, size |-> seg.memsz, section |-> FALSE]>>
          /\ k' = 1
          /\ Goto("split")
          /\ UNCHANGED <<img, i, given, at, pages, order>>
       \/ /\ seg.memsz # 0
          /\ \E n \in DOMAIN RegionsInSegment : ~InSegment(RegionsInSegment[n])
          /\ ElfError

(* The binary search for the region with the address v; 0 for None. *)
Search(v) ==
    LET find[s \in 1 .. Len(regs) + 1, e \in 0 .. Len(regs)] ==
            LET m == s + (e - s) \div 2
            IN  IF s > e THEN 0
                ELSE IF v >= regs[m].addr + regs[m].size THEN find[m + 1, e]
                ELSE IF v < regs[m].addr THEN find[s, m - 1]
                ELSE m
    IN  find[1, Len(regs)]

(* What is left of the region r after the section f. *)
After(r, f) == r.addr + r.size - f.vaddr - f.size

(* A region is cut into what precedes the section, the section, and what   *)
(* follows it.                                                             *)
SplitRegion ==
    /\ pc = "split" /\ k <= Len(RegionsInSegment)
    /\ LET f == RegionsInSegment[k]
           m == Search(f.vaddr)
       IN  \/ /\ m # 0
              /\ LET r    == regs[m]
                     cut  == [regs EXCEPT ![m].size = f.vaddr - r.addr]
                     sec  == [addr |-> f.vaddr, size |-> f.size, section |-> TRUE]
                     rest == [addr |-> f.vaddr + f.size, size |-> After(r, f), section |-> FALSE]
                 IN  regs' = Append(cut, sec) \o (IF After(r, f) # 0 THEN <<rest>> ELSE <<>>)
              /\ k' = k + 1
              /\ UNCHANGED <<img, pc, i, given, at, pages, order>>
           \/ m = 0 /\ ElfError

RoundDown(v, a) == (v \div a) * a

(* The next region, or the next segment. *)
GotoRegion(n) ==
    /\ IF n <= Len(regs)
       THEN /\ Goto("pages") /\ k' = n
            /\ at' = IF regs[n].section THEN regs[n].addr ELSE RoundDown(regs[n].addr, PageSize)
            /\ UNCHANGED i
       ELSE Goto("segments") /\ i' = i + 1 /\ UNCHANGED <<k, at>>
    /\ UNCHANGED <<img, given, regs>>

SplitDone ==
    /\ pc = "split" /\ k > Len(RegionsInSegment)
    /\ GotoRegion(1)
    /\ UNCHANGED <<pages, order>>
-----------------------------------------------------------------------------
Lower(a, b) == IF a <= b THEN a ELSE b

(* Mutant of FillLength: the zeros at the end of a segment are read from   *)
(* the file.                                                               *)
FillLengthToEnd(dest, size, from) == Lower(size - dest, seg.memsz - from)

FillLength(dest, size, from) == Lower(size - dest, seg.filesz - from)

(* compute_elf_fill_frame.  A page is rounded down to less than a page     *)
(* below the segment, so that dest < size always holds, as it asserts.     *)
ElfFill(v, size) ==
    LET dest == IF v >= seg.vaddr THEN 0 ELSE seg.vaddr - v
        from == v + dest - seg.vaddr
    IN  IF from >= seg.filesz THEN <<>>
        ELSE <<[dest |-> dest, len |-> FillLength(dest, size, from), src |-> seg.offset + from]>>

(* The permissions of a page only grow. *)
Upgraded(old, new) == old \cup new

(* add_page *)
AddPage(v, flags, size, fill) ==
    LET old == IF v \in DOMAIN pages THEN pages[v] ELSE [flags |-> {}, size |-> PageSize, fill |-> <<>>]
    IN  /\ pages' = [x \in DOMAIN pages \cup {v} |->
                       IF x = v THEN [flags |-> Upgraded(old.flags, flags), size |-> size, fill |-> old.fill \o fill]
                       ELSE pages[x]]
        /\ order' = IF v \in DOMAIN pages THEN order ELSE Append(order, v)

AddSection ==
    /\ pc = "pages" /\ regs[k].section
    /\ AddPage(at, seg.flags, regs[k].size, ElfFill(at, regs[k].size))
    /\ GotoRegion(k + 1)

Promoted(p, remain) == remain >= p /\ at % p = 0

(* The largest page that is aligned and fits, or a small one. *)
Promotion ==
    LET remain == regs[k].addr + regs[k].size - at
        large  == {p \in img.arch.sizes : img.large /\ Promoted(p, remain)}
    IN  IF large = {} THEN PageSize ELSE Max(large)

AddPages ==
    /\ pc = "pages" /\ ~regs[k].section
    /\ at < regs[k].addr + regs[k].size
    /\ AddPage(at, seg.flags, Promotion, ElfFill(at, Promotion))
    /\ at' = at + Promotion
    /\ UNCHANGED <<img, pc, i, given, regs, k>>

RegionDone ==
    /\ pc = "pages" /\ ~regs[k].section
    /\ at >= regs[k].addr + regs[k].size
    /\ GotoRegion(k + 1)
    /\ UNCHANGED <<pages, order>>

(* get_pages returns. *)
PagesDone ==
    /\ pc = "segments" /\ i > Len(img.segs)
    /\ Goto("spec") /\ k' = 1
    /\ UNCHANGED <<img, i, given, regs, at, pages, order>>

GetPages == AddRegionWithCaps \/ SymbolsDone \/ StartSegment \/ SplitRegion \/ SplitDone
            \/ AddSection \/ AddPages \/ RegionDone \/ PagesDone
=============================================================================
