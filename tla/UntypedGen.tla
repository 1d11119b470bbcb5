----------------------------- MODULE UntypedGen -----------------------------
(***************************************************************************)
(* cdl_utils: untyped_gen.py, which predicts the untypeds that the kernel  *)
(* will give to the initial task: the memory of the machine without the    *)
(* images that are loaded, and the devices, cut into aligned powers of     *)
(* two.  Its list is what capdl_linker gives to BestFitAllocator.          *)
(***************************************************************************)
EXTENDS Naturals, Sequences, FiniteSetsExt, Powers, Ordered

CONSTANTS Inputs,            \* memory, devices, reserved regions, paddr_top
          MinBits, MaxBits   \* seL4_Value_MinUntypedBits, seL4_Value_MaxUntypedBits

Extents == {r \in [start : Nat, end : Nat] : r.start <= r.end}
Apart(r, s) == r.end <= s.start \/ s.end <= r.start

(* What the platform description and the images are: no memory or device   *)
(* region overlaps another one, the kernel and the device tree behind it   *)
(* are in order, and at most one of them is empty.                         *)
GoodMachine(x) ==
    /\ x.memory \in Seq(Extents) /\ x.devices \in Seq(Extents) /\ x.reserved \in Seq(Extents)
    /\ x.top \in Nat
    /\ LET all == x.memory \o x.devices
       IN  \A i, j \in DOMAIN all : i # j => Apart(all[i], all[j])
    /\ \A i, j \in DOMAIN x.reserved :
          /\ i < j => x.reserved[i].end <= x.reserved[j].start
          /\ x.reserved[i].start = x.reserved[i].end /\ x.reserved[j].start = x.reserved[j].end => i = j

ASSUME InputsAssumption == \A x \in Inputs : GoodMachine(x)

ASSUME BitsAssumption == MinBits \in Nat /\ MaxBits \in Nat /\ MinBits < MaxBits

VARIABLES in,
          gen,                   \* where the program is
          available, reserved,   \* init_freemem: the two queues
          freemem,               \* init_freemem: the result
          regions,               \* the regions that have not been cut
          untyped                \* the list that is written

genVars == <<in, gen, available, reserved, freemem, regions, untyped>>

Region(a, b) == [start |-> a, end |-> b]
Least(a, b) == IF a <= b THEN a ELSE b

Below(r, top) == Region(Least(r.start, top), Least(r.end, top))

(* main trims memory to paddr_top, leaves out what is empty then, and      *)
(* keeps the rest in a SortedList.                                         *)
Trimmed ==
    LET left   == {r \in {Below(in.memory[i], in.top) : i \in DOMAIN in.memory} : r.start # r.end}
        starts == InOrder({r.start : r \in left})
    IN  [k \in DOMAIN starts |-> CHOOSE r \in left : r.start = starts[k]]

GenInit ==
    /\ in \in Inputs
    /\ gen = "freemem"
    /\ available = Trimmed /\ reserved = in.reserved
    /\ freemem = <<>> /\ regions = <<>> /\ untyped = <<>>
-----------------------------------------------------------------------------
(* init_freemem: one round of its loop is one of the actions below.  An    *)
(* empty reserved region is taken from the queue before the tests, whose   *)
(* reserved[0] is then the next one, if there is one.                      *)

A == Head(available)
Rest == IF Head(reserved).start = Head(reserved).end THEN Tail(reserved) ELSE reserved
R == Head(Rest)

Round ==
    /\ gen = "freemem" /\ available # <<>> /\ reserved # <<>>
    /\ UNCHANGED <<in, regions, untyped>>

SkipAvailable ==
    /\ Round /\ A.start >= A.end
    /\ available' = Tail(available) /\ reserved' = Rest
    /\ UNCHANGED <<gen, freemem>>

Compare == Round /\ A.start < A.end /\ Rest # <<>>

(* reserved[0] of the empty queue: an IndexError. *)
NothingReserved ==
    /\ Round /\ A.start < A.end /\ Rest = <<>>
    /\ gen' = "error"
    /\ UNCHANGED <<available, reserved, freemem>>

SkipReserved ==
    /\ Compare /\ R.end <= A.start
    /\ reserved' = Tail(Rest)
    /\ UNCHANGED <<gen, available, freemem>>

(* Mutant of TakeRegion: the region is dropped. *)
TakeRegionDrops ==
    /\ Compare /\ R.end > A.start /\ R.start >= A.end
    /\ available' = Tail(available) /\ reserved' = Rest
    /\ UNCHANGED <<gen, freemem>>

TakeRegion ==
    /\ Compare /\ R.end > A.start /\ R.start >= A.end
    /\ freemem' = Append(freemem, A)
    /\ available' = Tail(available) /\ reserved' = Rest
    /\ UNCHANGED gen

Overlapping == Compare /\ R.end > A.start /\ R.start < A.end

TrimStart ==
    /\ Overlapping /\ R.start <= A.start
    /\ available' = [available EXCEPT ![1].start = Least(A.end, R.end)]
    /\ reserved' = Tail(Rest)
    /\ UNCHANGED <<gen, freemem>>

TakeChunk ==
    /\ Overlapping /\ R.start > A.start
    /\ freemem' = Append(freemem, Region(A.start, R.start))
    /\ \/ /\ A.end > R.end
          /\ available' = [available EXCEPT ![1].start = R.end]
          /\ reserved' = Tail(Rest)
       \/ /\ A.end <= R.end
          /\ available' = Tail(available)
          /\ reserved' = Rest
    /\ UNCHANGED gen

Cuttable(list, d) == [i \in DOMAIN list |-> [start |-> list[i].start, end |-> list[i].end, device |-> d]]

EndFreemem ==
    /\ gen = "freemem" /\ (available = <<>> \/ reserved = <<>>)
    /\ gen' = "cut"
    /\ freemem' = freemem \o available
    /\ regions' = Cuttable(freemem', FALSE) \o Cuttable(in.devices, TRUE)
    /\ UNCHANGED <<in, available, reserved, untyped>>
-----------------------------------------------------------------------------
(* create_untypeds_for_region *)

(* bit_length() - 1 and ctz *)
FloorBits(n) == Max({k \in 0 .. n : Pow2[k] <= n})
Ctz(n) == Max({k \in 0 .. n : n % Pow2[k] = 0})

SizeBits(r) ==
    Min({FloorBits(r.end - r.start), MaxBits}
        \cup (IF r.start > 0 THEN {Ctz(r.start)} ELSE {}))

(* Mutant of Kept: the smallest size that is kept is lost too. *)
KeptIfLarger(b) == b > MinBits + 1

Kept(b) == b > MinBits

CutPiece ==
    LET r == Head(regions)
        b == SizeBits(r)
    IN  /\ gen = "cut" /\ regions # <<>> /\ r.start # r.end
        /\ untyped' = IF Kept(b)
                      THEN Append(untyped, [paddr |-> r.start, size |-> Pow2[b], device |-> r.device])
                      ELSE untyped
        /\ regions' = [regions EXCEPT ![1].start = @ + Pow2[b]]
        /\ UNCHANGED <<in, gen, available, reserved, freemem>>

NextRegion ==
    /\ gen = "cut" /\ regions # <<>> /\ Head(regions).start = Head(regions).end
    /\ regions' = Tail(regions)
    /\ UNCHANGED <<in, gen, available, reserved, freemem, untyped>>

Finish ==
    /\ gen = "cut" /\ regions = <<>>
    /\ gen' = "done"
    /\ UNCHANGED <<in, available, reserved, freemem, regions, untyped>>

Stopped == gen \in {"done", "error"}

GenStep == \/ SkipAvailable \/ NothingReserved \/ SkipReserved \/ TakeRegion \/ TrimStart
        \/ TakeChunk \/ EndFreemem \/ CutPiece \/ NextRegion \/ Finish
GenNext == GenStep \/ (Stopped /\ UNCHANGED genVars)

GenSpec == GenInit /\ [][GenNext]_genVars
-----------------------------------------------------------------------------
Addresses(list) == UNION {list[i].start .. list[i].end - 1 : i \in DOMAIN list}

(* A reserved region with nothing free just before it in an available      *)
(* region, which goes on into a later available region.                    *)
Spanning ==
    \E r \in Range(in.reserved), i, j \in DOMAIN Trimmed :
        /\ i < j
        /\ Trimmed[i].start < r.end /\ r.start < Trimmed[i].end
        /\ r.start <= Trimmed[i].start \/ r.start - 1 \in Addresses(in.reserved)
        /\ Trimmed[j].start < r.end

(* With both lists sorted, one pass over them leaves exactly the memory    *)
(* that is available and not reserved, unless a reserved region spans      *)
(* several available ones.                                                 *)
FreeIsUnreserved ==
    gen \in {"cut", "done"} /\ ~Spanning =>
        Addresses(freemem) = Addresses(Trimmed) \ Addresses(in.reserved)

Aligned ==
    \A i, j \in DOMAIN untyped :
        LET u == untyped[i]
            v == untyped[j]
        IN  /\ u.paddr % u.size = 0
            /\ i # j => u.paddr + u.size <= v.paddr \/ v.paddr + v.size <= u.paddr

BlocksKept ==
    gen = "done" =>
        LET b == Pow2[MinBits + 1]
        IN  \A r \in Range(freemem) \cup Range(in.devices) :
                \A a \in r.start .. r.end - 1 :
                    a % b = 0 /\ a + b <= r.end =>
                        \E i \in DOMAIN untyped :
                            untyped[i].paddr <= a /\ a + b <= untyped[i].paddr + untyped[i].size

(* What BestFitAllocator.add_untyped will demand of the list: every        *)
(* untyped is aligned to its size and none overlaps another.  And only     *)
(* slivers are lost: every aligned block of the smallest size that is      *)
(* kept, inside a free region or a device, is in an untyped at the end.    *)
UntypedsAccepted == Aligned /\ BlocksKept
=============================================================================
