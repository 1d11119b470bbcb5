--------------------------- MODULE CreateObjects ---------------------------
(***************************************************************************)
(* capdl-loader-app: the dynamic allocator of the initial task.  It sorts  *)
(* the untypeds of the boot information, retypes one kernel object for     *)
(* each object of the capDL model, searches device memory for the objects  *)
(* that have a physical address, and turns the memory of the ASID pools    *)
(* into pools.  The kernel's part (capability slots, the watermark of an   *)
(* untyped, retype, copy, delete) is modelled from how the loader uses it. *)
(*                                                                         *)
(* Sequences count from 1 where the C arrays count from 0.  Sizes are in   *)
(* bytes, not bits.  The untypeds of the boot information are in the slots *)
(* 1..Len(untypeds) of the initial task's CNode, the empty slots follow.   *)
(***************************************************************************)
EXTENDS CreateObject

CONSTANTS
    Models,         \* the capDL models, each with the boot information it meets
    MaxObjects,     \* CONFIG_CAPDL_LOADER_MAX_OBJECTS
    PageSize,       \* BIT(seL4_PageBits)
    MaxStreamIds    \* MAX_STREAM_IDS

(* CDL_Model and seL4_BootInfo: the objects, asid_slots without the entry  *)
(* of the root thread, untypedList, and the number of empty slots.         *)
Model == [objects : Seq(Object), asid : Seq(Nat), untypeds : Seq(Untyped), slots : Nat]

ASSUME ConstantsAssumption ==
    /\ MaxObjects \in Nat
    /\ PageSize \in Nat \ {0}
    /\ ASIDPoolSize \in Nat \ {0}
    /\ MaxStreamIds \in Nat
    /\ FrameSizes \subseteq Nat

(* What PrintC.hs emits and what the kernel boots with: memory objects     *)
(* have a size, only frames and untypeds have an address, the ASID table   *)
(* names pools, all of them (getASIDPoolDerivations), and the untypeds do  *)
(* not overlap.  The loader is configured for as many objects as the model *)
(* has: add_sel4_cap does not check it.                                    *)
ASSUME ModelsAssumption ==
    \A x \in Models :
        /\ x \in Model
        /\ Len(x.objects) <= MaxObjects
        /\ \A i \in DOMAIN x.objects :
              LET o == x.objects[i]
              IN  /\ o.type \in MemoryTypes => o.size > 0
                  /\ o.type = "ASIDPool" => o.size = ASIDPoolSize
                  /\ o.paddr # 0 => o.type \in {"Frame", "Untyped"}
        /\ \A h \in DOMAIN x.asid :
              /\ x.asid[h] \in DOMAIN x.objects
              /\ x.objects[x.asid[h]].type = "ASIDPool"
        /\ \A i \in DOMAIN x.objects :
              x.objects[i].type = "ASIDPool" => \E h \in DOMAIN x.asid : x.asid[h] = i
        /\ \A u, v \in DOMAIN x.untypeds :
              u # v => \/ x.untypeds[u].paddr + x.untypeds[u].size <= x.untypeds[v].paddr
                       \/ x.untypeds[v].paddr + x.untypeds[v].size <= x.untypeds[u].paddr

VARIABLES
    pc,               \* where the loader is
    untyped_cptrs,    \* the result of sort_untypeds
    obj_id_index, ut_index, free_slot_index,  \* the loop variables of create_objects
    free_slot_start,  \* the first slot after the objects created so far
    dev, hold,        \* find_device_object: the untyped searched, "hold_slot is set"
    asid_high,        \* the loop variable of the ASID pool loop
    sid_number,       \* the next stream id
    orig,             \* capdl_to_sel4_orig, 0 where no cap is recorded
    asid_table        \* the kernel: the pools of the ASID table, in order

loopVars == <<obj_id_index, ut_index, free_slot_index>>
vars == <<m, pc, untyped_cptrs, loopVars, free_slot_start, dev, hold, asid_high,
          sid_number, orig, caps, free, asid_table>>
-----------------------------------------------------------------------------
(* sort_untypeds: a counting sort of the normal untypeds, largest first.   *)

Normal == {u \in DOMAIN m.untypeds : ~m.untypeds[u].device}
num_normal_untypes == Cardinality(Normal)

(* Mutant of StartIndex: the second pass runs from the small sizes up. *)
StartIndexAscending(s) == Cardinality({u \in Normal : m.untypeds[u].size < s})

(* count[size] when the second pass begins: the untypeds that are larger. *)
StartIndex(s) == Cardinality({u \in Normal : m.untypeds[u].size > s})

(* The index where the third pass stores the untyped u. *)
SortIndex(u) ==
    LET s == m.untypeds[u].size
    IN  1 + StartIndex(s) + Cardinality({v \in Normal : v < u /\ m.untypeds[v].size = s})

SortUntypeds ==
    [k \in DOMAIN m.untypeds |->
        IF \E u \in Normal : SortIndex(u) = k
        THEN CHOOSE u \in Normal : SortIndex(u) = k
        ELSE 0]
-----------------------------------------------------------------------------
Init ==
    /\ m \in Models
    /\ pc = "parse_bootinfo"
    /\ untyped_cptrs = [k \in DOMAIN m.untypeds |-> 0]
    /\ obj_id_index = 1 /\ ut_index = 1 /\ free_slot_index = 0
    /\ free_slot_start = Len(m.untypeds) + 1
    /\ dev = 0 /\ hold = FALSE
    /\ asid_high = 1 /\ sid_number = 0
    /\ orig = [i \in DOMAIN m.objects |-> 0]
    /\ caps = BootCaps
    /\ free = [s \in Slots |-> 0]
    /\ asid_table = <<>>

(* ZF_LOGF and assert: the loader stops where it is. *)
Abort ==
    /\ pc' = "fatal"
    /\ UNCHANGED <<m, untyped_cptrs, loopVars, free_slot_start, dev, hold, asid_high,
                   sid_number, orig, caps, free, asid_table>>

(* parse_bootinfo, and the call of sort_untypeds that opens create_objects. *)
ParseBootinfo ==
    /\ pc = "parse_bootinfo"
    /\ \/ /\ m.slots < MaxObjects
          /\ Abort
       \/ /\ m.slots >= MaxObjects
          /\ untyped_cptrs' = SortUntypeds
          /\ pc' = "create"
          /\ UNCHANGED <<m, loopVars, free_slot_start, dev, hold, asid_high,
                         sid_number, orig, caps, free, asid_table>>
-----------------------------------------------------------------------------
(* create_objects: the loop over objects and untypeds. *)

FreeSlot == free_slot_start + free_slot_index
InLoop   == obj_id_index <= Len(m.objects) /\ ut_index <= num_normal_untypes
Obj      == m.objects[obj_id_index]

IsDeviceObject(o)   == o.paddr # 0

(* The loop is at an object of one of the types T. *)
At(T) == pc = "create" /\ InLoop /\ Obj.type \in T

(* add_sel4_cap and the increments after a successful create_object: the   *)
(* cap c is in the free slot, the kernel's other slots are as in k.        *)
Created(k, c) ==
    /\ caps' = [k EXCEPT ![FreeSlot] = c]
    /\ orig' = [orig EXCEPT ![obj_id_index] = FreeSlot]
    /\ free_slot_index' = free_slot_index + 1
    /\ obj_id_index' = obj_id_index + 1
    /\ pc' = "create"
    /\ UNCHANGED <<m, untyped_cptrs, ut_index, free_slot_start, asid_high, asid_table>>

SkipObject ==
    /\ At(Types)
    /\ ~RequiresCreation(Obj.type)
    /\ obj_id_index' = obj_id_index + 1
    /\ UNCHANGED <<m, pc, untyped_cptrs, ut_index, free_slot_index, free_slot_start, dev,
                   hold, asid_high, sid_number, orig, caps, free, asid_table>>

(* I/O ports, stream ids and context banks: a control cap issues them. The *)
(* kernel may refuse (the range or the bank is taken), and it refuses a    *)
(* stream id that has been issued.                                         *)
IssuedCap == [type |-> Obj.type, base |-> IF Obj.type = "SID" THEN sid_number ELSE 0,
              size |-> 0, ut |-> 0]
SidTaken == \E s \in Slots : caps[s].type = "SID" /\ caps[s].base = sid_number
NextSid == CASE Obj.type = "SID" -> sid_number + 1
             [] Obj.type = "CB"  -> 0
             [] OTHER            -> sid_number

IssueObject ==
    /\ At(IssuedTypes)
    /\ SlotReady(FreeSlot)
    /\ Obj.type = "SID" => ~SidTaken
    /\ NextSid <= MaxStreamIds
    /\ sid_number' = NextSid
    /\ Created(caps, IssuedCap)
    /\ UNCHANGED <<dev, hold, free>>

IssueFails == At(IssuedTypes) /\ Abort

(* create_object for memory that is not device memory: retype_untyped. *)
NormalObject == At(MemoryTypes) /\ ~IsDeviceObject(Obj)
untyped_cptr == untyped_cptrs[ut_index]

RetypeUntyped ==
    LET s == KernelSize(Obj)
    IN  /\ NormalObject
        /\ ~InvalidType(Obj)
        /\ untyped_cptr # 0 /\ SlotReady(FreeSlot)
        /\ Fits(untyped_cptr, s)
        /\ free' = [free EXCEPT ![untyped_cptr] = FreeAfter(untyped_cptr, s)]
        /\ Created(caps, RetypedCap(KernelType(Obj), untyped_cptr, s))
        /\ UNCHANGED <<dev, hold, sid_number>>

(* Mutant of NextUntyped: obj_id_index goes back by one and is not advanced. *)
NextUntypedGoesBack ==
    /\ NormalObject
    /\ ~InvalidType(Obj)
    /\ untyped_cptr # 0 /\ SlotReady(FreeSlot)
    /\ ~Fits(untyped_cptr, KernelSize(Obj))
    /\ ut_index' = ut_index + 1
    /\ obj_id_index' = obj_id_index - 1
    /\ UNCHANGED <<m, pc, untyped_cptrs, free_slot_index, free_slot_start, dev,
                   hold, asid_high, sid_number, orig, caps, free, asid_table>>

(* seL4_NotEnoughMemory: the same object again, from the next untyped. *)
NextUntyped ==
    /\ NormalObject
    /\ ~InvalidType(Obj)
    /\ untyped_cptr # 0 /\ SlotReady(FreeSlot)
    /\ ~Fits(untyped_cptr, KernelSize(Obj))
    /\ ut_index' = ut_index + 1
    /\ UNCHANGED <<m, pc, untyped_cptrs, obj_id_index, free_slot_index, free_slot_start, dev,
                   hold, asid_high, sid_number, orig, caps, free, asid_table>>

RetypeFails ==
    /\ NormalObject
    /\ InvalidType(Obj) \/ untyped_cptr = 0 \/ ~SlotReady(FreeSlot)
    /\ Abort
-----------------------------------------------------------------------------
(* find_device_object. *)

DeviceObject == At(MemoryTypes) /\ IsDeviceObject(Obj)

(* Mutants of SameFrame: the address, or the size, is not compared. *)
SameSize(o, p)  == p.type = "Frame" /\ p.size = o.size
SamePaddr(o, p) == p.type = "Frame" /\ p.paddr = o.paddr

(* The frame o is the object p once more. *)
SameFrame(o, p) == p.type = "Frame" /\ p.paddr = o.paddr /\ p.size = o.size

(* The object before this one is the same frame. *)
SameAsPrevious ==
    /\ KernelType(Obj) # "Untyped"
    /\ obj_id_index > 1
    /\ SameFrame(Obj, m.objects[obj_id_index - 1])

CopyPrevious ==
    LET src == orig[obj_id_index - 1]
    IN  /\ DeviceObject
        /\ SameAsPrevious
        /\ \/ /\ src # 0 /\ SlotReady(FreeSlot)
              /\ Created(caps, caps[src])
              /\ UNCHANGED <<dev, hold, sid_number, free>>
           \/ /\ src = 0 \/ ~SlotReady(FreeSlot)
              /\ Abort

(* The untypeds of the boot information that cover the object. *)
Covering ==
    {u \in DOMAIN m.untypeds :
        /\ m.untypeds[u].paddr <= Obj.paddr
        /\ m.untypeds[u].paddr + m.untypeds[u].size >= Obj.paddr + KernelSize(Obj)}

SearchUntyped ==
    /\ DeviceObject
    /\ ~SameAsPrevious
    /\ \/ /\ Covering = {}
          /\ Abort
       \/ \E u \in Covering :
            /\ \A v \in Covering : u <= v
            /\ dev' = u
            /\ hold' = FALSE
            /\ pc' = "search"
            /\ UNCHANGED <<m, untyped_cptrs, loopVars, free_slot_start, asid_high,
                           sid_number, orig, caps, free, asid_table>>

(* One round of the while loop: retype the next object of the size wanted, *)
(* for an untyped look into it with a temporary frame two slots further.   *)
TempSlot == FreeSlot + 2
HoldSlot == FreeSlot + 1

Probed ==
    /\ pc = "search"
    /\ ~InvalidType(Obj)
    /\ SlotReady(FreeSlot)
    /\ Fits(dev, KernelSize(Obj))
    /\ KernelType(Obj) = "Untyped" => SlotReady(TempSlot) /\ KernelSize(Obj) >= PageSize

Candidate == RetypedCap(KernelType(Obj), dev, KernelSize(Obj))

(* The watermarks after the probe: of the untyped searched, and of the new *)
(* untyped in slot s, where the temporary frame was.                       *)
FreeProbed(s) ==
    [free EXCEPT ![dev] = FreeAfter(dev, KernelSize(Obj)),
                 ![s] = IF KernelType(Obj) = "Untyped" THEN PageSize ELSE 0]

(* Mutant of AtAddress: an object beyond the address is accepted. *)
AtOrBeyondAddress == Candidate.base >= Obj.paddr

AtAddress == Candidate.base = Obj.paddr

(* Mutant of FoundSlots: the held cap is not deleted. *)
FoundSlotsWithHold == caps

(* The slots once the object is found: the held cap is deleted. *)
FoundSlots == IF hold THEN [caps EXCEPT ![HoldSlot] = NullCap] ELSE caps

ProbeFound ==
    /\ Probed
    /\ AtAddress
    /\ free' = FreeProbed(FreeSlot)
    /\ Created(FoundSlots, Candidate)
    /\ dev' = 0 /\ hold' = FALSE
    /\ UNCHANGED sid_number

(* Mutants of MissedSlots: a miss is always deleted; a second miss is      *)
(* deleted together with the held one.                                     *)
MissedSlotsNoHold == caps
MissedSlotsDropHold == [caps EXCEPT ![HoldSlot] = IF hold THEN NullCap ELSE Candidate]

(* The slots after a miss: the first one is held, so that the untyped      *)
(* keeps its watermark; a later one is deleted.                            *)
MissedSlots == IF hold THEN caps ELSE [caps EXCEPT ![HoldSlot] = Candidate]

ProbeMissed ==
    /\ Probed
    /\ Candidate.base < Obj.paddr
    /\ hold \/ SlotReady(HoldSlot)
    /\ caps' = MissedSlots
    /\ free' = IF hold THEN [free EXCEPT ![dev] = FreeAfter(dev, KernelSize(Obj))]
                       ELSE FreeProbed(HoldSlot)
    /\ hold' = TRUE
    /\ UNCHANGED <<m, pc, untyped_cptrs, loopVars, free_slot_start, dev, asid_high,
                   sid_number, orig, asid_table>>

ProbeFails ==
    /\ pc = "search"
    /\ \/ ~Probed
       \/ Candidate.base > Obj.paddr
       \/ Candidate.base < Obj.paddr /\ ~hold /\ ~SlotReady(HoldSlot)
    /\ Abort
-----------------------------------------------------------------------------
(* The end of the loop, and the ASID pools. *)

LeaveLoop ==
    /\ pc = "create"
    /\ ~InLoop
    /\ pc' = IF obj_id_index # Len(m.objects) + 1 THEN "nomem" ELSE "asid"
    /\ UNCHANGED <<m, untyped_cptrs, loopVars, free_slot_start, dev, hold, asid_high,
                   sid_number, orig, caps, free, asid_table>>

(* The object whose pool is made next. *)
PoolObject == m.asid[asid_high]

(* Mutant of PoolRecorded: the table keeps the untyped. *)
UntypedRecorded == orig

(* The object is the pool from now on, no longer the untyped. *)
PoolRecorded == [orig EXCEPT ![PoolObject] = FreeSlot]

MakePool ==
    LET u == orig[PoolObject]
    IN  /\ pc = "asid"
        /\ asid_high <= Len(m.asid)
        /\ \/ /\ PoolMemory(u) /\ SlotReady(FreeSlot)
              /\ caps' = [caps EXCEPT ![FreeSlot] =
                            [type |-> "ASIDPool", base |-> caps[u].base,
                             size |-> ASIDPoolSize, ut |-> u]]
              /\ free' = [free EXCEPT ![u] = ASIDPoolSize]
              /\ asid_table' = Append(asid_table, FreeSlot)
              /\ orig' = PoolRecorded
              /\ free_slot_index' = free_slot_index + 1
              /\ asid_high' = asid_high + 1
              /\ UNCHANGED <<m, pc, untyped_cptrs, obj_id_index, ut_index, free_slot_start,
                             dev, hold, sid_number>>
           \/ /\ ~PoolMemory(u) \/ ~SlotReady(FreeSlot)
              /\ Abort

Finish ==
    /\ pc = "asid"
    /\ asid_high > Len(m.asid)
    /\ free_slot_start' = free_slot_start + free_slot_index
    /\ pc' = "done"
    /\ UNCHANGED <<m, untyped_cptrs, loopVars, dev, hold, asid_high, sid_number, orig, caps,
                   free, asid_table>>

Stopped == pc \in {"done", "nomem", "fatal"}

(* The loader goes on with the created objects, or has stopped. *)
Halt == Stopped /\ UNCHANGED vars

Step ==
    \/ ParseBootinfo
    \/ SkipObject \/ IssueObject \/ IssueFails
    \/ RetypeUntyped \/ NextUntyped \/ RetypeFails
    \/ CopyPrevious \/ SearchUntyped
    \/ ProbeFound \/ ProbeMissed \/ ProbeFails
    \/ LeaveLoop \/ MakePool \/ Finish

Next == Step \/ Halt

Spec == Init /\ [][Next]_vars

(* The loader is one thread that nothing interrupts: it keeps running. *)
FairSpec == Spec /\ WF_vars(Step)
-----------------------------------------------------------------------------
(* Properties. *)

(* Every variable has its type; caps name slots of existing untypeds. *)
TypeOK ==
    /\ m \in Model
    /\ pc \in {"parse_bootinfo", "create", "search", "asid", "done", "nomem", "fatal"}
    /\ untyped_cptrs \in [DOMAIN m.untypeds -> DOMAIN m.untypeds \cup {0}]
    /\ obj_id_index \in 1 .. Len(m.objects) + 1
    /\ ut_index \in Nat \ {0}
    /\ free_slot_index \in Nat
    /\ free_slot_start \in Nat \ {0}
    /\ dev \in DOMAIN m.untypeds \cup {0}
    /\ hold \in BOOLEAN
    /\ asid_high \in 1 .. Len(m.asid) + 1
    /\ sid_number \in Nat
    /\ orig \in [DOMAIN m.objects -> Slots \cup {0}]
    /\ caps \in [Slots -> Cap]
    /\ free \in [Slots -> Nat]
    /\ asid_table \in Seq(Slots)

(* The objects that have been given memory, and the cap of object i. *)
Made     == {i \in DOMAIN m.objects : orig[i] # 0}
MadeMem  == {i \in Made : m.objects[i].type \in MemoryTypes}
OrigCap(i) == caps[orig[i]]

(* Two objects never get overlapping memory from the watermarks, the       *)
(* search and the copy shortcut of create_objects, unless the model says   *)
(* they are the same device frame.                                         *)
NoOverlap ==
    \A i, j \in MadeMem :
        i # j => \/ OrigCap(i).base + OrigCap(i).size <= OrigCap(j).base
                 \/ OrigCap(j).base + OrigCap(j).size <= OrigCap(i).base
                 \/ /\ m.objects[i].type = "Frame" /\ m.objects[j].type = "Frame"
                    /\ IsDeviceObject(m.objects[i])
                    /\ m.objects[i].paddr = m.objects[j].paddr
                    /\ m.objects[i].size = m.objects[j].size

(* A device object that find_device_object or the copy of the previous     *)
(* object delivered is at the address the model gives.                     *)
DeviceAtPaddr ==
    \A i \in MadeMem :
        IsDeviceObject(m.objects[i]) => OrigCap(i).base = m.objects[i].paddr

(* Whenever the loader takes a free slot, that slot and the ones after it  *)
(* are empty: the hold slot and the temporary slot, which                  *)
(* find_device_object borrows without allocating them, have been given     *)
(* back, and the slots handed to the rest of the loader are unused.        *)
BorrowedSlotsReturned ==
    pc \in {"create", "asid", "done"} =>
        \A s \in Slots :
            s >= free_slot_start + (IF pc = "done" THEN 0 ELSE free_slot_index)
                => caps[s] = NullCap

(* When creation is done every object that needs a kernel object has one   *)
(* of its own, of the type the model says: in particular the entry of an   *)
(* ASID pool is the pool and no longer the untyped it was made from, and   *)
(* the pools are in the kernel's ASID table in the order of asid_slots.    *)
EveryObjectCreated ==
    pc = "done" =>
        /\ \A i \in DOMAIN m.objects :
              RequiresCreation(m.objects[i].type) =>
                 orig[i] # 0 /\ OrigCap(i).type = m.objects[i].type
        /\ \A i, j \in Made : i # j => orig[i] # orig[j]
        /\ Len(asid_table) = Len(m.asid)
        /\ \A h \in DOMAIN m.asid : asid_table[h] = orig[m.asid[h]]

(* The kernel never starts an untyped of the boot information again at its *)
(* first byte while the loader creates objects: this is what the held cap  *)
(* of find_device_object is for.                                           *)
WatermarkNeverReset ==
    [][\A u \in DOMAIN m.untypeds : free'[u] >= free[u]]_vars

(* create_objects ends: the search for a device object always gets further *)
(* in the untyped, and the main loop moves on in objects or untypeds.      *)
CreationTerminates == <>Stopped

(***************************************************************************)
(* The inductive invariant of creation, by parts.                          *)
(***************************************************************************)
Creating == pc \in {"parse_bootinfo", "create", "search"}

BootUntyped(u) == [type |-> "Untyped", base |-> m.untypeds[u].paddr,
                   size |-> m.untypeds[u].size, ut |-> 0]

(* The untypeds of the boot information stay where the kernel put them. *)
BootCapsStay == \A u \in DOMAIN m.untypeds : caps[u] = BootUntyped(u)

(* While objects are created, a cap made from an untyped of the boot       *)
(* information lies in that untyped, below its watermark.                  *)
BelowWatermark ==
    \A s \in Slots : caps[s].ut \in DOMAIN m.untypeds =>
        /\ m.untypeds[caps[s].ut].paddr <= caps[s].base
        /\ caps[s].base + caps[s].size <= m.untypeds[caps[s].ut].paddr + free[caps[s].ut]

(* An untyped whose watermark has moved has a child, so the kernel does    *)
(* not forget the watermark.                                               *)
WatermarkHeld ==
    \A u \in DOMAIN m.untypeds :
        /\ free[u] <= m.untypeds[u].size
        /\ free[u] > 0 => \E s \in Slots : caps[s] # NullCap /\ caps[s].ut = u

(* The search is at a device object and in an untyped; the held cap is a   *)
(* child of that untyped.                                                  *)
SearchState ==
    pc = "search" =>
        /\ obj_id_index <= Len(m.objects)
        /\ Obj.type \in MemoryTypes /\ IsDeviceObject(Obj)
        /\ dev \in DOMAIN m.untypeds
HoldState ==
    pc = "search" /\ hold =>
        HoldSlot \in Slots /\ caps[HoldSlot] # NullCap /\ caps[HoldSlot].ut = dev

(* The caps of the created objects are in slots that have been allocated,  *)
(* objects are created in order, and memory comes from the boot untypeds.  *)
OrigSlotsTaken ==
    /\ free_slot_start > Len(m.untypeds)
    /\ \A i \in Made :
        /\ orig[i] > Len(m.untypeds)
        /\ pc # "done" => orig[i] < FreeSlot
        /\ caps[orig[i]] # NullCap
        /\ Creating => i < obj_id_index
OrigFromBoot ==
    Creating => \A i \in MadeMem : caps[orig[i]].ut \in DOMAIN m.untypeds

CreationInv ==
    /\ m \in Models
    /\ TypeOK
    /\ BootCapsStay
    /\ Creating => BelowWatermark
    /\ Creating => WatermarkHeld
    /\ SearchState
    /\ HoldState
    /\ OrigSlotsTaken
    /\ OrigFromBoot
    /\ NoOverlap
    /\ DeviceAtPaddr

(***************************************************************************)
(* What else every step keeps, for the slots and for the result.           *)
(***************************************************************************)

(* The slots from the free one on are empty, but for a cap that the search *)
(* holds in the slot after the free one.                                   *)
FreeSlotsEmpty ==
    pc \in {"parse_bootinfo", "create", "search", "asid"} =>
        \A s \in Slots : s >= FreeSlot /\ ~(pc = "search" /\ hold /\ s = HoldSlot)
                           => caps[s] = NullCap
HandedSlotsEmpty ==
    pc = "done" => \A s \in Slots : s >= free_slot_start => caps[s] = NullCap

SlotsInv == FreeSlotsEmpty /\ HandedSlotsEmpty

(* The pools made so far. *)
Pooled(i) == \E h \in 1 .. asid_high - 1 : m.asid[h] = i

(* Every object before the loop's has a cap of its own, with the type and  *)
(* the size of the object; an object that has become a pool is in the ASID *)
(* table.                                                                  *)
CapsAsAsked ==
    /\ \A i \in DOMAIN m.objects :
          i < obj_id_index /\ RequiresCreation(m.objects[i].type) => orig[i] # 0
    /\ \A i, j \in Made : i # j => orig[i] # orig[j]
    /\ \A i \in Made :
          OrigCap(i).type = IF Pooled(i) THEN "ASIDPool" ELSE KernelType(m.objects[i])
    /\ \A i \in MadeMem : OrigCap(i).size = m.objects[i].size
PoolsInTable ==
    /\ Len(asid_table) = asid_high - 1
    /\ \A h \in 1 .. asid_high - 1 : asid_table[h] = orig[m.asid[h]]
LoopsEnded ==
    /\ Creating => asid_high = 1
    /\ pc \in {"asid", "done"} => obj_id_index = Len(m.objects) + 1
    /\ pc = "done" => asid_high = Len(m.asid) + 1

CompletionInv == CapsAsAsked /\ PoolsInTable /\ LoopsEnded

(* The objects' memory, seen as Placement sees it. *)
placed == [i \in MadeMem |-> OrigCap(i).base]

(* create_objects implements the abstract allocation of Placement. *)
Abstract == INSTANCE Placement WITH m <- m, placed <- placed
ImplementsPlacement == Abstract!Spec
=============================================================================
