--------------------------- MODULE StaticObjects ---------------------------
(***************************************************************************)
(* capdl-loader-app with CONFIG_CAPDL_LOADER_STATIC_ALLOC: the model says  *)
(* which untyped every object is made from and in which order.  The loader *)
(* finds these untypeds in the boot information and retypes; it does not   *)
(* look at addresses, so that an object is where the model wants it only   *)
(* if the kernel's watermark is there.                                     *)
(*                                                                         *)
(* A model has, besides the objects and asid_slots, the untyped            *)
(* derivations (CDL_UntypedDerivation): an untyped object and its          *)
(* children, and addr, the addresses that getPhysAddrs of the capDL-tool   *)
(* computes for the children and gives to the verification models.  The    *)
(* children are objects that take memory: the allocator places no other.   *)
(* max_objects is CONFIG_CAPDL_LOADER_MAX_OBJECTS, chosen with the model.  *)
(***************************************************************************)
EXTENDS CreateObject

CONSTANTS Models   \* models with the boot information they meet

StaticModel ==
    [objects : Seq(Object), untyped : Seq([untyped : Nat, children : Seq(Nat)]),
     addr : Seq(Seq(Nat)), asid : Seq(Nat), untypeds : Seq(Untyped),
     slots : Nat, max_objects : Nat]

ASSUME ASIDPoolSizeAssumption == ASIDPoolSize \in Nat \ {0}

(* What PrintC.hs emits and what the kernel boots with: derivations name   *)
(* objects, the children have a size, the ASID table lists the pools, each *)
(* once (getASIDPoolDerivations), and the untypeds do not overlap.         *)
ASSUME StaticModelsAssumption ==
    \A x \in Models :
        /\ x \in StaticModel
        /\ Len(x.addr) = Len(x.untyped)
        /\ \A d \in DOMAIN x.untyped :
              /\ x.untyped[d].untyped \in DOMAIN x.objects
              /\ \A c \in DOMAIN x.untyped[d].children :
                    /\ x.untyped[d].children[c] \in DOMAIN x.objects
                    /\ x.objects[x.untyped[d].children[c]].size > 0
        /\ \A i \in DOMAIN x.objects :
              x.objects[i].type = "ASIDPool" =>
                 /\ x.objects[i].size = ASIDPoolSize
                 /\ \E h \in DOMAIN x.asid : x.asid[h] = i
        /\ \A h \in DOMAIN x.asid :
              /\ x.asid[h] \in DOMAIN x.objects
              /\ x.objects[x.asid[h]].type = "ASIDPool"
              /\ \A k \in DOMAIN x.asid : x.asid[h] = x.asid[k] => h = k
        /\ \A u, v \in DOMAIN x.untypeds :
              u # v => \/ x.untypeds[u].paddr + x.untypeds[u].size <= x.untypeds[v].paddr
                       \/ x.untypeds[v].paddr + x.untypeds[v].size <= x.untypeds[u].paddr

VARIABLES
    pc,               \* where the loader is
    untyped_cptrs,    \* the untyped of every derivation in the boot information
    bi_start,         \* parse_bootinfo: the entries before it have been matched
    ut_index, child,  \* the loops over derivations and children
    free_slot_index, free_slot_start,
    asid_high,        \* the loop over asid_slots
    orig,             \* capdl_to_sel4_orig, 0 where no cap is recorded
    asid_table        \* the kernel: the pools of the ASID table, in order

kernelVars == <<caps, free, asid_table>>
vars == <<m, pc, untyped_cptrs, bi_start, ut_index, child, free_slot_index,
          free_slot_start, asid_high, orig, kernelVars>>

Start(where) ==
    /\ pc = where
    /\ untyped_cptrs = <<>> /\ bi_start = 1
    /\ ut_index = 1 /\ child = 1
    /\ free_slot_index = 0 /\ free_slot_start = Len(m.untypeds) + 1
    /\ asid_high = 1
    /\ orig = [i \in DOMAIN m.objects |-> 0]
    /\ caps = BootCaps
    /\ free = [s \in Slots |-> 0]
    /\ asid_table = <<>>

Init == m \in Models /\ Start("slots")

(* ZF_LOGF and assert: the loader stops where it is. *)
Abort ==
    /\ pc' = "fatal"
    /\ UNCHANGED <<m, untyped_cptrs, bi_start, ut_index, child, free_slot_index,
                   free_slot_start, asid_high, orig, kernelVars>>
-----------------------------------------------------------------------------
(* parse_bootinfo *)

CheckSlots ==
    /\ pc = "slots"
    /\ \/ m.slots < m.max_objects /\ Abort
       \/ /\ m.slots >= m.max_objects
          /\ pc' = "match"
          /\ UNCHANGED <<m, untyped_cptrs, bi_start, ut_index, child, free_slot_index,
                         free_slot_start, asid_high, orig, kernelVars>>

(* The derivation that is being looked for, and its entries in the list.   *)
derivation == m.untyped[Len(untyped_cptrs) + 1]
Wanted == m.objects[derivation.untyped]

(* Mutant of Matches: the search begins behind the last match. *)
MatchesAfterLast ==
    {i \in DOMAIN m.untypeds :
        /\ \A c \in DOMAIN untyped_cptrs : untyped_cptrs[c] < i
        /\ m.untypeds[i].paddr = Wanted.paddr}

Matches == {i \in bi_start .. Len(m.untypeds) : m.untypeds[i].paddr = Wanted.paddr}

(* All derivations are from untypeds, as the loader asserts here. *)
MatchUntyped ==
    /\ pc = "match" /\ Len(untyped_cptrs) < Len(m.untyped)
    /\ \/ /\ Matches = {} \/ \E i \in Matches : m.untypeds[i].size # Wanted.size
          /\ Abort
       \/ \E i \in Matches :
            /\ \A k \in Matches : k <= i /\ m.untypeds[k].size = Wanted.size
            /\ untyped_cptrs' = Append(untyped_cptrs, i)
            /\ bi_start' = IF bi_start \in Matches THEN bi_start + 1 ELSE bi_start
            /\ UNCHANGED <<m, pc, ut_index, child, free_slot_index, free_slot_start,
                           asid_high, orig, kernelVars>>

EndMatch ==
    /\ pc = "match" /\ Len(untyped_cptrs) = Len(m.untyped)
    /\ pc' = "create"
    /\ UNCHANGED <<m, untyped_cptrs, bi_start, ut_index, child, free_slot_index,
                   free_slot_start, asid_high, orig, kernelVars>>
-----------------------------------------------------------------------------
(* create_objects *)

InLoop == pc = "create" /\ ut_index <= Len(m.untyped)

(* Mutant of Kids: the children from the last to the first. *)
KidsBackwards ==
    LET ch == m.untyped[ut_index].children
    IN  [k \in DOMAIN ch |-> ch[Len(ch) + 1 - k]]

Kids == m.untyped[ut_index].children
FreeSlot == free_slot_start + free_slot_index
ChildId == Kids[child]
Obj == m.objects[ChildId]

(* Mutant of untyped_cptr: every derivation from the first untyped. *)
FirstUntyped == untyped_cptrs[1]

untyped_cptr == untyped_cptrs[ut_index]

NextDerivation ==
    /\ InLoop /\ child > Len(Kids)
    /\ ut_index' = ut_index + 1 /\ child' = 1
    /\ UNCHANGED <<m, pc, untyped_cptrs, bi_start, free_slot_index, free_slot_start,
                   asid_high, orig, kernelVars>>

(* The kernel makes only frames and untypeds from device memory. *)
DeviceRefused(u, t) == m.untypeds[u].device /\ t \notin {"Frame", "Untyped"}

Retypable ==
    /\ RequiresCreation(Obj.type)
    /\ ~InvalidType(Obj)
    /\ SlotReady(FreeSlot)
    /\ ~DeviceRefused(untyped_cptr, Obj.type)
    /\ Fits(untyped_cptr, KernelSize(Obj))

CreateChild ==
    LET s == KernelSize(Obj)
    IN  /\ InLoop /\ child <= Len(Kids) /\ Retypable
        /\ caps' = [caps EXCEPT ![FreeSlot] = RetypedCap(KernelType(Obj), untyped_cptr, s)]
        /\ free' = [free EXCEPT ![untyped_cptr] = FreeAfter(untyped_cptr, s)]
        /\ orig' = [orig EXCEPT ![ChildId] = FreeSlot]
        /\ free_slot_index' = free_slot_index + 1
        /\ child' = child + 1
        /\ UNCHANGED <<m, pc, untyped_cptrs, bi_start, ut_index, free_slot_start,
                       asid_high, asid_table>>

CreateFails == InLoop /\ child <= Len(Kids) /\ ~Retypable /\ Abort

EndCreate ==
    /\ pc = "create" /\ ut_index > Len(m.untyped)
    /\ pc' = "asid"
    /\ UNCHANGED <<m, untyped_cptrs, bi_start, ut_index, child, free_slot_index,
                   free_slot_start, asid_high, orig, kernelVars>>

PoolObject == m.asid[asid_high]

(* The pool takes the place of its memory in the table of caps. *)
MakePool ==
    LET u == orig[PoolObject]
    IN  /\ pc = "asid" /\ asid_high <= Len(m.asid)
        /\ \/ /\ PoolMemory(u) /\ SlotReady(FreeSlot)
              /\ caps' = [caps EXCEPT ![FreeSlot] =
                            [type |-> "ASIDPool", base |-> caps[u].base,
                             size |-> ASIDPoolSize, ut |-> u]]
              /\ free' = [free EXCEPT ![u] = ASIDPoolSize]
              /\ asid_table' = Append(asid_table, FreeSlot)
              /\ orig' = [orig EXCEPT ![PoolObject] = FreeSlot]
              /\ free_slot_index' = free_slot_index + 1
              /\ asid_high' = asid_high + 1
              /\ UNCHANGED <<m, pc, untyped_cptrs, bi_start, ut_index, child, free_slot_start>>
           \/ ~(PoolMemory(u) /\ SlotReady(FreeSlot)) /\ Abort

Finish ==
    /\ pc = "asid" /\ asid_high > Len(m.asid)
    /\ pc' = "done"
    /\ free_slot_start' = FreeSlot
    /\ UNCHANGED <<m, untyped_cptrs, bi_start, ut_index, child, free_slot_index,
                   asid_high, orig, kernelVars>>

Stopped == pc \in {"done", "fatal"}

Step == \/ CheckSlots \/ MatchUntyped \/ EndMatch
        \/ NextDerivation \/ CreateChild \/ CreateFails \/ EndCreate
        \/ MakePool \/ Finish
Next == Step \/ (Stopped /\ UNCHANGED vars)

Spec == Init /\ [][Next]_vars
-----------------------------------------------------------------------------
(* What untypedCoverToPaddrs checks of a model and computes as addr: the   *)
(* children of an untyped follow each other, aligned, inside the untyped,  *)
(* at their own address if they have one.                                  *)
CoverConsistent(x, u) ==
    LET ch == x.untyped[u].children
        ut == x.objects[x.untyped[u].untyped]
    IN  /\ Len(x.addr[u]) = Len(ch)
        /\ \A c \in DOMAIN ch :
            LET o == x.objects[ch[c]]
            IN  /\ x.addr[u][c] = IF c = 1 THEN ut.paddr
                                  ELSE x.addr[u][c - 1] + x.objects[ch[c - 1]].size
                /\ x.addr[u][c] % o.size = 0
                /\ x.addr[u][c] + o.size <= ut.paddr + ut.size
                /\ o.paddr # 0 => x.addr[u][c] = o.paddr

(* Besides, no object is in two covers or twice in one (checkCovers and    *)
(* dedupCoverIDs), and no untyped has two derivations.                     *)
Places(x) == UNION {{<<u, c>> : c \in DOMAIN x.untyped[u].children} : u \in DOMAIN x.untyped}
IdAt(x, p) == x.untyped[p[1]].children[p[2]]
Consistent(x) ==
    /\ \A u \in DOMAIN x.untyped : CoverConsistent(x, u)
    /\ \A p, q \in Places(x) : IdAt(x, p) = IdAt(x, q) => p = q
    /\ \A u, v \in DOMAIN x.untyped :
          x.objects[x.untyped[u].untyped].paddr = x.objects[x.untyped[v].untyped].paddr => u = v

(* The loader never looks at an address, and yet every object it makes of  *)
(* a consistent model is at the address that the tool computed: the        *)
(* kernel's watermarks follow the covers, through any order of             *)
(* derivations and of the boot information.  When creation is done all of  *)
(* them are made, with their type.                                         *)
AtToolAddress ==
    Consistent(m) =>
        \A p \in Places(m) :
            LET i == IdAt(m, p)
            IN  /\ orig[i] # 0 => caps[orig[i]].base = m.addr[p[1]][p[2]]
                /\ pc = "done" => orig[i] # 0 /\ caps[orig[i]].type = m.objects[i].type

(* The untypeds of the model are in the boot information, with their size. *)
Booted(x) ==
    \A u \in DOMAIN x.untyped : \E i \in DOMAIN x.untypeds :
        LET ut == x.objects[x.untyped[u].untyped]
        IN  /\ x.untypeds[i].paddr = ut.paddr /\ x.untypeds[i].size = ut.size
            /\ \A c \in DOMAIN x.untyped[u].children :
                 ~DeviceRefused(i, x.objects[x.untyped[u].children[c]].type)

(* Nothing else stands in the way: the types exist, the pools are covered, *)
(* and there are slots for all objects and pools.                          *)
Creatable(x) ==
    /\ \A p \in Places(x) : x.objects[IdAt(x, p)].type \in MemoryTypes
                            /\ ~InvalidType(x.objects[IdAt(x, p)])
    /\ \A h \in DOMAIN x.asid : \E p \in Places(x) : IdAt(x, p) = x.asid[h]
    /\ x.slots >= x.max_objects
    /\ x.slots >= Cardinality(Places(x)) + Len(x.asid)

Loadable(x) == Consistent(x) /\ Booted(x) /\ Creatable(x)

(* A consistent model that fits the boot information is created, whatever  *)
(* the order of its untypeds and of the boot information: the search with  *)
(* bi_start misses none, and no retype fails.                              *)
ConsistentModelsCreated == (pc = "slots" /\ Loadable(m)) ~> (pc = "done")

(* The same without its end: the loader never stops with an error.         *)
NeverRefused == Loadable(m) => pc # "fatal"

(***************************************************************************)
(* The inductive invariant of static creation, by parts.                   *)
(***************************************************************************)
StaticTypeOK ==
    /\ pc \in {"slots", "match", "create", "asid", "done", "fatal"}
    /\ untyped_cptrs \in Seq(DOMAIN m.untypeds)
    /\ Len(untyped_cptrs) <= Len(m.untyped)
    /\ bi_start \in Nat \ {0}
    /\ ut_index \in 1 .. Len(m.untyped) + 1 /\ child \in Nat \ {0}
    /\ free_slot_index \in Nat /\ free_slot_start \in Nat \ {0}
    /\ asid_high \in 1 .. Len(m.asid) + 1
    /\ orig \in [DOMAIN m.objects -> Slots \cup {0}]
    /\ caps \in [Slots -> Cap]
    /\ free \in [Slots -> Nat]
    /\ asid_table \in Seq(Slots)

(* Where the loops are in the phases of the loader. *)
LoopsInPhase ==
    /\ pc \in {"slots", "match"} => ut_index = 1 /\ child = 1 /\ \A s \in Slots : free[s] = 0
    /\ pc \in {"create", "asid", "done"} => Len(untyped_cptrs) = Len(m.untyped)
    /\ pc \in {"asid", "done"} => ut_index = Len(m.untyped) + 1
    /\ pc \in {"slots", "match", "create"} => asid_high = 1
    /\ pc = "done" => asid_high = Len(m.asid) + 1
    /\ pc # "done" => free_slot_start = Len(m.untypeds) + 1

(* The untyped object of derivation d, and the boot untyped found for it. *)
UntypedOf(d) == m.objects[m.untyped[d].untyped]
MatchedUntypeds ==
    \A d \in DOMAIN untyped_cptrs :
        /\ m.untypeds[untyped_cptrs[d]].paddr = UntypedOf(d).paddr
        /\ m.untypeds[untyped_cptrs[d]].size = UntypedOf(d).size

BootCapsStay ==
    \A u \in DOMAIN m.untypeds :
        caps[u].base = m.untypeds[u].paddr /\ caps[u].size = m.untypeds[u].size

(* The loops have passed the place p; the objects made are those that are  *)
(* at a place passed.                                                      *)
Passed(p) == p[1] < ut_index \/ (p[1] = ut_index /\ p[2] < child)
MadeInOrder ==
    /\ \A p \in Places(m) : orig[IdAt(m, p)] # 0 <=> Passed(p)
    /\ \A i \in DOMAIN m.objects : orig[i] # 0 => \E p \in Places(m) : IdAt(m, p) = i

(* The cap of the object at a place passed: the memory the tool computed,  *)
(* below the watermark of its untyped, and the type asked for.             *)
PooledBy(i) == \E h \in 1 .. asid_high - 1 : m.asid[h] = i
AsComputed(p) ==
    LET i == IdAt(m, p)
        o == m.objects[i]
        c == caps[orig[i]]
        d == p[1]
    IN  /\ c # NullCap /\ orig[i] > Len(m.untypeds)
        /\ c.base = m.addr[d][p[2]] /\ c.size = o.size
        /\ UntypedOf(d).paddr <= c.base
        /\ c.base + c.size <= UntypedOf(d).paddr + free[untyped_cptrs[d]]
        /\ c.type = IF PooledBy(i) THEN "ASIDPool" ELSE KernelType(o)
        /\ pc = "create" => c.ut = untyped_cptrs[d]

(* The watermark of a derivation that has not been begun is where it was,  *)
(* that of the one in work is behind its last child.                       *)
Watermarks ==
    pc = "create" =>
        \A d \in DOMAIN m.untyped :
            /\ d > ut_index \/ (d = ut_index /\ child = 1) => free[untyped_cptrs[d]] = 0
            /\ d = ut_index /\ child > 1 =>
                  /\ <<d, child - 1>> \in Places(m)
                  /\ UntypedOf(d).paddr + free[untyped_cptrs[d]] =
                        m.addr[d][child - 1] + m.objects[IdAt(m, <<d, child - 1>>)].size

CoversFollowed ==
    Consistent(m) =>
        /\ MatchedUntypeds /\ BootCapsStay /\ MadeInOrder
        /\ \A p \in Places(m) : Passed(p) => AsComputed(p)
        /\ Watermarks

(* The memory of the objects of a consistent model, as Placement sees it:  *)
(* static allocation implements the same abstract allocation as the        *)
(* dynamic one, although nothing in the loader compares addresses.         *)
Made == {i \in DOMAIN m.objects : orig[i] # 0}
placed == [i \in IF Consistent(m) THEN Made ELSE {} |-> caps[orig[i]].base]
Abstract == INSTANCE Placement WITH m <- m, placed <- placed
ImplementsPlacement == Abstract!Spec

(***************************************************************************)
(* What NeverRefused needs besides CoversFollowed.                         *)
(***************************************************************************)
(* Only matched entries of the boot information are left behind. *)
EntriesUsed ==
    \A i \in DOMAIN m.untypeds :
        i < bi_start => \E d \in DOMAIN untyped_cptrs : untyped_cptrs[d] = i

(* As many slots are taken as objects and pools are made. *)
PassedPlaces == {p \in Places(m) : Passed(p)}
SlotsCounted ==
    /\ free_slot_index = Cardinality(PassedPlaces) + (asid_high - 1)
    /\ pc # "done" => \A s \in Slots : s >= FreeSlot => caps[s] = NullCap

(* Every object has a slot of its own, and no cap is made from that slot.  *)
EntriesApart ==
    pc # "done" =>
        /\ \A i, j \in Made : orig[i] = orig[j] => i = j
        /\ \A i \in Made : orig[i] < FreeSlot
        /\ \A s \in Slots : caps[s].ut < FreeSlot /\ \A i \in Made : caps[s].ut # orig[i]

LoadingInv == Loadable(m) => EntriesUsed /\ SlotsCounted /\ EntriesApart /\ NeverRefused
=============================================================================
