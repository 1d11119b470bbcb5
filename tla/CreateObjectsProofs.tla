------------------------ MODULE CreateObjectsProofs ------------------------
(***************************************************************************)
(* Proofs about the dynamic allocator of the loader, for every set of      *)
(* models and every boot information: the types; the safety of the         *)
(* allocation, by an inductive invariant; what has been done when the      *)
(* allocator ends; and that it implements Placement.                       *)
(***************************************************************************)
EXTENDS CreateObjects, Integers, FiniteSetTheorems, TLAPS

(* The kernel's retype. *)

(* An object is placed at or behind the watermark. *)
LEMMA AlignUpFacts ==
    ASSUME NEW x \in Nat, NEW s \in Nat \ {0}
    PROVE  AlignUp(x, s) \in Nat /\ AlignUp(x, s) >= x
<1>1. x % s \in 0 .. s - 1
  OBVIOUS
<1>2. s - (x % s) \in Int
  BY <1>1
<1>3. (s - (x % s)) % s \in 0 .. s - 1
  BY <1>2
<1>. QED
  BY <1>3 DEF AlignUp

(* What the kernel makes of untyped memory. *)
LEMMA RetypeFacts ==
    ASSUME caps \in [Slots -> Cap], free \in [Slots -> Nat],
           NEW u \in Slots, NEW s \in Nat \ {0}, NEW t \in Types, u \in Nat
    PROVE  /\ FreeIndex(u) \in Nat
           /\ NextBase(u, s) \in Nat
           /\ NextBase(u, s) >= caps[u].base + FreeIndex(u)
           /\ RetypedCap(t, u, s) \in Cap
           /\ RetypedCap(t, u, s) # NullCap
           /\ FreeAfter(u, s) \in Nat
           /\ FreeAfter(u, s) >= FreeIndex(u)
           /\ caps[u].base + FreeAfter(u, s) = NextBase(u, s) + s
           /\ Fits(u, s) => FreeAfter(u, s) <= caps[u].size
<1>1. caps[u] \in Cap /\ caps[u].base \in Nat /\ caps[u].size \in Nat
  BY DEF Cap
<1>2. FreeIndex(u) \in Nat
  BY DEF FreeIndex
<1>3. NextBase(u, s) \in Nat /\ NextBase(u, s) >= caps[u].base + FreeIndex(u)
  BY <1>1, <1>2, AlignUpFacts DEF NextBase
<1>4. RetypedCap(t, u, s) \in Cap
  BY <1>3 DEF RetypedCap, Cap, Types
<1>5. RetypedCap(t, u, s) # NullCap
  BY <1>3 DEF RetypedCap, NullCap
<1>. QED
  BY <1>1, <1>2, <1>3, <1>4, <1>5 DEF FreeAfter, Fits

(* What ModelsAssumption says of the model being loaded. *)
LEMMA ModelFacts ==
    ASSUME m \in Models
    PROVE  /\ m \in Model
           /\ \A i \in DOMAIN m.objects :
                /\ m.objects[i] \in Object
                /\ m.objects[i].type \in MemoryTypes => m.objects[i].size > 0
                /\ m.objects[i].type = "ASIDPool" => m.objects[i].size = ASIDPoolSize
                /\ m.objects[i].paddr # 0 => m.objects[i].type \in {"Frame", "Untyped"}
           /\ \A h \in DOMAIN m.asid : /\ m.asid[h] \in DOMAIN m.objects
                                       /\ m.objects[m.asid[h]].type = "ASIDPool"
           /\ \A u \in DOMAIN m.untypeds : m.untypeds[u] \in Untyped
           /\ \A u, v \in DOMAIN m.untypeds :
                u # v => \/ m.untypeds[u].paddr + m.untypeds[u].size <= m.untypeds[v].paddr
                         \/ m.untypeds[v].paddr + m.untypeds[v].size <= m.untypeds[u].paddr
<1>1. /\ m \in Model
      /\ \A i \in DOMAIN m.objects :
            LET o == m.objects[i]
            IN  /\ o.type \in MemoryTypes => o.size > 0
                /\ o.type = "ASIDPool" => o.size = ASIDPoolSize
                /\ o.paddr # 0 => o.type \in {"Frame", "Untyped"}
      /\ \A h \in DOMAIN m.asid : /\ m.asid[h] \in DOMAIN m.objects
                                  /\ m.objects[m.asid[h]].type = "ASIDPool"
      /\ \A u, v \in DOMAIN m.untypeds :
            u # v => \/ m.untypeds[u].paddr + m.untypeds[u].size <= m.untypeds[v].paddr
                     \/ m.untypeds[v].paddr + m.untypeds[v].size <= m.untypeds[u].paddr
  BY ModelsAssumption, Zenon
<1>2. m.objects \in Seq(Object) /\ m.untypeds \in Seq(Untyped)
  BY <1>1 DEF Model
<1>3. /\ \A i \in DOMAIN m.objects : m.objects[i] \in Object
      /\ \A u \in DOMAIN m.untypeds : m.untypeds[u] \in Untyped
  BY <1>2
<1>. QED
  BY <1>1, <1>3, Zenon

(* There are no more normal untypeds than untypeds. *)
LEMMA NormalCount ==
    ASSUME m \in Models
    PROVE  num_normal_untypes \in Nat /\ num_normal_untypes <= Len(m.untypeds)
<1>1. Len(m.untypeds) \in Nat /\ DOMAIN m.untypeds = 1 .. Len(m.untypeds)
  BY ModelFacts DEF Model
<1>2. IsFiniteSet(1 .. Len(m.untypeds)) /\ Cardinality(1 .. Len(m.untypeds)) = Len(m.untypeds)
  <2>1. \A n \in Nat : IsFiniteSet(1 .. n) /\ Cardinality(1 .. n) = n
    BY FS_Interval
  <2>. QED
    BY <1>1, <2>1, Zenon
<1>3. Normal \subseteq 1 .. Len(m.untypeds)
  BY <1>1 DEF Normal
<1>4. Cardinality(Normal) <= Len(m.untypeds) /\ IsFiniteSet(Normal)
  BY <1>2, <1>3, FS_Subset
<1>. QED
  BY <1>4, FS_CardinalityType DEF num_normal_untypes
-----------------------------------------------------------------------------
(* The type invariant needs to know that a search is in an untyped. *)
TypeInv ==
    /\ m \in Models
    /\ TypeOK
    /\ SearchState

LEMMA DomainFacts ==
    ASSUME m \in Models
    PROVE  /\ Len(m.untypeds) \in Nat /\ DOMAIN m.untypeds = 1 .. Len(m.untypeds)
           /\ Len(m.objects) \in Nat /\ DOMAIN m.objects = 1 .. Len(m.objects)
           /\ Len(m.asid) \in Nat /\ DOMAIN m.asid = 1 .. Len(m.asid)
           /\ m.slots \in Nat
           /\ LastSlot \in Nat /\ Len(m.untypeds) <= LastSlot
           /\ DOMAIN m.untypeds \subseteq Slots
<1>1. m \in Model
  BY ModelFacts
<1>2. /\ m.objects \in Seq(Object) /\ m.asid \in Seq(Nat) /\ m.untypeds \in Seq(Untyped)
      /\ m.slots \in Nat
  BY <1>1 DEF Model
<1>3. /\ Len(m.untypeds) \in Nat /\ DOMAIN m.untypeds = 1 .. Len(m.untypeds)
      /\ Len(m.objects) \in Nat /\ DOMAIN m.objects = 1 .. Len(m.objects)
      /\ Len(m.asid) \in Nat /\ DOMAIN m.asid = 1 .. Len(m.asid)
  BY <1>2
<1>. QED
  BY <1>2, <1>3 DEF LastSlot, Slots

(* What create_object asks for, at an object in memory. *)
LEMMA ObjFacts ==
    ASSUME m \in Models, obj_id_index \in 1 .. Len(m.objects) + 1,
           obj_id_index <= Len(m.objects)
    PROVE  /\ obj_id_index \in DOMAIN m.objects
           /\ Obj \in Object
           /\ Obj.type \in MemoryTypes =>
                 KernelSize(Obj) \in Nat \ {0} /\ KernelSize(Obj) = Obj.size
                 /\ KernelType(Obj) \in MemoryTypes
<1>1. obj_id_index \in DOMAIN m.objects
  BY DomainFacts
<1>2. /\ Obj \in Object
      /\ Obj.type \in MemoryTypes => Obj.size > 0
      /\ Obj.type = "ASIDPool" => Obj.size = ASIDPoolSize
  BY <1>1, ModelFacts DEF Obj
<1>. QED
  BY <1>1, <1>2, ConstantsAssumption DEF Object, KernelSize, KernelType, MemoryTypes

LEMMA InitTypes == Init => TypeInv
<1>. SUFFICES ASSUME Init PROVE TypeInv
  OBVIOUS
<1>. USE DomainFacts
<1>1. m \in Models /\ m \in Model
  BY ModelFacts DEF Init, BootCaps
<1>2. \A s \in DOMAIN m.untypeds : m.untypeds[s].paddr \in Nat /\ m.untypeds[s].size \in Nat
  BY <1>1, ModelFacts DEF Untyped
<1>3. caps \in [Slots -> Cap]
  BY <1>1, <1>2 DEF Init, BootCaps, Cap, NullCap, Types, MemoryTypes
<1>4. TypeOK
  <2>1. pc = "parse_bootinfo" /\ hold = FALSE
    BY DEF Init, BootCaps
  <2>2. untyped_cptrs \in [DOMAIN m.untypeds -> DOMAIN m.untypeds \cup {0}]
    BY DEF Init, BootCaps
  <2>3. /\ obj_id_index \in 1 .. Len(m.objects) + 1
        /\ ut_index \in Nat \ {0} /\ free_slot_index \in Nat /\ free_slot_start \in Nat \ {0}
        /\ dev \in DOMAIN m.untypeds \cup {0}
        /\ asid_high \in 1 .. Len(m.asid) + 1 /\ sid_number \in Nat
    BY <1>1 DEF Init, BootCaps
  <2>4. orig \in [DOMAIN m.objects -> Slots \cup {0}] /\ free \in [Slots -> Nat]
    BY <1>1 DEF Init, BootCaps
  <2>5. asid_table \in Seq(Slots)
    BY DEF Init, BootCaps
  <2>. QED
    BY <1>1, <1>3, <2>1, <2>2, <2>3, <2>4, <2>5 DEF TypeOK
<1>5. SearchState
  BY DEF Init, BootCaps, SearchState
<1>. QED
  BY <1>1, <1>4, <1>5 DEF TypeInv

(* A successful create_object, whatever made the cap. *)
LEMMA CreatedTypes ==
    ASSUME TypeInv, NEW k \in [Slots -> Cap], NEW c \in Cap,
           FreeSlot \in Slots, obj_id_index <= Len(m.objects), Created(k, c),
           dev' \in DOMAIN m.untypeds \cup {0}, hold' \in BOOLEAN, sid_number' \in Nat,
           free' \in [Slots -> Nat]
    PROVE  TypeInv'
<1>. USE DEF TypeInv
<1>1. m' = m /\ m \in Models /\ Slots' = Slots
  BY DEF Created, Slots, LastSlot
<1>2. caps' \in [Slots -> Cap]
  BY DEF Created
<1>3. orig' \in [DOMAIN m.objects -> Slots \cup {0}]
  BY DEF Created, TypeOK
<1>4. /\ obj_id_index' \in 1 .. Len(m.objects) + 1 /\ free_slot_index' \in Nat
  BY <1>1, DomainFacts DEF Created, TypeOK
<1>5. TypeOK'
  BY <1>1, <1>2, <1>3, <1>4 DEF Created, TypeOK
<1>6. SearchState'
  BY DEF SearchState, Created
<1>. QED
  BY <1>1, <1>5, <1>6

LEMMA AbortTypes == TypeInv /\ Abort => TypeInv'
<1>. SUFFICES ASSUME TypeInv, Abort PROVE TypeInv'
  OBVIOUS
<1>1. Slots' = Slots
  BY DEF Abort, Slots, LastSlot
<1>. QED
  BY <1>1 DEF TypeInv, TypeOK, SearchState, Abort, loopVars

LEMMA SearchUntypedTypes == TypeInv /\ SearchUntyped => TypeInv'
<1>. SUFFICES ASSUME TypeInv, SearchUntyped PROVE TypeInv'
  OBVIOUS
<1>1. CASE Abort
  BY <1>1, AbortTypes
<1>2. CASE ~Abort
  <2>1. PICK u \in Covering :
            /\ dev' = u /\ hold' = FALSE /\ pc' = "search"
            /\ UNCHANGED <<m, untyped_cptrs, loopVars, free_slot_start, asid_high,
                           sid_number, orig, caps, free, asid_table>>
    BY <1>2 DEF SearchUntyped
  <2>2. u \in DOMAIN m.untypeds
    BY DEF Covering
  <2>3. Slots' = Slots
    BY <2>1 DEF Slots, LastSlot
  <2>4. TypeOK'
    BY <2>1, <2>2, <2>3 DEF TypeInv, TypeOK, loopVars
  <2>5. SearchState'
    BY <2>1, <2>2 DEF SearchUntyped, DeviceObject, At, InLoop, Obj, SearchState, IsDeviceObject,
                      loopVars
  <2>. QED
    BY <2>1, <2>4, <2>5 DEF TypeInv
<1>. QED
  BY <1>1, <1>2

(* The kernel's part of a probe. *)
LEMMA ProbeFacts ==
    ASSUME TypeInv, pc = "search"
    PROVE  /\ obj_id_index <= Len(m.objects) /\ obj_id_index \in DOMAIN m.objects
           /\ dev \in Slots /\ dev \in Nat /\ dev \in DOMAIN m.untypeds
           /\ KernelSize(Obj) \in Nat \ {0} /\ KernelSize(Obj) = Obj.size
           /\ KernelType(Obj) \in MemoryTypes
           /\ Candidate \in Cap /\ Candidate # NullCap
           /\ FreeAfter(dev, KernelSize(Obj)) \in Nat
           /\ \A s \in Slots : FreeProbed(s) \in [Slots -> Nat]
<1>. USE DEF TypeInv
<1>1. /\ obj_id_index <= Len(m.objects) /\ Obj.type \in MemoryTypes /\ dev \in DOMAIN m.untypeds
  BY DEF SearchState
<1>2. dev \in Slots /\ dev \in Nat
  BY <1>1, DomainFacts
<1>3. /\ KernelSize(Obj) \in Nat \ {0} /\ KernelType(Obj) \in MemoryTypes
      /\ KernelSize(Obj) = Obj.size /\ obj_id_index \in DOMAIN m.objects
  BY <1>1, ObjFacts DEF TypeOK
<1>4. caps \in [Slots -> Cap] /\ free \in [Slots -> Nat]
  BY DEF TypeOK
<1>5. Candidate \in Cap /\ Candidate # NullCap /\ FreeAfter(dev, KernelSize(Obj)) \in Nat
  BY <1>2, <1>3, <1>4, RetypeFacts DEF Candidate, Types
<1>6. \A s \in Slots : FreeProbed(s) \in [Slots -> Nat]
  BY <1>4, <1>5, ConstantsAssumption DEF FreeProbed
<1>. QED
  BY <1>1, <1>2, <1>3, <1>5, <1>6

LEMMA StepTypes == TypeInv /\ [Next]_vars => TypeInv'
<1>. SUFFICES ASSUME TypeInv, [Next]_vars PROVE TypeInv'
  OBVIOUS
<1>. USE DEF TypeInv
<1>1. CASE ParseBootinfo
  <2>1. CASE Abort
    BY <2>1, AbortTypes
  <2>2. CASE ~Abort
    <3>1. /\ untyped_cptrs' = SortUntypeds /\ pc' = "create"
          /\ UNCHANGED <<m, loopVars, free_slot_start, dev, hold, asid_high,
                         sid_number, orig, caps, free, asid_table>>
      BY <1>1, <2>2 DEF ParseBootinfo
    <3>2. SortUntypeds \in [DOMAIN m.untypeds -> DOMAIN m.untypeds \cup {0}]
      BY DEF SortUntypeds, Normal
    <3>3. Slots' = Slots
      BY <3>1 DEF Slots, LastSlot
    <3>. QED
      BY <3>1, <3>2, <3>3 DEF TypeOK, SearchState, loopVars
  <2>. QED
    BY <2>1, <2>2
<1>2. CASE SkipObject
  <2>1. Slots' = Slots
    BY <1>2 DEF SkipObject, Slots, LastSlot
  <2>2. obj_id_index' \in 1 .. Len(m.objects) + 1
    BY <1>2, DomainFacts DEF SkipObject, At, InLoop, TypeOK
  <2>. QED
    BY <1>2, <2>1, <2>2 DEF SkipObject, At, TypeOK, SearchState
<1>3. CASE IssueObject
  <2>1. obj_id_index <= Len(m.objects) /\ FreeSlot \in Slots
    BY <1>3 DEF IssueObject, At, InLoop, SlotReady
  <2>2. IssuedCap \in Cap
    BY <1>3 DEF IssueObject, At, IssuedCap, Cap, Types, TypeOK
  <2>3. NextSid \in Nat
    BY DEF NextSid, TypeOK
  <2>. QED
    BY <1>3, <2>1, <2>2, <2>3, CreatedTypes DEF IssueObject, TypeOK
<1>4. CASE IssueFails
  BY <1>4, AbortTypes DEF IssueFails
<1>5. CASE RetypeUntyped
  <2>1. /\ obj_id_index <= Len(m.objects) /\ Obj.type \in MemoryTypes
        /\ FreeSlot \in Slots /\ untyped_cptr # 0
    BY <1>5 DEF RetypeUntyped, NormalObject, At, InLoop, SlotReady
  <2>2. ut_index \in DOMAIN m.untypeds
    BY <1>5, NormalCount, DomainFacts DEF RetypeUntyped, NormalObject, At, InLoop, TypeOK
  <2>3. untyped_cptr \in DOMAIN m.untypeds
    BY <2>1, <2>2 DEF untyped_cptr, TypeOK
  <2>4. untyped_cptr \in Slots /\ untyped_cptr \in Nat
    BY <2>3, DomainFacts
  <2>5. KernelSize(Obj) \in Nat \ {0} /\ KernelType(Obj) \in MemoryTypes
    BY <2>1, ObjFacts DEF TypeOK
  <2>6. /\ FreeAfter(untyped_cptr, KernelSize(Obj)) \in Nat
        /\ RetypedCap(KernelType(Obj), untyped_cptr, KernelSize(Obj)) \in Cap
    BY <2>4, <2>5, RetypeFacts DEF TypeOK, Types
  <2>7. free' \in [Slots -> Nat]
    BY <1>5, <2>6 DEF RetypeUntyped, TypeOK
  <2>. QED
    BY <1>5, <2>1, <2>6, <2>7, CreatedTypes DEF RetypeUntyped, TypeOK
<1>6. CASE NextUntyped
  <2>1. Slots' = Slots
    BY <1>6 DEF NextUntyped, Slots, LastSlot
  <2>. QED
    BY <1>6, <2>1 DEF NextUntyped, NormalObject, At, TypeOK, SearchState
<1>7. CASE RetypeFails
  BY <1>7, AbortTypes DEF RetypeFails
<1>8. CASE CopyPrevious
  <2>1. CASE Abort
    BY <2>1, AbortTypes
  <2>2. CASE ~Abort
    <3>1. /\ orig[obj_id_index - 1] # 0 /\ SlotReady(FreeSlot)
          /\ Created(caps, caps[orig[obj_id_index - 1]])
          /\ UNCHANGED <<dev, hold, sid_number, free>>
      BY <1>8, <2>2 DEF CopyPrevious
    <3>2. obj_id_index - 1 \in DOMAIN m.objects /\ obj_id_index <= Len(m.objects)
      BY <1>8, DomainFacts DEF CopyPrevious, SameAsPrevious, DeviceObject, At, InLoop, TypeOK
    <3>3. caps[orig[obj_id_index - 1]] \in Cap
      BY <3>1, <3>2 DEF TypeOK
    <3>. QED
      BY <3>1, <3>2, <3>3, CreatedTypes DEF TypeOK, SlotReady
  <2>. QED
    BY <2>1, <2>2
<1>9. CASE SearchUntyped
  BY <1>9, SearchUntypedTypes
<1>10. CASE ProbeFound
  <2>1. pc = "search" /\ FreeSlot \in Slots
    BY <1>10 DEF ProbeFound, Probed, SlotReady
  <2>2. (IF hold THEN [caps EXCEPT ![HoldSlot] = NullCap] ELSE caps) \in [Slots -> Cap]
    BY DEF TypeOK, NullCap, Cap
  <2>. QED
    BY <1>10, <2>1, <2>2, ProbeFacts, CreatedTypes DEF ProbeFound, FoundSlots, TypeOK
<1>11. CASE ProbeMissed
  <2>1. pc = "search"
    BY <1>11 DEF ProbeMissed, Probed
  <2>2. Slots' = Slots
    BY <1>11 DEF ProbeMissed, Slots, LastSlot
  <2>3. caps' \in [Slots -> Cap]
    BY <1>11, <2>1, ProbeFacts DEF ProbeMissed, MissedSlots, TypeOK
  <2>4. free' \in [Slots -> Nat]
    BY <1>11, <2>1, ProbeFacts DEF ProbeMissed, TypeOK, SlotReady
  <2>. QED
    BY <1>11, <2>1, <2>2, <2>3, <2>4
       DEF ProbeMissed, TypeOK, SearchState, loopVars, Obj, IsDeviceObject
<1>12. CASE ProbeFails
  BY <1>12, AbortTypes DEF ProbeFails
<1>13. CASE LeaveLoop
  <2>1. Slots' = Slots
    BY <1>13 DEF LeaveLoop, Slots, LastSlot
  <2>. QED
    BY <1>13, <2>1 DEF LeaveLoop, TypeOK, SearchState, loopVars
<1>14. CASE MakePool
  <2>1. CASE Abort
    BY <2>1, AbortTypes
  <2>2. CASE ~Abort
    <3>. DEFINE obj_id == PoolObject
                u == orig[obj_id]
    <3>1. /\ pc = "asid" /\ asid_high <= Len(m.asid)
          /\ PoolMemory(u) /\ SlotReady(FreeSlot)
          /\ caps' = [caps EXCEPT ![FreeSlot] = [type |-> "ASIDPool", base |-> caps[u].base,
                                                 size |-> ASIDPoolSize, ut |-> u]]
          /\ free' = [free EXCEPT ![u] = ASIDPoolSize]
          /\ asid_table' = Append(asid_table, FreeSlot)
          /\ orig' = [orig EXCEPT ![obj_id] = FreeSlot]
          /\ free_slot_index' = free_slot_index + 1
          /\ asid_high' = asid_high + 1
          /\ UNCHANGED <<m, pc, untyped_cptrs, obj_id_index, ut_index, free_slot_start,
                         dev, hold, sid_number>>
      BY <1>14, <2>2 DEF MakePool, PoolRecorded
    <3>2. obj_id \in DOMAIN m.objects /\ asid_high' \in 1 .. Len(m.asid) + 1
      <4>1. m \in Models /\ asid_high \in 1 .. Len(m.asid) + 1
        BY DEF TypeOK
      <4>2. asid_high \in DOMAIN m.asid /\ asid_high + 1 \in 1 .. Len(m.asid) + 1
        BY <3>1, <4>1, DomainFacts
      <4>. QED
        BY <3>1, <4>1, <4>2, ModelFacts DEF PoolObject
    <3>3. u \in Slots /\ u \in Nat
      <4>1. u \in Slots \cup {0} /\ u # 0
        BY <3>1, <3>2 DEF PoolMemory, TypeOK
      <4>. HIDE DEF u
      <4>. QED
        BY <4>1 DEF Slots
    <3>4. Slots' = Slots /\ FreeSlot \in Slots
      BY <3>1 DEF Slots, LastSlot, SlotReady
    <3>5. caps' \in [Slots -> Cap]
      BY <3>1, <3>3, ConstantsAssumption DEF TypeOK, Cap, Types, MemoryTypes
    <3>6. free' \in [Slots -> Nat] /\ orig' \in [DOMAIN m.objects -> Slots \cup {0}]
      BY <3>1, <3>4, ConstantsAssumption DEF TypeOK
    <3>7. asid_table' \in Seq(Slots)
      BY <3>1, <3>4 DEF TypeOK
    <3>. QED
      BY <3>1, <3>2, <3>4, <3>5, <3>6, <3>7 DEF TypeOK, SearchState
  <2>. QED
    BY <2>1, <2>2
<1>15. CASE Finish
  <2>1. Slots' = Slots
    BY <1>15 DEF Finish, Slots, LastSlot
  <2>2. free_slot_start' \in Nat \ {0}
    BY <1>15 DEF Finish, TypeOK
  <2>. QED
    BY <1>15, <2>1, <2>2 DEF Finish, TypeOK, SearchState, loopVars
<1>16. CASE UNCHANGED vars
  <2>1. Slots' = Slots
    BY <1>16 DEF vars, Slots, LastSlot
  <2>. QED
    BY <1>16, <2>1 DEF vars, loopVars, TypeOK, SearchState, Obj, IsDeviceObject
<1>. QED
  BY <1>1, <1>2, <1>3, <1>4, <1>5, <1>6, <1>7, <1>8, <1>9, <1>10, <1>11, <1>12, <1>13, <1>14,
     <1>15, <1>16 DEF Next, Step, Halt

(* Type correctness: whatever the models and the boot information, every   *)
(* variable of the loader keeps its type; in particular no slot outside    *)
(* the CNode and no object outside the model is ever recorded.             *)
THEOREM TypeCorrect == Spec => []TypeOK
<1>1. TypeInv => TypeOK
  BY DEF TypeInv
<1>. QED
  BY <1>1, InitTypes, StepTypes, PTL DEF Spec
-----------------------------------------------------------------------------
(***************************************************************************)
(* Safety: CreationInv is inductive, so created objects never overlap,     *)
(* device objects are where the model says, and the kernel never forgets a *)
(* watermark.                                                              *)
(***************************************************************************)

(* The invariant with its types spelled out. *)
LEMMA CreationFacts ==
    ASSUME CreationInv
    PROVE  /\ TypeInv
           /\ m \in Models
           /\ Slots = 1 .. LastSlot /\ LastSlot \in Nat
           /\ DOMAIN m.untypeds = 1 .. Len(m.untypeds) /\ Len(m.untypeds) \in Nat
           /\ DOMAIN m.untypeds \subseteq Slots
           /\ DOMAIN m.objects = 1 .. Len(m.objects) /\ Len(m.objects) \in Nat
           /\ caps \in [Slots -> Cap] /\ free \in [Slots -> Nat]
           /\ orig \in [DOMAIN m.objects -> Slots \cup {0}]
           /\ obj_id_index \in Nat \ {0}
           /\ free_slot_index \in Nat /\ free_slot_start \in Nat
           /\ free_slot_start > Len(m.untypeds)
           /\ FreeSlot \in Nat /\ FreeSlot > Len(m.untypeds)
<1>1. TypeInv /\ m \in Models
  BY DEF CreationInv, TypeInv
<1>2. /\ DOMAIN m.untypeds = 1 .. Len(m.untypeds) /\ Len(m.untypeds) \in Nat
      /\ DOMAIN m.objects = 1 .. Len(m.objects) /\ Len(m.objects) \in Nat
      /\ DOMAIN m.untypeds \subseteq Slots
      /\ LastSlot \in Nat
  BY <1>1, DomainFacts
<1>3. /\ caps \in [Slots -> Cap] /\ free \in [Slots -> Nat]
      /\ orig \in [DOMAIN m.objects -> Slots \cup {0}]
      /\ free_slot_index \in Nat /\ free_slot_start \in Nat
      /\ obj_id_index \in 1 .. Len(m.objects) + 1
  BY DEF CreationInv, TypeOK
<1>4. free_slot_start > Len(m.untypeds)
  BY DEF CreationInv, OrigSlotsTaken
<1>5. obj_id_index \in Nat \ {0}
  BY <1>2, <1>3
<1>6. FreeSlot \in Nat /\ FreeSlot > Len(m.untypeds)
  BY <1>2, <1>3, <1>4 DEF FreeSlot
<1>. QED
  BY <1>1, <1>2, <1>3, <1>4, <1>5, <1>6 DEF Slots

(* The loader never meets a forgotten watermark. *)
LEMMA WatermarkKept ==
    ASSUME CreationInv, Creating, NEW u \in DOMAIN m.untypeds
    PROVE  FreeIndex(u) = free[u] /\ free[u] \in Nat
<1>1. free[u] \in Nat
  BY CreationFacts
<1>2. free[u] > 0 => \E s \in Slots : caps[s] # NullCap /\ caps[s].ut = u
  BY DEF CreationInv, WatermarkHeld
<1>. QED
  BY <1>1, <1>2 DEF FreeIndex, Children

(* An object retyped from a boot untyped: it lies in the untyped, behind   *)
(* the watermark, and the watermark moves behind it.                       *)
LEMMA RetypedPlace ==
    ASSUME CreationInv, Creating, NEW u \in DOMAIN m.untypeds,
           NEW s \in Nat \ {0}, NEW t \in MemoryTypes, Fits(u, s)
    PROVE  /\ RetypedCap(t, u, s) \in Cap /\ RetypedCap(t, u, s) # NullCap
           /\ RetypedCap(t, u, s).ut = u
           /\ RetypedCap(t, u, s).base >= m.untypeds[u].paddr + free[u]
           /\ RetypedCap(t, u, s).base + RetypedCap(t, u, s).size
                = m.untypeds[u].paddr + FreeAfter(u, s)
           /\ FreeAfter(u, s) \in Nat
           /\ FreeAfter(u, s) >= free[u] /\ FreeAfter(u, s) <= m.untypeds[u].size
<1>1. u \in Slots /\ u \in Nat /\ caps \in [Slots -> Cap] /\ free \in [Slots -> Nat]
  BY CreationFacts
<1>2. caps[u].base = m.untypeds[u].paddr /\ caps[u].size = m.untypeds[u].size
  <2>1. caps[u] = BootUntyped(u)
    BY DEF CreationInv, BootCapsStay
  <2>. QED
    BY <2>1 DEF BootUntyped
<1>3. FreeIndex(u) = free[u]
  BY WatermarkKept
<1>4. /\ RetypedCap(t, u, s) \in Cap /\ RetypedCap(t, u, s) # NullCap
      /\ NextBase(u, s) >= caps[u].base + FreeIndex(u)
      /\ FreeAfter(u, s) \in Nat /\ FreeAfter(u, s) >= FreeIndex(u)
      /\ caps[u].base + FreeAfter(u, s) = NextBase(u, s) + s
      /\ FreeAfter(u, s) <= caps[u].size
  BY <1>1, RetypeFacts DEF Types
<1>5. /\ RetypedCap(t, u, s).ut = u /\ RetypedCap(t, u, s).base = NextBase(u, s)
      /\ RetypedCap(t, u, s).size = s
  BY DEF RetypedCap
<1>. QED
  BY <1>2, <1>3, <1>4, <1>5

(* It overlaps nothing that has been made of a boot untyped. *)
LEMMA RetypedDisjoint ==
    ASSUME CreationInv, Creating, NEW u \in DOMAIN m.untypeds,
           NEW s \in Nat \ {0}, NEW t \in MemoryTypes, Fits(u, s),
           NEW x \in Slots, caps[x].ut \in DOMAIN m.untypeds
    PROVE  \/ RetypedCap(t, u, s).base + RetypedCap(t, u, s).size <= caps[x].base
           \/ caps[x].base + caps[x].size <= RetypedCap(t, u, s).base
<1>. DEFINE c == RetypedCap(t, u, s)
            v == caps[x].ut
<1>1. /\ c \in Cap
      /\ c.base >= m.untypeds[u].paddr + free[u]
      /\ c.base + c.size = m.untypeds[u].paddr + FreeAfter(u, s)
      /\ FreeAfter(u, s) \in Nat /\ FreeAfter(u, s) <= m.untypeds[u].size
  BY RetypedPlace
<1>2. /\ m.untypeds[v].paddr <= caps[x].base
      /\ caps[x].base + caps[x].size <= m.untypeds[v].paddr + free[v]
  BY DEF CreationInv, BelowWatermark
<1>3. free[v] \in Nat /\ free[v] <= m.untypeds[v].size /\ free[u] \in Nat
  BY CreationFacts DEF CreationInv, WatermarkHeld
<1>4. /\ m.untypeds[u].paddr \in Nat /\ m.untypeds[u].size \in Nat
      /\ m.untypeds[v].paddr \in Nat /\ m.untypeds[v].size \in Nat
  BY CreationFacts, ModelFacts DEF Untyped
<1>5. /\ caps[x].base \in Nat /\ caps[x].size \in Nat /\ c.base \in Nat /\ c.size \in Nat
  BY <1>1, CreationFacts DEF Cap
<1>6. u # v => \/ m.untypeds[u].paddr + m.untypeds[u].size <= m.untypeds[v].paddr
               \/ m.untypeds[v].paddr + m.untypeds[v].size <= m.untypeds[u].paddr
  BY CreationFacts, ModelFacts
<1>. HIDE DEF c, v
<1>7. u = v => caps[x].base + caps[x].size <= c.base
  BY <1>1, <1>2, <1>3, <1>4, <1>5
<1>8. u # v => c.base + c.size <= caps[x].base \/ caps[x].base + caps[x].size <= c.base
  BY <1>1, <1>2, <1>3, <1>4, <1>5, <1>6
<1>. QED
  BY <1>7, <1>8 DEF c
-----------------------------------------------------------------------------
(* What a successful create_object does to the slots: k is the kernel's    *)
(* slots without the new cap c; only slots from the free one on differ.    *)
LEMMA CreatedSlots ==
    ASSUME CreationInv, Creating, obj_id_index <= Len(m.objects), SlotReady(FreeSlot),
           NEW k \in [Slots -> Cap], NEW c \in Cap, c # NullCap, Created(k, c),
           \A s \in Slots : s < FreeSlot => k[s] = caps[s]
    PROVE  /\ m' = m /\ Slots' = Slots /\ FreeSlot' = FreeSlot + 1
           /\ caps' = [k EXCEPT ![FreeSlot] = c]
           /\ Made' = Made \cup {obj_id_index} /\ obj_id_index \notin Made
           /\ orig'[obj_id_index] = FreeSlot /\ caps'[FreeSlot] = c
           /\ \A i \in Made : orig'[i] = orig[i] /\ caps'[orig[i]] = caps[orig[i]]
           /\ BootCapsStay'
           /\ OrigSlotsTaken'
<1>1. /\ m' = m /\ pc' = "create" /\ free_slot_start' = free_slot_start
      /\ free_slot_index' = free_slot_index + 1 /\ obj_id_index' = obj_id_index + 1
      /\ caps' = [k EXCEPT ![FreeSlot] = c]
      /\ orig' = [orig EXCEPT ![obj_id_index] = FreeSlot]
  BY DEF Created
<1>2. Slots' = Slots /\ FreeSlot' = FreeSlot + 1 /\ FreeSlot \in Slots
  BY <1>1, CreationFacts DEF Slots, LastSlot, FreeSlot, SlotReady
<1>3. obj_id_index \in DOMAIN m.objects
  BY CreationFacts
<1>4. \A i \in Made : /\ i \in DOMAIN m.objects /\ orig[i] # 0 /\ orig[i] \in Slots
                      /\ orig[i] > Len(m.untypeds) /\ orig[i] < FreeSlot
                      /\ caps[orig[i]] # NullCap /\ i < obj_id_index
  BY CreationFacts DEF CreationInv, OrigSlotsTaken, Creating, Made
<1>5. orig'[obj_id_index] = FreeSlot /\ caps'[FreeSlot] = c
  BY <1>1, <1>2, <1>3, CreationFacts
<1>6. obj_id_index \notin Made
  BY <1>4, CreationFacts
<1>7. \A i \in DOMAIN m.objects : i # obj_id_index => orig'[i] = orig[i]
  BY <1>1, CreationFacts
<1>8. \A s \in Slots : s < FreeSlot => caps'[s] = caps[s]
  BY <1>1, <1>2, CreationFacts
<1>9. \A i \in Made : orig'[i] = orig[i] /\ caps'[orig[i]] = caps[orig[i]]
  BY <1>4, <1>6, <1>7, <1>8
<1>10. Made' = Made \cup {obj_id_index}
  BY <1>1, <1>3, <1>5, <1>7, CreationFacts DEF Made
<1>11. BootCapsStay'
  <2>1. SUFFICES ASSUME NEW u \in DOMAIN m.untypeds PROVE caps'[u] = BootUntyped(u)'
    BY <1>1 DEF BootCapsStay
  <2>2. caps'[u] = caps[u]
    BY <1>8, CreationFacts
  <2>3. caps[u] = BootUntyped(u)
    BY DEF CreationInv, BootCapsStay
  <2>. QED
    BY <1>1, <2>2, <2>3 DEF BootUntyped
<1>12. OrigSlotsTaken'
  <2>1. free_slot_start' > Len(m'.untypeds)
    BY <1>1, CreationFacts
  <2>2. SUFFICES ASSUME NEW i \in Made'
                 PROVE  /\ orig'[i] > Len(m.untypeds) /\ orig'[i] < FreeSlot'
                        /\ caps'[orig'[i]] # NullCap /\ i < obj_id_index'
    BY <1>1, <2>1 DEF OrigSlotsTaken
  <2>3. CASE i = obj_id_index
    BY <1>1, <1>2, <1>5, <2>3, CreationFacts, SMTT(30)
  <2>4. CASE i \in Made
    <3>1. /\ i \in DOMAIN m.objects /\ orig[i] \in Slots /\ orig[i] > Len(m.untypeds)
          /\ orig[i] < FreeSlot /\ caps[orig[i]] # NullCap /\ i < obj_id_index
          /\ orig'[i] = orig[i] /\ caps'[orig[i]] = caps[orig[i]]
      BY <1>4, <1>9, <2>4
    <3>2. /\ orig[i] \in Nat /\ i \in Nat /\ FreeSlot \in Nat /\ obj_id_index \in Nat
      BY <3>1, CreationFacts
    <3>. QED
      BY <1>1, <1>2, <3>1, <3>2
  <2>. QED
    BY <1>10, <2>3, <2>4
<1>. QED
  BY <1>1, <1>2, <1>5, <1>6, <1>9, <1>10, <1>11, <1>12

(* What a successful create_object does to the memory of the objects, if   *)
(* the new cap is at the model's address and clear of the other objects.   *)
LEMMA CreatedMemory ==
    ASSUME CreationInv, Creating, obj_id_index <= Len(m.objects), SlotReady(FreeSlot),
           NEW k \in [Slots -> Cap], NEW c \in Cap, c # NullCap, Created(k, c),
           \A s \in Slots : s < FreeSlot => k[s] = caps[s],
           Obj.type \in MemoryTypes =>
              /\ c.ut \in DOMAIN m.untypeds
              /\ IsDeviceObject(Obj) => c.base = Obj.paddr
              /\ \A j \in MadeMem :
                    \/ c.base + c.size <= OrigCap(j).base
                    \/ OrigCap(j).base + OrigCap(j).size <= c.base
                    \/ /\ Obj.type = "Frame" /\ m.objects[j].type = "Frame"
                       /\ IsDeviceObject(Obj)
                       /\ Obj.paddr = m.objects[j].paddr /\ Obj.size = m.objects[j].size
    PROVE  NoOverlap' /\ DeviceAtPaddr' /\ OrigFromBoot'
<1>1. /\ m' = m
      /\ Made' = Made \cup {obj_id_index} /\ obj_id_index \notin Made
      /\ orig'[obj_id_index] = FreeSlot /\ caps'[FreeSlot] = c
      /\ \A i \in Made : orig'[i] = orig[i] /\ caps'[orig[i]] = caps[orig[i]]
  BY CreatedSlots
<1>2. /\ caps'[orig'[obj_id_index]] = c
      /\ \A i \in MadeMem : caps'[orig'[i]] = OrigCap(i)
  BY <1>1 DEF OrigCap, MadeMem
<1>3. \A i \in MadeMem' : \/ i \in MadeMem
                          \/ i = obj_id_index /\ Obj.type \in MemoryTypes
  BY <1>1 DEF MadeMem, Obj
<1>4. NoOverlap'
  <2>1. SUFFICES ASSUME NEW i \in MadeMem', NEW j \in MadeMem', i # j
                 PROVE  \/ caps'[orig'[i]].base + caps'[orig'[i]].size <= caps'[orig'[j]].base
                        \/ caps'[orig'[j]].base + caps'[orig'[j]].size <= caps'[orig'[i]].base
                        \/ /\ m.objects[i].type = "Frame" /\ m.objects[j].type = "Frame"
                           /\ IsDeviceObject(m.objects[i])
                           /\ m.objects[i].paddr = m.objects[j].paddr
                           /\ m.objects[i].size = m.objects[j].size
    BY <1>1 DEF NoOverlap, OrigCap, IsDeviceObject
  <2>2. CASE i \in MadeMem /\ j \in MadeMem
    BY <1>2, <2>1, <2>2 DEF CreationInv, NoOverlap
  <2>3. CASE i = obj_id_index /\ j \in MadeMem
    BY <1>2, <1>3, <2>1, <2>3 DEF Obj, MadeMem
  <2>4. CASE i \in MadeMem /\ j = obj_id_index
    BY <1>2, <1>3, <2>1, <2>4 DEF Obj, MadeMem, IsDeviceObject
  <2>. QED
    BY <1>3, <2>1, <2>2, <2>3, <2>4
<1>5. DeviceAtPaddr'
  <2>1. SUFFICES ASSUME NEW i \in MadeMem', IsDeviceObject(m.objects[i])
                 PROVE  caps'[orig'[i]].base = m.objects[i].paddr
    BY <1>1 DEF DeviceAtPaddr, OrigCap, IsDeviceObject
  <2>2. CASE i \in MadeMem
    BY <1>2, <2>1, <2>2 DEF CreationInv, DeviceAtPaddr
  <2>3. CASE i = obj_id_index /\ Obj.type \in MemoryTypes
    BY <1>2, <2>1, <2>3 DEF Obj
  <2>. QED
    BY <1>3, <2>2, <2>3
<1>6. OrigFromBoot'
  <2>1. SUFFICES ASSUME NEW i \in MadeMem'
                 PROVE  caps'[orig'[i]].ut \in DOMAIN m.untypeds
    BY <1>1 DEF OrigFromBoot
  <2>2. CASE i \in MadeMem
    BY <1>2, <2>1, <2>2 DEF CreationInv, OrigFromBoot, OrigCap
  <2>3. CASE i = obj_id_index /\ Obj.type \in MemoryTypes
    BY <1>2, <2>1, <2>3
  <2>. QED
    BY <1>3, <2>2, <2>3
<1>. QED
  BY <1>4, <1>5, <1>6

(* The watermarks after a retype of the boot untyped u: the new cap may    *)
(* have been deleted again, and with it a held child of u, as long as u    *)
(* has a child left.                                                       *)
LEMMA RetypedWatermarks ==
    ASSUME CreationInv, Creating, m' = m, NEW u \in DOMAIN m.untypeds,
           NEW s \in Nat \ {0}, NEW t \in MemoryTypes, Fits(u, s),
           free'[u] = FreeAfter(u, s),
           \A v \in DOMAIN m.untypeds : v # u => free'[v] = free[v],
           \E x \in Slots : caps'[x] # NullCap /\ caps'[x].ut = u,
           \A x \in Slots : \/ caps'[x] = caps[x]
                            \/ caps'[x] = NullCap /\ caps[x].ut = u
                            \/ caps'[x] = RetypedCap(t, u, s) /\ caps[x] = NullCap
    PROVE  /\ BelowWatermark' /\ WatermarkHeld'
           /\ \A v \in DOMAIN m.untypeds : free'[v] >= free[v]
<1>. DEFINE c == RetypedCap(t, u, s)
<1>1. /\ c \in Cap /\ c.ut = u
      /\ c.base >= m.untypeds[u].paddr + free[u]
      /\ c.base + c.size = m.untypeds[u].paddr + FreeAfter(u, s)
      /\ FreeAfter(u, s) \in Nat
      /\ FreeAfter(u, s) >= free[u] /\ FreeAfter(u, s) <= m.untypeds[u].size
  BY RetypedPlace
<1>2. \A v \in DOMAIN m.untypeds : /\ m.untypeds[v].paddr \in Nat /\ m.untypeds[v].size \in Nat
                                   /\ free[v] \in Nat
  BY CreationFacts, ModelFacts DEF Untyped
<1>3. \A v \in DOMAIN m.untypeds : free'[v] \in Nat /\ free'[v] >= free[v]
  BY <1>1, <1>2
<1>4. Slots' = Slots
  BY DEF Slots, LastSlot
<1>5. 0 \notin DOMAIN m.untypeds
  BY CreationFacts
<1>6. BelowWatermark'
  <2>1. SUFFICES ASSUME NEW x \in Slots, caps'[x].ut \in DOMAIN m.untypeds
                 PROVE  /\ m.untypeds[caps'[x].ut].paddr <= caps'[x].base
                        /\ caps'[x].base + caps'[x].size
                             <= m.untypeds[caps'[x].ut].paddr + free'[caps'[x].ut]
    BY <1>4 DEF BelowWatermark
  <2>2. CASE caps'[x] = caps[x]
    <3>. DEFINE v == caps[x].ut
    <3>1. /\ m.untypeds[v].paddr <= caps[x].base
          /\ caps[x].base + caps[x].size <= m.untypeds[v].paddr + free[v]
      BY <2>1, <2>2 DEF CreationInv, BelowWatermark
    <3>2. caps[x].base \in Nat /\ caps[x].size \in Nat /\ v \in DOMAIN m.untypeds
      BY <2>1, <2>2, CreationFacts DEF Cap
    <3>. HIDE DEF v
    <3>3. caps[x].base + caps[x].size <= m.untypeds[v].paddr + free'[v]
      BY <1>2, <1>3, <3>1, <3>2
    <3>. QED
      BY <2>2, <3>1, <3>3 DEF v
  <2>3. CASE caps'[x] = NullCap
    BY <1>5, <2>1, <2>3 DEF NullCap
  <2>4. CASE caps'[x] = c
    <3>1. c.base \in Nat /\ c.size \in Nat
      BY <1>1 DEF Cap
    <3>. HIDE DEF c
    <3>. QED
      BY <1>1, <1>2, <2>4, <3>1
  <2>. QED
    BY <2>2, <2>3, <2>4
<1>7. WatermarkHeld'
  <2>1. SUFFICES ASSUME NEW v \in DOMAIN m.untypeds
                 PROVE  /\ free'[v] <= m.untypeds[v].size
                        /\ free'[v] > 0 => \E x \in Slots : caps'[x] # NullCap /\ caps'[x].ut = v
    BY <1>4 DEF WatermarkHeld, NullCap
  <2>2. CASE v = u
    BY <1>1, <2>2
  <2>3. CASE v # u
    <3>1. /\ free'[v] = free[v] /\ free[v] <= m.untypeds[v].size
          /\ free[v] > 0 => \E x \in Slots : caps[x] # NullCap /\ caps[x].ut = v
      BY <2>3 DEF CreationInv, WatermarkHeld
    <3>2. ASSUME NEW x \in Slots, caps[x] # NullCap, caps[x].ut = v
          PROVE  caps'[x] = caps[x]
      BY <2>3, <3>2
    <3>. QED
      BY <3>1, <3>2
  <2>. QED
    BY <2>2, <2>3
<1>. QED
  BY <1>3, <1>6, <1>7

(* The watermarks after a step that fills empty slots only, with caps that *)
(* are not of boot memory or are copies.                                   *)
LEMMA CopiedWatermarks ==
    ASSUME CreationInv, Creating, m' = m, free' = free,
           \A x \in Slots : \/ caps'[x] = caps[x]
                            \/ /\ caps[x] = NullCap
                               /\ (caps'[x].ut = 0 \/ \E y \in Slots : caps'[x] = caps[y])
    PROVE  BelowWatermark' /\ WatermarkHeld'
<1>1. Slots' = Slots /\ 0 \notin DOMAIN m.untypeds
  BY CreationFacts DEF Slots, LastSlot
<1>2. BelowWatermark'
  <2>1. SUFFICES ASSUME NEW x \in Slots, caps'[x].ut \in DOMAIN m.untypeds
                 PROVE  /\ m.untypeds[caps'[x].ut].paddr <= caps'[x].base
                        /\ caps'[x].base + caps'[x].size
                             <= m.untypeds[caps'[x].ut].paddr + free[caps'[x].ut]
    BY <1>1 DEF BelowWatermark
  <2>2. PICK y \in Slots : caps'[x] = caps[y]
    BY <1>1, <2>1
  <2>. QED
    BY <2>1, <2>2 DEF CreationInv, BelowWatermark
<1>3. WatermarkHeld'
  <2>1. SUFFICES ASSUME NEW v \in DOMAIN m.untypeds
                 PROVE  /\ free[v] <= m.untypeds[v].size
                        /\ free[v] > 0 => \E x \in Slots : caps'[x] # NullCap /\ caps'[x].ut = v
    BY <1>1 DEF WatermarkHeld, NullCap
  <2>2. /\ free[v] <= m.untypeds[v].size
        /\ free[v] > 0 => \E x \in Slots : caps[x] # NullCap /\ caps[x].ut = v
    BY DEF CreationInv, WatermarkHeld
  <2>3. ASSUME NEW x \in Slots, caps[x] # NullCap
        PROVE  caps'[x] = caps[x]
    BY <2>3
  <2>. QED
    BY <2>2, <2>3
<1>. QED
  BY <1>2, <1>3
-----------------------------------------------------------------------------
(* A step that leaves the slots and the watermarks alone. *)
LEMMA Undisturbed ==
    ASSUME CreationInv, TypeInv', UNCHANGED <<m, orig, caps, free>>,
           Creating' => Creating /\ obj_id_index' >= obj_id_index,
           pc' # "done" => pc # "done" /\ FreeSlot' = FreeSlot,
           free_slot_start' >= free_slot_start, free_slot_start' \in Nat,
           obj_id_index' \in Nat,
           pc' = "search" /\ hold' => pc = "search" /\ hold /\ dev' = dev
    PROVE  CreationInv' /\ \A u \in DOMAIN m.untypeds : free'[u] >= free[u]
<1>1. Slots' = Slots /\ Made' = Made /\ MadeMem' = MadeMem
  BY DEF Slots, LastSlot, Made, MadeMem
<1>2. m' \in Models /\ TypeOK' /\ SearchState'
  BY DEF TypeInv
<1>3. BootCapsStay'
  BY DEF CreationInv, BootCapsStay, BootUntyped
<1>4. Creating' => BelowWatermark' /\ WatermarkHeld'
  BY <1>1 DEF CreationInv, BelowWatermark, WatermarkHeld, NullCap
<1>5. HoldState'
  <2>1. SUFFICES ASSUME pc' = "search", hold'
                 PROVE  HoldSlot' \in Slots /\ caps[HoldSlot'] # NullCap /\ caps[HoldSlot'].ut = dev
    BY <1>1 DEF HoldState, NullCap
  <2>2. HoldSlot' = HoldSlot
    BY <2>1 DEF HoldSlot
  <2>. QED
    BY <2>1, <2>2 DEF CreationInv, HoldState
<1>6. OrigSlotsTaken'
  <2>1. free_slot_start' > Len(m.untypeds)
    BY CreationFacts
  <2>2. SUFFICES ASSUME NEW i \in Made
                 PROVE  /\ orig[i] > Len(m.untypeds)
                        /\ pc' # "done" => orig[i] < FreeSlot'
                        /\ caps[orig[i]] # NullCap
                        /\ Creating' => i < obj_id_index'
    BY <1>1, <2>1 DEF OrigSlotsTaken, NullCap
  <2>3. /\ orig[i] > Len(m.untypeds)
        /\ pc # "done" => orig[i] < FreeSlot
        /\ caps[orig[i]] # NullCap
        /\ Creating => i < obj_id_index
    BY DEF CreationInv, OrigSlotsTaken
  <2>4. i \in Nat /\ obj_id_index \in Nat
    BY CreationFacts DEF Made
  <2>. QED
    BY <2>3, <2>4
<1>7. OrigFromBoot'
  BY <1>1 DEF CreationInv, OrigFromBoot
<1>8. NoOverlap'
  BY <1>1 DEF CreationInv, NoOverlap, OrigCap, IsDeviceObject
<1>9. DeviceAtPaddr'
  BY <1>1 DEF CreationInv, DeviceAtPaddr, OrigCap, IsDeviceObject
<1>10. \A u \in DOMAIN m.untypeds : free'[u] >= free[u]
  BY CreationFacts
<1>. QED
  BY <1>2, <1>3, <1>4, <1>5, <1>6, <1>7, <1>8, <1>9, <1>10 DEF CreationInv

(* A created object: the conjuncts that CreatedSlots and CreatedMemory     *)
(* establish, with the watermarks, make the invariant.                     *)
LEMMA CreatedInv ==
    ASSUME TypeInv', pc' = "create", BootCapsStay', BelowWatermark', WatermarkHeld',
           OrigSlotsTaken', OrigFromBoot', NoOverlap', DeviceAtPaddr'
    PROVE  CreationInv'
<1>1. HoldState'
  BY DEF HoldState
<1>. QED
  BY <1>1 DEF CreationInv, TypeInv

LEMMA IssueObjectInv ==
    ASSUME CreationInv, TypeInv', IssueObject
    PROVE  CreationInv' /\ \A u \in DOMAIN m.untypeds : free'[u] >= free[u]
<1>1. /\ Creating /\ obj_id_index <= Len(m.objects) /\ SlotReady(FreeSlot)
      /\ Created(caps, IssuedCap) /\ free' = free /\ pc' = "create"
      /\ Obj.type \in IssuedTypes
  BY DEF IssueObject, At, InLoop, Creating, Created
<1>2. caps \in [Slots -> Cap] /\ IssuedCap \in Cap /\ IssuedCap # NullCap /\ IssuedCap.ut = 0
  <2>1. sid_number \in Nat
    BY DEF CreationInv, TypeOK
  <2>. QED
    BY <1>1, <2>1, CreationFacts DEF IssuedCap, Cap, Types, IssuedTypes, NullCap
<1>3. Obj.type \notin MemoryTypes
  BY <1>1 DEF IssuedTypes, MemoryTypes
<1>4. /\ m' = m /\ caps' = [caps EXCEPT ![FreeSlot] = IssuedCap]
      /\ BootCapsStay' /\ OrigSlotsTaken'
  BY <1>1, <1>2, CreatedSlots
<1>5. NoOverlap' /\ DeviceAtPaddr' /\ OrigFromBoot'
  BY <1>1, <1>2, <1>3, CreatedMemory
<1>6. BelowWatermark' /\ WatermarkHeld'
  <2>1. \A x \in Slots : \/ caps'[x] = caps[x]
                         \/ caps[x] = NullCap /\ caps'[x].ut = 0
    BY <1>1, <1>2, <1>4 DEF SlotReady
  <2>. QED
    BY <1>1, <1>4, <2>1, CopiedWatermarks
<1>. QED
  BY <1>1, <1>4, <1>5, <1>6, CreatedInv, CreationFacts

LEMMA RetypeUntypedInv ==
    ASSUME CreationInv, TypeInv', RetypeUntyped
    PROVE  CreationInv' /\ \A u \in DOMAIN m.untypeds : free'[u] >= free[u]
<1>. DEFINE s == KernelSize(Obj)
            t == KernelType(Obj)
            u == untyped_cptr
            c == RetypedCap(t, u, s)
<1>1. /\ Creating /\ obj_id_index <= Len(m.objects) /\ SlotReady(FreeSlot)
      /\ ut_index <= num_normal_untypes
      /\ Created(caps, c) /\ pc' = "create" /\ u # 0 /\ Fits(u, s)
      /\ free' = [free EXCEPT ![u] = FreeAfter(u, s)]
      /\ Obj.type \in MemoryTypes /\ ~IsDeviceObject(Obj)
  BY DEF RetypeUntyped, NormalObject, At, InLoop, Creating, Created
<1>2. s \in Nat \ {0} /\ t \in MemoryTypes
  BY <1>1, ObjFacts DEF CreationInv, TypeOK
<1>3. u \in DOMAIN m.untypeds /\ u \in Slots
  <2>1. untyped_cptrs \in [DOMAIN m.untypeds -> DOMAIN m.untypeds \cup {0}] /\ ut_index \in Nat \ {0}
    BY DEF CreationInv, TypeOK
  <2>2. ut_index \in DOMAIN m.untypeds
    BY <1>1, <2>1, NormalCount, CreationFacts
  <2>. QED
    BY <1>1, <2>1, <2>2, CreationFacts DEF untyped_cptr
<1>. HIDE DEF s, t, u
<1>4. c \in Cap /\ c # NullCap /\ c.ut = u /\ caps \in [Slots -> Cap]
  BY <1>1, <1>2, <1>3, RetypedPlace, CreationFacts
<1>5. \A j \in MadeMem : \/ c.base + c.size <= OrigCap(j).base
                         \/ OrigCap(j).base + OrigCap(j).size <= c.base
  <2>1. \A j \in MadeMem : orig[j] \in Slots /\ caps[orig[j]].ut \in DOMAIN m.untypeds
    BY <1>1, CreationFacts DEF CreationInv, OrigFromBoot, Creating, MadeMem, Made
  <2>. QED
    BY <1>1, <1>2, <1>3, <2>1, RetypedDisjoint DEF OrigCap
<1>. HIDE DEF c
<1>6. /\ m' = m /\ caps' = [caps EXCEPT ![FreeSlot] = c]
      /\ BootCapsStay' /\ OrigSlotsTaken'
  BY <1>1, <1>4, CreatedSlots
<1>7. NoOverlap' /\ DeviceAtPaddr' /\ OrigFromBoot'
  BY <1>1, <1>3, <1>4, <1>5, CreatedMemory
<1>8. /\ BelowWatermark' /\ WatermarkHeld'
      /\ \A v \in DOMAIN m.untypeds : free'[v] >= free[v]
  <2>. caps[FreeSlot] = NullCap /\ FreeSlot \in Slots
    BY <1>1 DEF SlotReady
  <2>1. \A x \in Slots : caps'[x] = caps[x] \/ (caps'[x] = c /\ caps[x] = NullCap)
    BY <1>4, <1>6
  <2>2. \E x \in Slots : caps'[x] # NullCap /\ caps'[x].ut = u
    BY <1>1, <1>4, <1>6 DEF SlotReady
  <2>3. free'[u] = FreeAfter(u, s) /\ \A v \in DOMAIN m.untypeds : v # u => free'[v] = free[v]
    BY <1>1, <1>3, CreationFacts
  <2>. QED
    BY <1>1, <1>2, <1>3, <1>6, <2>1, <2>2, <2>3, RetypedWatermarks DEF c
<1>. QED
  BY <1>1, <1>6, <1>7, <1>8, CreatedInv

LEMMA CopyPreviousInv ==
    ASSUME CreationInv, TypeInv', CopyPrevious, ~Abort
    PROVE  CreationInv' /\ \A u \in DOMAIN m.untypeds : free'[u] >= free[u]
<1>. DEFINE i == obj_id_index - 1
            c == caps[orig[i]]
<1>1. /\ Creating /\ obj_id_index <= Len(m.objects) /\ SlotReady(FreeSlot)
      /\ Created(caps, c) /\ pc' = "create" /\ orig[i] # 0 /\ free' = free
      /\ Obj.type \in MemoryTypes /\ IsDeviceObject(Obj)
      /\ KernelType(Obj) # "Untyped" /\ obj_id_index > 1
      /\ m.objects[i].type = "Frame" /\ m.objects[i].paddr = Obj.paddr
      /\ m.objects[i].size = Obj.size
  BY DEF CopyPrevious, DeviceObject, SameAsPrevious, SameFrame, At, InLoop, Creating, Created
<1>2. Obj.type = "Frame" /\ i \in DOMAIN m.objects
  <2>1. obj_id_index \in DOMAIN m.objects /\ i \in DOMAIN m.objects
    BY <1>1, CreationFacts
  <2>2. Obj.type \in {"Frame", "Untyped"}
    BY <1>1, <2>1, CreationFacts, ModelFacts DEF Obj, IsDeviceObject
  <2>. QED
    BY <1>1, <2>1, <2>2 DEF KernelType
<1>. HIDE DEF i
<1>3. i \in MadeMem
  BY <1>1, <1>2 DEF MadeMem, Made, MemoryTypes
<1>4. orig[i] \in Slots /\ c \in Cap /\ c # NullCap /\ caps \in [Slots -> Cap]
  BY <1>3, CreationFacts DEF CreationInv, OrigSlotsTaken, MadeMem, Made
<1>5. c.ut \in DOMAIN m.untypeds /\ c.base = Obj.paddr
  BY <1>1, <1>3 DEF CreationInv, OrigFromBoot, DeviceAtPaddr, OrigCap, IsDeviceObject
<1>6. \A j \in MadeMem : \/ c.base + c.size <= OrigCap(j).base
                         \/ OrigCap(j).base + OrigCap(j).size <= c.base
                         \/ /\ m.objects[j].type = "Frame"
                            /\ Obj.paddr = m.objects[j].paddr /\ Obj.size = m.objects[j].size
  <2>1. SUFFICES ASSUME NEW j \in MadeMem, j # i
                 PROVE  \/ c.base + c.size <= OrigCap(j).base
                        \/ OrigCap(j).base + OrigCap(j).size <= c.base
                        \/ /\ m.objects[j].type = "Frame"
                           /\ m.objects[i].paddr = m.objects[j].paddr
                           /\ m.objects[i].size = m.objects[j].size
    BY <1>1
  <2>. QED
    BY <1>3, <2>1 DEF CreationInv, NoOverlap, OrigCap
<1>. HIDE DEF c
<1>7. /\ m' = m /\ caps' = [caps EXCEPT ![FreeSlot] = c]
      /\ BootCapsStay' /\ OrigSlotsTaken'
  BY <1>1, <1>4, CreatedSlots
<1>8. NoOverlap' /\ DeviceAtPaddr' /\ OrigFromBoot'
  BY <1>1, <1>2, <1>4, <1>5, <1>6, CreatedMemory
<1>9. BelowWatermark' /\ WatermarkHeld'
  <2>1. \A x \in Slots : \/ caps'[x] = caps[x]
                         \/ caps[x] = NullCap /\ caps'[x] = caps[orig[i]]
    BY <1>1, <1>4, <1>7 DEF SlotReady, c
  <2>. QED
    BY <1>1, <1>4, <1>7, <2>1, CopiedWatermarks
<1>. QED
  BY <1>1, <1>7, <1>8, <1>9, CreatedInv, CreationFacts

(* The round of the search that finds the object, and what it allocates. *)
LEMMA ProbePlace ==
    ASSUME CreationInv, Probed
    PROVE  /\ Creating /\ obj_id_index <= Len(m.objects) /\ SlotReady(FreeSlot)
           /\ Obj.type \in MemoryTypes /\ IsDeviceObject(Obj)
           /\ dev \in DOMAIN m.untypeds /\ dev \in Slots /\ Fits(dev, KernelSize(Obj))
           /\ KernelSize(Obj) \in Nat \ {0} /\ KernelType(Obj) \in MemoryTypes
           /\ Candidate \in Cap /\ Candidate # NullCap /\ Candidate.ut = dev
           /\ HoldSlot > FreeSlot /\ HoldSlot \in Nat
           /\ \A s \in Slots : s > Len(m.untypeds) =>
                 /\ FreeProbed(s)[dev] = FreeAfter(dev, KernelSize(Obj))
                 /\ \A v \in DOMAIN m.untypeds : v # dev => FreeProbed(s)[v] = free[v]
<1>1. /\ pc = "search" /\ SlotReady(FreeSlot) /\ Fits(dev, KernelSize(Obj)) /\ TypeInv
  BY CreationFacts DEF Probed
<1>2. /\ obj_id_index <= Len(m.objects) /\ Obj.type \in MemoryTypes /\ IsDeviceObject(Obj)
      /\ dev \in DOMAIN m.untypeds /\ dev \in Slots
      /\ KernelSize(Obj) \in Nat \ {0} /\ KernelType(Obj) \in MemoryTypes
      /\ Candidate \in Cap /\ Candidate # NullCap
  BY <1>1, ProbeFacts DEF CreationInv, SearchState
<1>3. Candidate.ut = dev
  BY DEF Candidate, RetypedCap
<1>4. HoldSlot > FreeSlot /\ HoldSlot \in Nat
  BY CreationFacts DEF HoldSlot
<1>5. ASSUME NEW s \in Slots, s > Len(m.untypeds)
      PROVE  /\ FreeProbed(s)[dev] = FreeAfter(dev, KernelSize(Obj))
             /\ \A v \in DOMAIN m.untypeds : v # dev => FreeProbed(s)[v] = free[v]
  <2>1. \A v \in DOMAIN m.untypeds : v # s /\ v \in Slots
    BY <1>5, CreationFacts
  <2>. QED
    BY <1>2, <2>1, CreationFacts DEF FreeProbed
<1>6. Creating
  BY <1>1 DEF Creating
<1>. QED
  BY <1>1, <1>2, <1>3, <1>4, <1>5, <1>6

LEMMA ProbeFoundInv ==
    ASSUME CreationInv, TypeInv', ProbeFound
    PROVE  CreationInv' /\ \A u \in DOMAIN m.untypeds : free'[u] >= free[u]
<1>. DEFINE k == IF hold THEN [caps EXCEPT ![HoldSlot] = NullCap] ELSE caps
            c == Candidate
<1>1. Probed /\ c.base = Obj.paddr /\ free' = FreeProbed(FreeSlot) /\ Created(k, c) /\ pc' = "create"
  BY DEF ProbeFound, AtAddress, FoundSlots, Created
<1>2. /\ Creating /\ obj_id_index <= Len(m.objects) /\ FreeSlot \in Slots
      /\ SlotReady(FreeSlot) /\ caps[FreeSlot] = NullCap
      /\ dev \in DOMAIN m.untypeds /\ Fits(dev, KernelSize(Obj))
      /\ KernelSize(Obj) \in Nat \ {0} /\ KernelType(Obj) \in MemoryTypes
      /\ c \in Cap /\ c # NullCap /\ c.ut = dev
      /\ HoldSlot > FreeSlot /\ HoldSlot \in Nat
  BY <1>1, ProbePlace DEF SlotReady
<1>3. /\ free'[dev] = FreeAfter(dev, KernelSize(Obj))
      /\ \A v \in DOMAIN m.untypeds : v # dev => free'[v] = free[v]
  BY <1>1, <1>2, ProbePlace, CreationFacts
<1>4. /\ k \in [Slots -> Cap]
      /\ \A s \in Slots : s < FreeSlot => k[s] = caps[s]
      /\ \A s \in Slots : k[s] = caps[s] \/ (k[s] = NullCap /\ caps[s].ut = dev)
  <2>1. caps \in [Slots -> Cap] /\ NullCap \in Cap /\ \A s \in Slots : s \in Nat
    BY CreationFacts DEF NullCap, Cap
  <2>2. hold => caps[HoldSlot].ut = dev
    BY <1>1 DEF CreationInv, HoldState, Probed
  <2>3. CASE hold
    <3>1. k = [caps EXCEPT ![HoldSlot] = NullCap]
      BY <2>3
    <3>2. k \in [Slots -> Cap] /\ \A s \in Slots : k[s] = IF s = HoldSlot THEN NullCap ELSE caps[s]
      BY <2>1, <3>1
    <3>3. \A s \in Slots : s < FreeSlot => s # HoldSlot
      BY <1>2, <2>1
    <3>. HIDE DEF k
    <3>. QED
      BY <2>2, <2>3, <3>2, <3>3
  <2>4. CASE ~hold
    BY <2>1, <2>4
  <2>. QED
    BY <2>3, <2>4
<1>5. \A j \in MadeMem : \/ c.base + c.size <= OrigCap(j).base
                         \/ OrigCap(j).base + OrigCap(j).size <= c.base
  <2>1. \A j \in MadeMem : orig[j] \in Slots /\ caps[orig[j]].ut \in DOMAIN m.untypeds
    BY <1>2, CreationFacts DEF CreationInv, OrigFromBoot, Creating, MadeMem, Made
  <2>. QED
    BY <1>2, <2>1, RetypedDisjoint DEF OrigCap, Candidate
<1>. HIDE DEF c, k
<1>6. /\ m' = m /\ caps' = [k EXCEPT ![FreeSlot] = c]
      /\ BootCapsStay' /\ OrigSlotsTaken'
  BY <1>1, <1>2, <1>4, CreatedSlots
<1>7. NoOverlap' /\ DeviceAtPaddr' /\ OrigFromBoot'
  BY <1>1, <1>2, <1>4, <1>5, CreatedMemory
<1>8. /\ BelowWatermark' /\ WatermarkHeld'
      /\ \A v \in DOMAIN m.untypeds : free'[v] >= free[v]
  <2>1. \A x \in Slots : \/ caps'[x] = caps[x]
                         \/ caps'[x] = NullCap /\ caps[x].ut = dev
                         \/ caps'[x] = c /\ caps[x] = NullCap
    BY <1>2, <1>4, <1>6
  <2>2. \E x \in Slots : caps'[x] # NullCap /\ caps'[x].ut = dev
    BY <1>2, <1>4, <1>6
  <2>. QED
    BY <1>2, <1>3, <1>6, <2>1, <2>2, RetypedWatermarks DEF c, Candidate
<1>. QED
  BY <1>1, <1>6, <1>7, <1>8, CreatedInv

(* A step that keeps the created objects, and their memory. *)
LEMMA MemoryKept ==
    ASSUME CreationInv, m' = m, Made' = Made,
           \A i \in MadeMem : /\ caps'[orig'[i]].base = caps[orig[i]].base
                              /\ caps'[orig'[i]].size = caps[orig[i]].size
    PROVE  NoOverlap' /\ DeviceAtPaddr'
<1>1. MadeMem' = MadeMem
  BY DEF MadeMem
<1>2. NoOverlap'
  BY <1>1 DEF CreationInv, NoOverlap, OrigCap, IsDeviceObject
<1>3. DeviceAtPaddr'
  BY <1>1 DEF CreationInv, DeviceAtPaddr, OrigCap, IsDeviceObject
<1>. QED
  BY <1>2, <1>3

LEMMA ProbeMissedInv ==
    ASSUME CreationInv, TypeInv', ProbeMissed
    PROVE  CreationInv' /\ \A u \in DOMAIN m.untypeds : free'[u] >= free[u]
<1>. DEFINE c == Candidate
<1>1. /\ Probed /\ pc = "search" /\ hold' = TRUE
      /\ hold \/ SlotReady(HoldSlot)
      /\ caps' = IF hold THEN caps ELSE [caps EXCEPT ![HoldSlot] = c]
      /\ free' = IF hold THEN [free EXCEPT ![dev] = FreeAfter(dev, KernelSize(Obj))]
                         ELSE FreeProbed(HoldSlot)
      /\ UNCHANGED <<m, pc, obj_id_index, free_slot_index, free_slot_start, dev, orig>>
  BY DEF ProbeMissed, MissedSlots, Probed, loopVars
<1>2. /\ Creating
      /\ dev \in DOMAIN m.untypeds /\ dev \in Slots /\ Fits(dev, KernelSize(Obj))
      /\ KernelSize(Obj) \in Nat \ {0} /\ KernelType(Obj) \in MemoryTypes
      /\ c \in Cap /\ c # NullCap /\ c.ut = dev
      /\ HoldSlot > FreeSlot /\ HoldSlot \in Nat /\ HoldSlot > Len(m.untypeds)
  BY <1>1, ProbePlace, CreationFacts
<1>3. Slots' = Slots /\ FreeSlot' = FreeSlot /\ HoldSlot' = HoldSlot
  BY <1>1 DEF Slots, LastSlot, FreeSlot, HoldSlot
<1>. HIDE DEF c
<1>4. HoldSlot \in Slots /\ caps'[HoldSlot] # NullCap /\ caps'[HoldSlot].ut = dev
  <2>1. CASE hold
    BY <1>1, <2>1 DEF CreationInv, HoldState
  <2>2. CASE ~hold
    BY <1>1, <1>2, <2>2, CreationFacts DEF SlotReady
  <2>. QED
    BY <2>1, <2>2
<1>5. \A x \in Slots : caps'[x] = caps[x] \/ (caps'[x] = c /\ caps[x] = NullCap /\ x = HoldSlot)
  <2>1. CASE hold
    BY <1>1, <2>1
  <2>2. CASE ~hold
    BY <1>1, <1>2, <2>2, CreationFacts DEF SlotReady
  <2>. QED
    BY <2>1, <2>2
<1>6. /\ free'[dev] = FreeAfter(dev, KernelSize(Obj))
      /\ \A v \in DOMAIN m.untypeds : v # dev => free'[v] = free[v]
  <2>1. CASE hold
    BY <1>1, <1>2, <2>1, CreationFacts
  <2>2. CASE ~hold
    BY <1>1, <1>2, <1>4, <2>2, ProbePlace
  <2>. QED
    BY <2>1, <2>2
<1>7. /\ BelowWatermark' /\ WatermarkHeld'
      /\ \A v \in DOMAIN m.untypeds : free'[v] >= free[v]
  BY <1>1, <1>2, <1>4, <1>5, <1>6, RetypedWatermarks DEF c, Candidate
<1>8. HoldState'
  BY <1>1, <1>3, <1>4 DEF HoldState, NullCap
<1>9. Made' = Made /\ MadeMem' = MadeMem
  BY <1>1 DEF Made, MadeMem
<1>10. \A i \in Made : /\ orig[i] > Len(m.untypeds) /\ orig[i] < FreeSlot
                       /\ caps[orig[i]] # NullCap /\ caps'[orig[i]] = caps[orig[i]]
                       /\ i < obj_id_index
  <2>1. \A i \in Made : orig[i] \in Slots
    BY CreationFacts DEF Made
  <2>2. \A i \in Made : /\ orig[i] > Len(m.untypeds) /\ orig[i] < FreeSlot
                        /\ caps[orig[i]] # NullCap /\ i < obj_id_index
    BY <1>1, <1>2 DEF CreationInv, OrigSlotsTaken, Creating
  <2>. QED
    BY <1>5, <2>1, <2>2
<1>11. OrigSlotsTaken'
  BY <1>1, <1>3, <1>9, <1>10, CreationFacts DEF OrigSlotsTaken, NullCap
<1>12. BootCapsStay'
  <2>1. \A u \in DOMAIN m.untypeds : caps'[u] = caps[u]
    BY <1>2, <1>5, CreationFacts
  <2>. QED
    BY <1>1, <2>1 DEF CreationInv, BootCapsStay, BootUntyped
<1>13. OrigFromBoot'
  BY <1>1, <1>2, <1>9, <1>10 DEF CreationInv, OrigFromBoot, MadeMem
<1>14. NoOverlap' /\ DeviceAtPaddr'
  BY <1>1, <1>9, <1>10, MemoryKept DEF MadeMem
<1>. QED
  BY <1>7, <1>8, <1>11, <1>12, <1>13, <1>14 DEF CreationInv, TypeInv

LEMMA MakePoolInv ==
    ASSUME CreationInv, TypeInv', MakePool, ~Abort
    PROVE  CreationInv' /\ \A u \in DOMAIN m.untypeds : free'[u] >= free[u]
<1>. DEFINE o == PoolObject
            u == orig[o]
            c == [type |-> "ASIDPool", base |-> caps[u].base, size |-> ASIDPoolSize, ut |-> u]
<1>1. /\ pc = "asid" /\ asid_high <= Len(m.asid)
      /\ u # 0 /\ caps[u].size = ASIDPoolSize
      /\ FreeSlot \in Slots /\ caps[FreeSlot] = NullCap
      /\ caps' = [caps EXCEPT ![FreeSlot] = c]
      /\ free' = [free EXCEPT ![u] = ASIDPoolSize]
      /\ orig' = [orig EXCEPT ![o] = FreeSlot]
      /\ free_slot_index' = free_slot_index + 1
      /\ UNCHANGED <<m, pc, free_slot_start>>
  BY DEF MakePool, PoolRecorded, PoolMemory, SlotReady
<1>2. o \in DOMAIN m.objects /\ o \in Made
  <2>1. asid_high \in DOMAIN m.asid
    BY <1>1, CreationFacts, DomainFacts DEF CreationInv, TypeOK
  <2>2. o \in DOMAIN m.objects
    BY <2>1, CreationFacts, ModelFacts DEF PoolObject
  <2>. QED
    BY <1>1, <2>2 DEF Made
<1>3. \A i \in Made : /\ orig[i] \in Slots /\ orig[i] > Len(m.untypeds) /\ orig[i] < FreeSlot
                      /\ caps[orig[i]] # NullCap
  BY <1>1, CreationFacts DEF CreationInv, OrigSlotsTaken, Made
<1>4. c # NullCap /\ c.base = caps[u].base /\ c.size = caps[u].size
  BY <1>1 DEF NullCap
<1>. HIDE DEF c, o
<1>5. Slots' = Slots /\ FreeSlot' = FreeSlot + 1
  BY <1>1, CreationFacts DEF Slots, LastSlot, FreeSlot
<1>6. Made' = Made
  BY <1>1, <1>2, CreationFacts DEF Made
<1>7. \A i \in Made : caps'[orig'[i]] = IF i = o THEN c ELSE caps[orig[i]]
  <2>1. orig'[o] = FreeSlot /\ caps'[FreeSlot] = c
    BY <1>1, <1>2, CreationFacts
  <2>2. \A i \in Made : i # o => orig'[i] = orig[i]
    BY <1>1, CreationFacts DEF Made
  <2>3. \A i \in Made : caps'[orig[i]] = caps[orig[i]]
    BY <1>1, <1>3, CreationFacts
  <2>. QED
    BY <2>1, <2>2, <2>3
<1>8. NoOverlap' /\ DeviceAtPaddr'
  <2>1. \A i \in MadeMem : /\ caps'[orig'[i]].base = caps[orig[i]].base
                           /\ caps'[orig'[i]].size = caps[orig[i]].size
    BY <1>4, <1>7 DEF MadeMem
  <2>. QED
    BY <1>1, <1>6, <2>1, MemoryKept
<1>9. OrigSlotsTaken'
  <2>1. SUFFICES ASSUME NEW i \in Made
                 PROVE  /\ orig'[i] > Len(m.untypeds) /\ orig'[i] < FreeSlot'
                        /\ caps'[orig'[i]] # NullCap
    BY <1>1, <1>6, CreationFacts DEF OrigSlotsTaken, Creating, NullCap
  <2>2. CASE i = o
    BY <1>1, <1>2, <1>4, <1>5, <1>7, <2>2, CreationFacts
  <2>3. CASE i # o
    <3>1. orig'[i] = orig[i] /\ orig[i] \in Nat
      BY <1>1, <1>3, <2>3, CreationFacts DEF Made
    <3>. QED
      BY <1>3, <1>5, <1>7, <2>3, <3>1, CreationFacts
  <2>. QED
    BY <2>2, <2>3
<1>10. BootCapsStay'
  <2>1. \A v \in DOMAIN m.untypeds : caps'[v] = caps[v]
    BY <1>1, CreationFacts
  <2>. QED
    BY <1>1, <2>1 DEF CreationInv, BootCapsStay, BootUntyped
<1>11. \A v \in DOMAIN m.untypeds : free'[v] >= free[v]
  <2>1. \A v \in DOMAIN m.untypeds : v # u /\ v \in Slots /\ free[v] \in Nat
    BY <1>2, <1>3, CreationFacts
  <2>. QED
    BY <1>1, <2>1, CreationFacts
<1>12. HoldState' /\ OrigFromBoot' /\ ~Creating'
  BY <1>1 DEF HoldState, OrigFromBoot, Creating
<1>. QED
  BY <1>8, <1>9, <1>10, <1>11, <1>12 DEF CreationInv, TypeInv
-----------------------------------------------------------------------------
LEMMA InitCreation == Init => CreationInv
<1>. SUFFICES ASSUME Init PROVE CreationInv
  OBVIOUS
<1>1. m \in Models /\ TypeOK /\ SearchState
  BY InitTypes DEF TypeInv
<1>2. /\ DOMAIN m.untypeds \subseteq Slots /\ 0 \notin DOMAIN m.untypeds
      /\ Len(m.untypeds) \in Nat
  BY <1>1, DomainFacts
<1>3. \A s \in Slots : caps[s] = IF s \in DOMAIN m.untypeds THEN BootUntyped(s) ELSE NullCap
  BY DEF Init, BootCaps, BootUntyped
<1>4. \A s \in Slots : caps[s].ut = 0 /\ free[s] = 0
  BY <1>3 DEF Init, BootCaps, BootUntyped, NullCap
<1>5. BootCapsStay
  BY <1>2, <1>3 DEF BootCapsStay
<1>6. BelowWatermark
  BY <1>2, <1>4 DEF BelowWatermark
<1>7. WatermarkHeld
  BY <1>1, <1>2, <1>4, ModelFacts DEF WatermarkHeld, Untyped
<1>8. Made = {} /\ MadeMem = {}
  BY DEF Init, BootCaps, Made, MadeMem
<1>9. HoldState
  BY DEF Init, BootCaps, HoldState
<1>10. OrigSlotsTaken
  BY <1>2, <1>8 DEF Init, BootCaps, OrigSlotsTaken
<1>11. OrigFromBoot /\ NoOverlap /\ DeviceAtPaddr
  BY <1>8 DEF OrigFromBoot, NoOverlap, DeviceAtPaddr
<1>. QED
  BY <1>1, <1>5, <1>6, <1>7, <1>9, <1>10, <1>11 DEF CreationInv

LEMMA StepCreation ==
    ASSUME CreationInv, [Next]_vars
    PROVE  CreationInv' /\ \A u \in DOMAIN m.untypeds : free'[u] >= free[u]
<1>1. TypeInv'
  BY StepTypes, CreationFacts
<1>2. CASE Abort /\ pc # "done"
  BY <1>1, <1>2, Undisturbed, CreationFacts DEF Abort, Creating, FreeSlot, loopVars
<1>3. CASE ParseBootinfo /\ ~Abort
  BY <1>1, <1>3, Undisturbed, CreationFacts DEF ParseBootinfo, Creating, FreeSlot, loopVars
<1>4. CASE SkipObject
  BY <1>1, <1>4, Undisturbed, CreationFacts DEF SkipObject, At, Creating, FreeSlot
<1>5. CASE IssueObject
  BY <1>1, <1>5, IssueObjectInv
<1>6. CASE RetypeUntyped
  BY <1>1, <1>6, RetypeUntypedInv
<1>7. CASE NextUntyped
  BY <1>1, <1>7, Undisturbed, CreationFacts DEF NextUntyped, NormalObject, At, Creating, FreeSlot
<1>8. CASE CopyPrevious /\ ~Abort
  BY <1>1, <1>8, CopyPreviousInv
<1>9. CASE SearchUntyped /\ ~Abort
  <2>1. /\ pc = "create" /\ pc' = "search" /\ hold' = FALSE
        /\ UNCHANGED <<m, loopVars, free_slot_start, orig, caps, free>>
    BY <1>9 DEF SearchUntyped, DeviceObject, At
  <2>. QED
    BY <1>1, <2>1, Undisturbed, CreationFacts DEF Creating, FreeSlot, loopVars
<1>10. CASE ProbeFound
  BY <1>1, <1>10, ProbeFoundInv
<1>11. CASE ProbeMissed
  BY <1>1, <1>11, ProbeMissedInv
<1>12. CASE LeaveLoop
  BY <1>1, <1>12, Undisturbed, CreationFacts DEF LeaveLoop, Creating, FreeSlot, loopVars
<1>13. CASE MakePool /\ ~Abort
  BY <1>1, <1>13, MakePoolInv
<1>14. CASE Finish
  BY <1>1, <1>14, Undisturbed, CreationFacts DEF Finish, Creating, loopVars
<1>15. CASE UNCHANGED vars
  BY <1>1, <1>15, Undisturbed, CreationFacts DEF vars, Creating, FreeSlot, loopVars
<1>16. pc = "done" => UNCHANGED vars
  BY DEF Next, Step, Halt, ParseBootinfo, SkipObject, IssueObject, IssueFails, RetypeUntyped,
         NextUntyped, RetypeFails, CopyPrevious, SearchUntyped, ProbeFound, ProbeMissed,
         ProbeFails, LeaveLoop, MakePool, Finish, NormalObject, DeviceObject, At, Probed
<1>. QED
  BY <1>2, <1>3, <1>4, <1>5, <1>6, <1>7, <1>8, <1>9, <1>10, <1>11, <1>12, <1>13, <1>14, <1>15,
     <1>16 DEF Next, Step, Halt, IssueFails, RetypeFails, ProbeFails

(* The invariant of creation holds throughout: untypeds keep their slots,  *)
(* caps lie below watermarks, and an untyped in use has a child.           *)
THEOREM Creation == Spec => []CreationInv
<1>1. CreationInv /\ [Next]_vars => CreationInv'
  BY StepCreation
<1>. QED
  BY <1>1, InitCreation, PTL DEF Spec

(* For every model and every boot information, create_objects never gives  *)
(* two objects overlapping memory, unless they are the same device frame.  *)
THEOREM ObjectsNeverOverlap == Spec => []NoOverlap
<1>1. CreationInv => NoOverlap
  BY DEF CreationInv
<1>. QED
  BY <1>1, Creation, PTL

(* For every model and every boot information, an object that              *)
(* find_device_object or its copy shortcut delivers is at the address the  *)
(* model gives.                                                            *)
THEOREM DevicesAtTheirAddress == Spec => []DeviceAtPaddr
<1>1. CreationInv => DeviceAtPaddr
  BY DEF CreationInv
<1>. QED
  BY <1>1, Creation, PTL

(* The cap find_device_object holds is enough: no step of create_objects   *)
(* makes the kernel start a boot untyped again from its first byte.        *)
THEOREM WatermarksOnlyGrow == Spec => WatermarkNeverReset
<1>1. CreationInv /\ [Next]_vars => [\A u \in DOMAIN m.untypeds : free'[u] >= free[u]]_vars
  BY StepCreation
<1>. QED
  BY <1>1, Creation, PTL DEF Spec, WatermarkNeverReset
-----------------------------------------------------------------------------
(***************************************************************************)
(* What the allocator has done when it ends: the slots it borrowed are     *)
(* empty again, every object has a cap of its own with its type, and the   *)
(* pools are in the ASID table; and that it implements Placement.          *)
(***************************************************************************)

(* What a successful create_object makes of the state, whatever action it  *)
(* was part of.                                                            *)
Creates ==
    /\ Creating /\ pc' = "create"
    /\ obj_id_index \in DOMAIN m.objects /\ obj_id_index' = obj_id_index + 1
    /\ m' = m /\ Slots' = Slots /\ FreeSlot' = FreeSlot + 1 /\ FreeSlot \in Slots
    /\ Made' = Made \cup {obj_id_index} /\ obj_id_index \notin Made
    /\ orig'[obj_id_index] = FreeSlot
    /\ \A i \in Made : orig'[i] = orig[i] /\ caps'[orig[i]] = caps[orig[i]]
    /\ caps'[FreeSlot].type = KernelType(Obj)
    /\ Obj.type \in MemoryTypes => caps'[FreeSlot].size = Obj.size
    /\ \A s \in Slots : s > FreeSlot =>
          caps'[s] = IF pc = "search" /\ hold /\ s = HoldSlot THEN NullCap ELSE caps[s]
    /\ UNCHANGED <<asid_high, asid_table, free_slot_start>>

LEMMA CreatedCreates ==
    ASSUME CreationInv, Creating, obj_id_index <= Len(m.objects), SlotReady(FreeSlot),
           NEW k \in [Slots -> Cap], NEW c \in Cap, c # NullCap, Created(k, c),
           \A s \in Slots : s < FreeSlot => k[s] = caps[s],
           \A s \in Slots : s > FreeSlot =>
              k[s] = IF pc = "search" /\ hold /\ s = HoldSlot THEN NullCap ELSE caps[s],
           c.type = KernelType(Obj),
           Obj.type \in MemoryTypes => c.size = Obj.size
    PROVE  Creates
<1>1. /\ m' = m /\ Slots' = Slots /\ FreeSlot' = FreeSlot + 1
      /\ caps' = [k EXCEPT ![FreeSlot] = c]
      /\ Made' = Made \cup {obj_id_index} /\ obj_id_index \notin Made
      /\ orig'[obj_id_index] = FreeSlot /\ caps'[FreeSlot] = c
      /\ \A i \in Made : orig'[i] = orig[i] /\ caps'[orig[i]] = caps[orig[i]]
  BY CreatedSlots
<1>2. /\ pc' = "create" /\ obj_id_index' = obj_id_index + 1
      /\ UNCHANGED <<asid_high, asid_table, free_slot_start>>
  BY DEF Created
<1>3. obj_id_index \in DOMAIN m.objects /\ FreeSlot \in Slots
  BY CreationFacts DEF SlotReady
<1>4. \A s \in Slots : s > FreeSlot => caps'[s] = k[s]
  BY <1>1, CreationFacts
<1>. QED
  BY <1>1, <1>2, <1>3, <1>4 DEF Creates

LEMMA IssueObjectCreates ==
    ASSUME CreationInv, IssueObject
    PROVE  Creates
<1>1. /\ Creating /\ pc = "create" /\ obj_id_index <= Len(m.objects) /\ SlotReady(FreeSlot)
      /\ Created(caps, IssuedCap) /\ Obj.type \in IssuedTypes
  BY DEF IssueObject, At, InLoop, Creating
<1>2. IssuedCap \in Cap /\ IssuedCap # NullCap /\ caps \in [Slots -> Cap]
  <2>1. sid_number \in Nat
    BY DEF CreationInv, TypeOK
  <2>. QED
    BY <1>1, <2>1, CreationFacts DEF IssuedCap, Cap, Types, IssuedTypes, NullCap
<1>3. IssuedCap.type = KernelType(Obj) /\ Obj.type \notin MemoryTypes
  BY <1>1 DEF IssuedCap, KernelType, IssuedTypes, MemoryTypes
<1>. QED
  BY <1>1, <1>2, <1>3, CreatedCreates

LEMMA RetypeUntypedCreates ==
    ASSUME CreationInv, RetypeUntyped
    PROVE  Creates
<1>. DEFINE s == KernelSize(Obj)
            t == KernelType(Obj)
            u == untyped_cptr
            c == RetypedCap(t, u, s)
<1>1. /\ Creating /\ pc = "create" /\ obj_id_index <= Len(m.objects) /\ SlotReady(FreeSlot)
      /\ ut_index <= num_normal_untypes
      /\ Created(caps, c) /\ u # 0 /\ Fits(u, s) /\ Obj.type \in MemoryTypes
  BY DEF RetypeUntyped, NormalObject, At, InLoop, Creating
<1>2. s \in Nat \ {0} /\ s = Obj.size /\ t \in MemoryTypes
  BY <1>1, ObjFacts DEF CreationInv, TypeOK
<1>3. u \in DOMAIN m.untypeds
  <2>1. untyped_cptrs \in [DOMAIN m.untypeds -> DOMAIN m.untypeds \cup {0}] /\ ut_index \in Nat \ {0}
    BY DEF CreationInv, TypeOK
  <2>2. ut_index \in DOMAIN m.untypeds
    BY <1>1, <2>1, NormalCount, CreationFacts
  <2>. QED
    BY <1>1, <2>1, <2>2 DEF untyped_cptr
<1>4. c.type = t /\ c.size = s
  BY DEF RetypedCap
<1>. HIDE DEF s, t, u
<1>5. c \in Cap /\ c # NullCap /\ caps \in [Slots -> Cap]
  BY <1>1, <1>2, <1>3, RetypedPlace, CreationFacts
<1>. HIDE DEF c
<1>. QED
  BY <1>1, <1>2, <1>4, <1>5, CreatedCreates DEF t

(* The copied frame cap has the type and the size of the next frame. *)
LEMMA CopyPreviousCreates ==
    ASSUME CreationInv, CompletionInv, CopyPrevious, ~Abort
    PROVE  Creates
<1>. DEFINE i == obj_id_index - 1
            c == caps[orig[i]]
<1>1. /\ Creating /\ pc = "create" /\ obj_id_index <= Len(m.objects) /\ SlotReady(FreeSlot)
      /\ Created(caps, c) /\ orig[i] # 0
      /\ Obj.type \in MemoryTypes /\ IsDeviceObject(Obj)
      /\ KernelType(Obj) # "Untyped" /\ obj_id_index > 1
      /\ m.objects[i].type = "Frame" /\ m.objects[i].size = Obj.size
  BY DEF CopyPrevious, DeviceObject, SameAsPrevious, SameFrame, At, InLoop, Creating, Created
<1>2. Obj.type = "Frame" /\ i \in DOMAIN m.objects
  <2>1. obj_id_index \in DOMAIN m.objects /\ i \in DOMAIN m.objects
    BY <1>1, CreationFacts
  <2>2. Obj.type \in {"Frame", "Untyped"}
    BY <1>1, <2>1, CreationFacts, ModelFacts DEF Obj, IsDeviceObject
  <2>. QED
    BY <1>1, <2>1, <2>2 DEF KernelType
<1>. HIDE DEF i
<1>3. i \in Made /\ i \in MadeMem
  BY <1>1, <1>2 DEF MadeMem, Made, MemoryTypes
<1>4. orig[i] \in Slots /\ c \in Cap /\ c # NullCap /\ caps \in [Slots -> Cap]
  BY <1>3, CreationFacts DEF CreationInv, OrigSlotsTaken, Made
<1>5. c.size = Obj.size
  BY <1>1, <1>3 DEF CompletionInv, CapsAsAsked, OrigCap
<1>6. c.type = KernelType(Obj)
  <2>1. ~Pooled(i)
    BY <1>1 DEF CompletionInv, LoopsEnded, Pooled
  <2>2. c.type = KernelType(m.objects[i])
    BY <1>3, <2>1 DEF CompletionInv, CapsAsAsked, OrigCap
  <2>. QED
    BY <1>1, <1>2, <2>2 DEF KernelType
<1>. HIDE DEF c
<1>. QED
  BY <1>1, <1>4, <1>5, <1>6, CreatedCreates

LEMMA ProbeFoundCreates ==
    ASSUME CreationInv, ProbeFound
    PROVE  Creates
<1>. DEFINE k == FoundSlots
            c == Candidate
<1>1. Probed /\ pc = "search" /\ Created(k, c)
  BY DEF ProbeFound, Probed
<1>2. /\ Creating /\ obj_id_index <= Len(m.objects) /\ SlotReady(FreeSlot)
      /\ Obj.type \in MemoryTypes /\ c \in Cap /\ c # NullCap
      /\ HoldSlot > FreeSlot /\ HoldSlot \in Nat
  BY <1>1, ProbePlace
<1>3. c.type = KernelType(Obj) /\ c.size = Obj.size
  <2>1. KernelSize(Obj) = Obj.size
    BY <1>2, ObjFacts DEF CreationInv, TypeOK
  <2>. QED
    BY <2>1 DEF Candidate, RetypedCap
<1>4. k \in [Slots -> Cap]
      /\ \A s \in Slots : k[s] = IF hold /\ s = HoldSlot THEN NullCap ELSE caps[s]
  <2>1. caps \in [Slots -> Cap] /\ NullCap \in Cap
    BY CreationFacts DEF NullCap, Cap
  <2>. QED
    BY <2>1 DEF FoundSlots
<1>5. \A s \in Slots : s < FreeSlot => s # HoldSlot
  BY <1>2, CreationFacts
<1>. HIDE DEF k, c
<1>. QED
  BY <1>1, <1>2, <1>3, <1>4, <1>5, CreatedCreates
-----------------------------------------------------------------------------
(* What a successful round of the ASID pool loop makes of the state. *)
MakesPool ==
    /\ pc = "asid" /\ pc' = "asid"
    /\ m' = m /\ Slots' = Slots /\ FreeSlot' = FreeSlot + 1 /\ FreeSlot \in Slots
    /\ asid_high \in DOMAIN m.asid /\ PoolObject \in Made
    /\ m.objects[PoolObject].type = "ASIDPool"
    /\ OrigCap(PoolObject).type = "Untyped"
    /\ Made' = Made
    /\ orig'[PoolObject] = FreeSlot
    /\ \A i \in Made : /\ i # PoolObject => orig'[i] = orig[i]
                       /\ caps'[orig[i]] = caps[orig[i]]
    /\ caps'[FreeSlot].type = "ASIDPool"
    /\ caps'[FreeSlot].base = OrigCap(PoolObject).base
    /\ caps'[FreeSlot].size = OrigCap(PoolObject).size
    /\ \A s \in Slots : s # FreeSlot => caps'[s] = caps[s]
    /\ asid_table' = Append(asid_table, FreeSlot) /\ asid_high' = asid_high + 1
    /\ UNCHANGED obj_id_index

LEMMA MakePoolMakes ==
    ASSUME CreationInv, MakePool, ~Abort
    PROVE  MakesPool
<1>. DEFINE o == PoolObject
            u == orig[o]
            c == [type |-> "ASIDPool", base |-> caps[u].base, size |-> ASIDPoolSize, ut |-> u]
<1>1. /\ pc = "asid" /\ pc' = "asid" /\ asid_high <= Len(m.asid)
      /\ u # 0 /\ caps[u].size = ASIDPoolSize /\ caps[u].type = "Untyped"
      /\ FreeSlot \in Slots
      /\ caps' = [caps EXCEPT ![FreeSlot] = c]
      /\ orig' = [orig EXCEPT ![o] = FreeSlot]
      /\ free_slot_index' = free_slot_index + 1
      /\ asid_table' = Append(asid_table, FreeSlot) /\ asid_high' = asid_high + 1
      /\ UNCHANGED <<m, free_slot_start, obj_id_index>>
  BY DEF MakePool, PoolRecorded, PoolMemory, SlotReady
<1>2. asid_high \in DOMAIN m.asid /\ o \in Made /\ m.objects[o].type = "ASIDPool"
  <2>1. asid_high \in DOMAIN m.asid
    BY <1>1, CreationFacts, DomainFacts, SMTT(30) DEF CreationInv, TypeOK
  <2>2. o \in DOMAIN m.objects /\ m.objects[o].type = "ASIDPool"
    BY <2>1, CreationFacts, ModelFacts DEF PoolObject
  <2>. QED
    BY <1>1, <2>1, <2>2 DEF Made
<1>3. \A i \in Made : orig[i] \in Slots /\ orig[i] < FreeSlot
  BY <1>1, CreationFacts DEF CreationInv, OrigSlotsTaken, Made
<1>4. Slots' = Slots /\ FreeSlot' = FreeSlot + 1
  BY <1>1, CreationFacts DEF Slots, LastSlot, FreeSlot
<1>. HIDE DEF c, o
<1>5. Made' = Made
  BY <1>1, <1>2, CreationFacts, SMTT(30) DEF Made
<1>6. orig'[o] = FreeSlot /\ \A i \in Made : i # o => orig'[i] = orig[i]
  BY <1>1, <1>2, CreationFacts DEF Made
<1>7. caps'[FreeSlot] = c /\ \A s \in Slots : s # FreeSlot => caps'[s] = caps[s]
  BY <1>1, CreationFacts
<1>8. \A i \in Made : caps'[orig[i]] = caps[orig[i]]
  BY <1>3, <1>7, CreationFacts
<1>9. c.type = "ASIDPool" /\ c.base = caps[u].base /\ c.size = caps[u].size
  BY <1>1 DEF c
<1>. QED
  BY <1>1, <1>2, <1>4, <1>5, <1>6, <1>7, <1>8, <1>9 DEF MakesPool, OrigCap, o
-----------------------------------------------------------------------------
(* The slots. *)

LEMMA CreatesSlots ==
    ASSUME CreationInv, SlotsInv, Creates
    PROVE  SlotsInv'
<1>1. SUFFICES ASSUME NEW s \in Slots, s >= FreeSlot + 1
               PROVE  caps'[s] = NullCap
  BY DEF Creates, SlotsInv, FreeSlotsEmpty, HandedSlotsEmpty, NullCap
<1>2. s > FreeSlot
  BY <1>1, CreationFacts
<1>3. pc \in {"parse_bootinfo", "create", "search"}
  BY DEF Creates, Creating
<1>4. ~(pc = "search" /\ hold /\ s = HoldSlot) => caps[s] = NullCap
  BY <1>2, <1>3, CreationFacts DEF SlotsInv, FreeSlotsEmpty
<1>. QED
  BY <1>2, <1>4 DEF Creates

LEMMA StepSlots ==
    ASSUME CreationInv, CompletionInv, SlotsInv, [Next]_vars
    PROVE  SlotsInv'
<1>. USE DEF SlotsInv, FreeSlotsEmpty, HandedSlotsEmpty
<1>1. CASE Abort
  BY <1>1 DEF Abort
<1>2. CASE ParseBootinfo /\ ~Abort
  BY <1>2 DEF ParseBootinfo, loopVars, FreeSlot, Slots, LastSlot, NullCap
<1>3. CASE SkipObject
  BY <1>3 DEF SkipObject, At, FreeSlot, Slots, LastSlot, NullCap
<1>4. CASE IssueObject \/ RetypeUntyped \/ (CopyPrevious /\ ~Abort) \/ ProbeFound
  BY <1>4, CreatesSlots, IssueObjectCreates, RetypeUntypedCreates, CopyPreviousCreates,
     ProbeFoundCreates
<1>5. CASE NextUntyped
  BY <1>5 DEF NextUntyped, NormalObject, At, FreeSlot, Slots, LastSlot, NullCap
<1>6. CASE SearchUntyped /\ ~Abort
  <2>1. /\ pc = "create" /\ pc' = "search" /\ hold' = FALSE
        /\ UNCHANGED <<m, loopVars, free_slot_start, caps>>
    BY <1>6 DEF SearchUntyped, DeviceObject, At
  <2>. QED
    BY <2>1 DEF loopVars, FreeSlot, Slots, LastSlot, NullCap
<1>7. CASE ProbeMissed
  <2>1. /\ pc = "search" /\ pc' = "search" /\ hold' = TRUE
        /\ caps' = IF hold THEN caps ELSE [caps EXCEPT ![HoldSlot] = Candidate]
        /\ UNCHANGED <<m, loopVars, free_slot_start>>
    BY <1>7 DEF ProbeMissed, Probed, MissedSlots
  <2>2. Slots' = Slots /\ FreeSlot' = FreeSlot /\ HoldSlot' = HoldSlot
    BY <2>1 DEF loopVars, FreeSlot, HoldSlot, Slots, LastSlot
  <2>3. SUFFICES ASSUME NEW s \in Slots, s >= FreeSlot, s # HoldSlot
                 PROVE  caps'[s] = NullCap
    BY <2>1, <2>2 DEF NullCap
  <2>4. caps[s] = NullCap
    BY <2>1, <2>3
  <2>. QED
    BY <2>1, <2>3, <2>4, CreationFacts
<1>8. CASE LeaveLoop
  BY <1>8 DEF LeaveLoop, loopVars, FreeSlot, Slots, LastSlot, NullCap
<1>9. CASE MakePool /\ ~Abort
  <2>1. /\ pc = "asid" /\ pc' = "asid" /\ FreeSlot' = FreeSlot + 1 /\ Slots' = Slots
        /\ \A s \in Slots : s # FreeSlot => caps'[s] = caps[s]
    BY <1>9, MakePoolMakes DEF MakesPool
  <2>2. \A s \in Slots : s >= FreeSlot + 1 => s >= FreeSlot /\ s # FreeSlot
    BY CreationFacts
  <2>. QED
    BY <2>1, <2>2 DEF NullCap
<1>10. CASE Finish
  BY <1>10 DEF Finish, FreeSlot, Slots, LastSlot, NullCap
<1>11. CASE UNCHANGED vars
  BY <1>11 DEF vars, loopVars, FreeSlot, HoldSlot, Slots, LastSlot, NullCap
<1>. QED
  BY <1>1, <1>2, <1>3, <1>4, <1>5, <1>6, <1>7, <1>8, <1>9, <1>10, <1>11
     DEF Next, Step, Halt, IssueFails, RetypeFails, ProbeFails
-----------------------------------------------------------------------------
(* The result. *)

LEMMA CreatesCompletion ==
    ASSUME CreationInv, CompletionInv, Creates
    PROVE  CompletionInv'
<1>. DEFINE x == obj_id_index
<1>1. /\ Creating /\ pc' = "create" /\ asid_high = 1 /\ asid_high' = 1
      /\ asid_table' = asid_table /\ m' = m
      /\ x \in DOMAIN m.objects /\ obj_id_index' = x + 1
      /\ Made' = Made \cup {x} /\ x \notin Made
      /\ orig'[x] = FreeSlot /\ caps'[FreeSlot].type = KernelType(Obj) /\ FreeSlot \in Nat \ {0}
      /\ Obj.type \in MemoryTypes => caps'[FreeSlot].size = Obj.size
      /\ \A i \in Made : orig'[i] = orig[i] /\ caps'[orig'[i]] = caps[orig[i]]
  BY CreationFacts DEF Creates, CompletionInv, LoopsEnded
<1>2. \A i \in Made : orig[i] < FreeSlot /\ orig[i] \in Nat
  <2>1. pc # "done"
    BY <1>1 DEF Creating
  <2>. QED
    BY <2>1, CreationFacts DEF CreationInv, OrigSlotsTaken, Made
<1>3. /\ \A i \in Made : ~Pooled(i)
      /\ \A i \in Made' : ~Pooled(i)'
  BY <1>1 DEF Pooled
<1>4. CapsAsAsked'
  <2>1. \A i \in DOMAIN m.objects :
          i < x + 1 /\ RequiresCreation(m.objects[i].type) => orig'[i] # 0
    <3>1. SUFFICES ASSUME NEW i \in DOMAIN m.objects, i < x + 1,
                          RequiresCreation(m.objects[i].type)
                   PROVE  orig'[i] # 0
      OBVIOUS
    <3>2. CASE i = x
      BY <1>1, <3>2
    <3>3. CASE i # x
      <4>1. i < x
        BY <3>1, <3>3, CreationFacts
      <4>2. i \in Made /\ orig[i] # 0
        BY <3>1, <4>1 DEF CompletionInv, CapsAsAsked, Made
      <4>. QED
        BY <1>1, <4>2
    <3>. QED
      BY <3>2, <3>3
  <2>2. \A i, j \in Made' : i # j => orig'[i] # orig'[j]
    <3>1. \A i, j \in Made : i # j => orig[i] # orig[j]
      BY DEF CompletionInv, CapsAsAsked
    <3>. QED
      BY <1>1, <1>2, <3>1
  <2>3. \A i \in Made' : caps'[orig'[i]].type = KernelType(m.objects[i])
    <3>1. \A i \in Made : caps[orig[i]].type = KernelType(m.objects[i])
      BY <1>3 DEF CompletionInv, CapsAsAsked, OrigCap
    <3>. QED
      BY <1>1, <3>1 DEF Obj
  <2>4. \A i \in MadeMem' : caps'[orig'[i]].size = m.objects[i].size
    <3>1. \A i \in MadeMem : caps[orig[i]].size = m.objects[i].size
      BY DEF CompletionInv, CapsAsAsked, OrigCap
    <3>. QED
      BY <1>1, <3>1 DEF Obj, MadeMem
  <2>5. \A i \in Made' : OrigCap(i)'.type = IF Pooled(i)' THEN "ASIDPool"
                                              ELSE KernelType(m'.objects[i])
    BY <1>1, <1>3, <2>3 DEF OrigCap
  <2>. QED
    BY <1>1, <2>1, <2>2, <2>4, <2>5 DEF CapsAsAsked, OrigCap, KernelType
<1>5. PoolsInTable'
  BY <1>1 DEF CompletionInv, PoolsInTable
<1>6. LoopsEnded'
  BY <1>1 DEF LoopsEnded
<1>. QED
  BY <1>4, <1>5, <1>6 DEF CompletionInv

LEMMA MakesPoolCompletion ==
    ASSUME CreationInv, CompletionInv, MakesPool
    PROVE  CompletionInv'
<1>. DEFINE o == PoolObject
<1>1. /\ pc = "asid" /\ pc' = "asid" /\ m' = m /\ Made' = Made /\ MadeMem' = MadeMem
      /\ o \in Made /\ m.asid[asid_high] = o /\ orig'[o] = FreeSlot /\ FreeSlot \in Slots
      /\ OrigCap(o).type = "Untyped"
      /\ \A i \in Made : /\ i # o => orig'[i] = orig[i]
                         /\ caps'[orig[i]] = caps[orig[i]]
      /\ caps'[FreeSlot].type = "ASIDPool" /\ caps'[FreeSlot].size = OrigCap(o).size
      /\ asid_table' = Append(asid_table, FreeSlot) /\ asid_high' = asid_high + 1
      /\ asid_high \in Nat \ {0} /\ asid_high <= Len(m.asid)
      /\ obj_id_index' = obj_id_index
  <2>1. asid_high \in Nat \ {0} /\ asid_high <= Len(m.asid)
    <3>1. m \in Models
      BY DEF CreationInv
    <3>2. Len(m.asid) \in Nat /\ DOMAIN m.asid = 1 .. Len(m.asid)
      BY <3>1, DomainFacts
    <3>3. asid_high \in DOMAIN m.asid
      BY DEF MakesPool
    <3>. QED
      BY <3>2, <3>3
  <2>. QED
    BY <2>1 DEF MakesPool, MadeMem, PoolObject
<1>2. \A i \in Made : orig[i] < FreeSlot /\ orig[i] \in Nat
  <2>1. /\ orig \in [DOMAIN m.objects -> Slots \cup {0}]
        /\ Slots = 1 .. LastSlot /\ LastSlot \in Nat
    BY CreationFacts
  <2>2. \A i \in Made : i \in DOMAIN m.objects /\ orig[i] # 0
    BY DEF Made
  <2>3. \A i \in Made : orig[i] < FreeSlot
    BY <1>1, <2>2 DEF CreationInv, OrigSlotsTaken
  <2>. QED
    BY <2>1, <2>2, <2>3
<1>3. \A i \in Made : Pooled(i)' <=> Pooled(i) \/ i = o
  <2>1. 1 .. asid_high' - 1 = (1 .. asid_high - 1) \cup {asid_high}
    BY <1>1
  <2>. QED
    BY <1>1, <2>1 DEF Pooled
<1>. HIDE DEF o
<1>4. CapsAsAsked'
  <2>1. \A i \in DOMAIN m.objects :
          i < obj_id_index /\ RequiresCreation(m.objects[i].type) => orig'[i] # 0
    <3>1. \A i \in DOMAIN m.objects :
            i < obj_id_index /\ RequiresCreation(m.objects[i].type) => i \in Made
      BY DEF CompletionInv, CapsAsAsked, Made
    <3>. QED
      BY <1>1, <3>1 DEF Made
  <2>2. \A i, j \in Made : i # j => orig'[i] # orig'[j]
    <3>1. \A i, j \in Made : i # j => orig[i] # orig[j]
      BY DEF CompletionInv, CapsAsAsked
    <3>2. FreeSlot \in Nat
      BY CreationFacts
    <3>3. \A i \in Made : orig[i] # FreeSlot
      BY <1>2, <3>2
    <3>4. orig'[o] = FreeSlot /\ \A i \in Made : i # o => orig'[i] = orig[i]
      BY <1>1
    <3>. QED
      BY <3>1, <3>3, <3>4
  <2>3. \A i \in Made : caps'[orig'[i]].type = IF Pooled(i)' THEN "ASIDPool"
                                                ELSE KernelType(m.objects[i])
    <3>1. \A i \in Made : caps[orig[i]].type = IF Pooled(i) THEN "ASIDPool"
                                                ELSE KernelType(m.objects[i])
      BY DEF CompletionInv, CapsAsAsked, OrigCap
    <3>. QED
      BY <1>1, <1>3, <3>1
  <2>4. \A i \in MadeMem : caps'[orig'[i]].size = m.objects[i].size
    <3>1. \A i \in MadeMem : i \in Made /\ caps[orig[i]].size = m.objects[i].size
      BY DEF CompletionInv, CapsAsAsked, OrigCap, MadeMem
    <3>. QED
      BY <1>1, <3>1 DEF OrigCap
  <2>. QED
    BY <1>1, <2>1, <2>2, <2>3, <2>4 DEF CapsAsAsked, OrigCap, KernelType
<1>5. PoolsInTable'
  <2>1. /\ asid_table \in Seq(Slots) /\ Len(asid_table) = asid_high - 1
        /\ \A h \in 1 .. asid_high - 1 : asid_table[h] = orig[m.asid[h]]
    BY DEF CreationInv, TypeOK, CompletionInv, PoolsInTable
  <2>2. /\ Len(asid_table') = asid_high' - 1 /\ asid_table'[asid_high] = FreeSlot
        /\ \A h \in 1 .. asid_high - 1 : asid_table'[h] = asid_table[h]
    BY <1>1, <2>1
  <2>3. ASSUME NEW h \in 1 .. asid_high - 1
        PROVE  orig'[m.asid[h]] = orig[m.asid[h]]
    <3>1. orig[m.asid[h]] # 0
      BY <2>1, <2>3, CreationFacts
    <3>2. h \in DOMAIN m.asid
      BY <1>1, CreationFacts, DomainFacts
    <3>3. m.asid[h] \in DOMAIN m.objects
      BY <3>2, CreationFacts, ModelFacts
    <3>4. m.asid[h] \in Made /\ Pooled(m.asid[h])
      BY <3>1, <3>3 DEF Made, Pooled
    <3>5. OrigCap(m.asid[h]).type = "ASIDPool"
      BY <3>4 DEF CompletionInv, CapsAsAsked
    <3>6. m.asid[h] # o
      BY <1>1, <3>5
    <3>. QED
      BY <1>1, <3>4, <3>6
  <2>4. \A h \in 1 .. asid_high : h = asid_high \/ h \in 1 .. asid_high - 1
    BY <1>1
  <2>. QED
    BY <1>1, <2>1, <2>2, <2>3, <2>4 DEF PoolsInTable
<1>6. LoopsEnded'
  BY <1>1 DEF CompletionInv, LoopsEnded, Creating
<1>. QED
  BY <1>4, <1>5, <1>6 DEF CompletionInv

(* A step that makes nothing. *)
LEMMA NothingMade ==
    ASSUME CreationInv, CompletionInv, UNCHANGED <<m, orig, asid_high, asid_table>>,
           \A i \in Made : caps'[orig[i]] = caps[orig[i]],
           \/ obj_id_index' = obj_id_index
           \/ /\ obj_id_index' = obj_id_index + 1
              /\ ~RequiresCreation(Obj.type)
    PROVE  CapsAsAsked' /\ PoolsInTable'
<1>1. Made' = Made /\ MadeMem' = MadeMem /\ \A i \in Made : Pooled(i)' <=> Pooled(i)
  BY DEF Made, MadeMem, Pooled
<1>2. \A i \in DOMAIN m.objects :
        i < obj_id_index' /\ RequiresCreation(m.objects[i].type) => orig[i] # 0
  <2>1. \A i \in DOMAIN m.objects :
          i < obj_id_index /\ RequiresCreation(m.objects[i].type) => orig[i] # 0
    BY DEF CompletionInv, CapsAsAsked
  <2>2. \A i \in DOMAIN m.objects : i < obj_id_index + 1 => i < obj_id_index \/ i = obj_id_index
    BY CreationFacts
  <2>. QED
    BY <2>1, <2>2 DEF Obj
<1>3. CapsAsAsked'
  BY <1>1, <1>2 DEF CompletionInv, CapsAsAsked, OrigCap, MadeMem, KernelType
<1>4. PoolsInTable'
  BY DEF CompletionInv, PoolsInTable
<1>. QED
  BY <1>3, <1>4

LEMMA StepCompletion ==
    ASSUME CreationInv, CompletionInv, [Next]_vars
    PROVE  CompletionInv'
<1>1. CASE IssueObject \/ RetypeUntyped \/ (CopyPrevious /\ ~Abort) \/ ProbeFound
  BY <1>1, CreatesCompletion, IssueObjectCreates, RetypeUntypedCreates, CopyPreviousCreates,
     ProbeFoundCreates
<1>2. CASE MakePool /\ ~Abort
  BY <1>2, MakesPoolCompletion, MakePoolMakes
<1>3. CASE Abort
  <2>1. CapsAsAsked' /\ PoolsInTable'
    BY <1>3, NothingMade DEF Abort, loopVars
  <2>. QED
    BY <1>3, <2>1 DEF Abort, CompletionInv, LoopsEnded, Creating
<1>4. CASE ParseBootinfo /\ ~Abort
  <2>1. CapsAsAsked' /\ PoolsInTable'
    BY <1>4, NothingMade DEF ParseBootinfo, loopVars
  <2>. QED
    BY <1>4, <2>1 DEF ParseBootinfo, CompletionInv, LoopsEnded, Creating
<1>5. CASE SkipObject
  <2>1. CapsAsAsked' /\ PoolsInTable'
    BY <1>5, NothingMade DEF SkipObject
  <2>. QED
    BY <1>5, <2>1 DEF SkipObject, At, CompletionInv, LoopsEnded, Creating
<1>6. CASE NextUntyped
  <2>1. CapsAsAsked' /\ PoolsInTable'
    BY <1>6, NothingMade DEF NextUntyped
  <2>. QED
    BY <1>6, <2>1 DEF NextUntyped, NormalObject, At, CompletionInv, LoopsEnded, Creating
<1>7. CASE SearchUntyped /\ ~Abort
  <2>1. /\ pc = "create" /\ pc' = "search"
        /\ UNCHANGED <<m, loopVars, orig, caps, asid_high, asid_table>>
    BY <1>7 DEF SearchUntyped, DeviceObject, At
  <2>2. CapsAsAsked' /\ PoolsInTable'
    BY <2>1, NothingMade DEF loopVars
  <2>. QED
    BY <2>1, <2>2 DEF CompletionInv, LoopsEnded, Creating
<1>8. CASE ProbeMissed
  <2>1. /\ Probed /\ pc = "search" /\ pc' = "search"
        /\ caps' = IF hold THEN caps ELSE [caps EXCEPT ![HoldSlot] = Candidate]
        /\ UNCHANGED <<m, loopVars, orig, asid_high, asid_table>>
    BY <1>8 DEF ProbeMissed, Probed, MissedSlots
  <2>2. \A i \in Made : orig[i] \in Slots /\ orig[i] < FreeSlot
    BY <2>1, CreationFacts DEF CreationInv, OrigSlotsTaken, Made
  <2>3. \A i \in Made : orig[i] # HoldSlot
    BY <2>2, CreationFacts DEF HoldSlot
  <2>4. \A i \in Made : caps'[orig[i]] = caps[orig[i]]
    BY <2>1, <2>2, <2>3, CreationFacts
  <2>5. CapsAsAsked' /\ PoolsInTable'
    BY <2>1, <2>4, NothingMade DEF loopVars
  <2>. QED
    BY <2>1, <2>5 DEF CompletionInv, LoopsEnded, Creating
<1>9. CASE LeaveLoop
  <2>1. CapsAsAsked' /\ PoolsInTable'
    BY <1>9, NothingMade DEF LeaveLoop, loopVars
  <2>. QED
    BY <1>9, <2>1 DEF LeaveLoop, CompletionInv, LoopsEnded, Creating, loopVars
<1>10. CASE Finish
  <2>1. CapsAsAsked' /\ PoolsInTable'
    BY <1>10, NothingMade DEF Finish, loopVars
  <2>2. asid_high \in 1 .. Len(m.asid) + 1 /\ Len(m.asid) \in Nat /\ asid_high > Len(m.asid)
    BY <1>10, DomainFacts DEF Finish, CreationInv, TypeOK
  <2>3. asid_high = Len(m.asid) + 1
    BY <2>2
  <2>. QED
    BY <1>10, <2>1, <2>3 DEF Finish, CompletionInv, LoopsEnded, Creating, loopVars
<1>11. CASE UNCHANGED vars
  <2>1. CapsAsAsked' /\ PoolsInTable'
    BY <1>11, NothingMade DEF vars, loopVars
  <2>. QED
    BY <1>11, <2>1 DEF vars, loopVars, CompletionInv, LoopsEnded, Creating
<1>. QED
  BY <1>1, <1>2, <1>3, <1>4, <1>5, <1>6, <1>7, <1>8, <1>9, <1>10, <1>11
     DEF Next, Step, Halt, IssueFails, RetypeFails, ProbeFails

LEMMA InitCompletion == Init => SlotsInv /\ CompletionInv
<1>. SUFFICES ASSUME Init PROVE SlotsInv /\ CompletionInv
  OBVIOUS
<1>1. CreationInv
  BY InitCreation
<1>2. /\ pc = "parse_bootinfo" /\ asid_high = 1 /\ asid_table = <<>> /\ obj_id_index = 1
      /\ FreeSlot = Len(m.untypeds) + 1
      /\ \A s \in Slots : s \notin DOMAIN m.untypeds => caps[s] = NullCap
      /\ Made = {} /\ MadeMem = {}
  BY <1>1, CreationFacts DEF Init, BootCaps, FreeSlot, Made, MadeMem
<1>3. SlotsInv
  BY <1>1, <1>2, CreationFacts DEF SlotsInv, FreeSlotsEmpty, HandedSlotsEmpty
<1>4. \A i \in DOMAIN m.objects : ~(i < 1)
  BY <1>1, CreationFacts
<1>5. CompletionInv
  BY <1>2, <1>4 DEF CompletionInv, CapsAsAsked, PoolsInTable, LoopsEnded
<1>. QED
  BY <1>3, <1>5

(* The slots and the result, from the first step to the last: what the     *)
(* free slots hold, and what has become of every object the loop has       *)
(* passed.                                                                 *)
THEOREM Completion == Spec => [](CreationInv /\ SlotsInv /\ CompletionInv)
<1>. DEFINE Inv == CreationInv /\ SlotsInv /\ CompletionInv
<1>1. Init => Inv
  BY InitCreation, InitCompletion
<1>2. Inv /\ [Next]_vars => Inv'
  BY StepCreation, StepSlots, StepCompletion
<1>. QED
  BY <1>1, <1>2, PTL DEF Spec

(* For every model and every boot information, the slots that              *)
(* find_device_object borrows for the held and the temporary cap are empty *)
(* whenever the loader takes a slot, and so are the slots it hands on.     *)
THEOREM SlotsGivenBack == Spec => []BorrowedSlotsReturned
<1>1. ASSUME CreationInv, SlotsInv PROVE BorrowedSlotsReturned
  <2>1. CASE pc = "done"
    BY <1>1, <2>1, CreationFacts DEF SlotsInv, HandedSlotsEmpty, BorrowedSlotsReturned
  <2>2. CASE pc \in {"create", "asid"}
    BY <1>1, <2>2 DEF SlotsInv, FreeSlotsEmpty, BorrowedSlotsReturned, FreeSlot
  <2>. QED
    BY <2>1, <2>2 DEF BorrowedSlotsReturned
<1>2. CreationInv /\ SlotsInv => BorrowedSlotsReturned
  BY <1>1
<1>. QED
  BY <1>2, Completion, PTL

(* The tool lists every pool of the model in asid_slots. *)
LEMMA PoolsListed ==
    ASSUME m \in Models, NEW i \in DOMAIN m.objects, m.objects[i].type = "ASIDPool"
    PROVE  \E h \in DOMAIN m.asid : m.asid[h] = i
  BY ModelsAssumption, Zenon

(* For every model and every boot information, when create_objects has     *)
(* ended well every object that needs one has a cap of its own and of its  *)
(* type, an ASID pool the pool and not its memory, and the kernel's ASID   *)
(* table has the pools in the order of asid_slots.                         *)
THEOREM ObjectsAllCreated == Spec => []EveryObjectCreated
<1>1. ASSUME CreationInv, CompletionInv
      PROVE  EveryObjectCreated
  <2>1. SUFFICES ASSUME pc = "done"
                 PROVE  /\ \A i \in DOMAIN m.objects :
                              RequiresCreation(m.objects[i].type) =>
                                 orig[i] # 0 /\ OrigCap(i).type = m.objects[i].type
                        /\ \A i, j \in Made : i # j => orig[i] # orig[j]
                        /\ Len(asid_table) = Len(m.asid)
                        /\ \A h \in DOMAIN m.asid : asid_table[h] = orig[m.asid[h]]
    BY DEF EveryObjectCreated
  <2>2. /\ obj_id_index = Len(m.objects) + 1 /\ asid_high = Len(m.asid) + 1
        /\ DOMAIN m.asid = 1 .. asid_high - 1 /\ Len(m.asid) = asid_high - 1
    BY <1>1, <2>1, CreationFacts, DomainFacts DEF CompletionInv, LoopsEnded
  <2>3. ASSUME NEW i \in DOMAIN m.objects, RequiresCreation(m.objects[i].type)
        PROVE  orig[i] # 0 /\ OrigCap(i).type = m.objects[i].type
    <3>1. i < obj_id_index
      BY <1>1, <2>2, CreationFacts
    <3>2. orig[i] # 0 /\ i \in Made
      BY <1>1, <2>3, <3>1 DEF CompletionInv, CapsAsAsked, Made
    <3>3. OrigCap(i).type = IF Pooled(i) THEN "ASIDPool" ELSE KernelType(m.objects[i])
      BY <1>1, <3>2 DEF CompletionInv, CapsAsAsked
    <3>4. Pooled(i) <=> m.objects[i].type = "ASIDPool"
      <4>1. m \in Models
        BY <1>1 DEF CreationInv
      <4>2. \A h \in DOMAIN m.asid : m.objects[m.asid[h]].type = "ASIDPool"
        BY <4>1, ModelFacts
      <4>3. m.objects[i].type = "ASIDPool" => \E h \in DOMAIN m.asid : m.asid[h] = i
        BY <2>3, <4>1, PoolsListed
      <4>. QED
        BY <2>2, <4>2, <4>3 DEF Pooled
    <3>. QED
      BY <3>2, <3>3, <3>4 DEF KernelType
  <2>4. \A i, j \in Made : i # j => orig[i] # orig[j]
    BY <1>1 DEF CompletionInv, CapsAsAsked
  <2>5. Len(asid_table) = Len(m.asid) /\ \A h \in DOMAIN m.asid : asid_table[h] = orig[m.asid[h]]
    BY <1>1, <2>2 DEF CompletionInv, PoolsInTable
  <2>. QED
    BY <2>3, <2>4, <2>5
<1>2. CreationInv /\ CompletionInv => EveryObjectCreated
  BY <1>1
<1>. QED
  BY <1>2, Completion, PTL
-----------------------------------------------------------------------------
(* The refinement. *)

(* An object in memory that has been created is one that Placement places: *)
(* inside a boot untyped, at its address, apart from the others.           *)
LEMMA CreatesPlaces ==
    ASSUME CreationInv, CreationInv', CompletionInv, CompletionInv', Creates,
           Obj.type \in MemoryTypes
    PROVE  Abstract!Place(obj_id_index)
<1>. DEFINE x == obj_id_index
            b == caps'[FreeSlot].base
<1>1. /\ m' = m /\ x \in DOMAIN m.objects /\ x \notin MadeMem
      /\ MadeMem' = MadeMem \cup {x} /\ x \in MadeMem'
      /\ caps'[orig'[x]] = caps'[FreeSlot]
      /\ \A j \in MadeMem : caps'[orig'[j]] = OrigCap(j)
      /\ pc' = "create" /\ FreeSlot \in Slots /\ Slots' = Slots
  BY DEF Creates, MadeMem, OrigCap, Obj
<1>2. /\ placed'[x] = b
      /\ DOMAIN placed = MadeMem /\ DOMAIN placed' = MadeMem \cup {x}
      /\ \A j \in MadeMem : placed[j] = OrigCap(j).base /\ placed'[j] = placed[j]
  BY <1>1 DEF placed, OrigCap
<1>3. caps'[FreeSlot] \in Cap /\ b \in Nat /\ caps'[FreeSlot].size = m.objects[x].size
  <2>1. caps' \in [Slots -> Cap]
    BY <1>1 DEF CreationInv, TypeOK
  <2>2. caps'[orig'[x]].size = m'.objects[x].size
    BY <1>1 DEF CompletionInv, CapsAsAsked, OrigCap
  <2>. QED
    BY <1>1, <2>1, <2>2 DEF Cap
<1>4. \E u \in DOMAIN m.untypeds : Abstract!Within(b, m.objects[x].size, m.untypeds[u])
  <2>. DEFINE u == caps'[FreeSlot].ut
  <2>1. Creating'
    BY <1>1 DEF Creating
  <2>2. u \in DOMAIN m.untypeds
    <3>1. caps'[orig'[x]].ut \in DOMAIN m'.untypeds
      BY <1>1, <2>1 DEF CreationInv, OrigFromBoot
    <3>. QED
      BY <1>1, <3>1
  <2>3. /\ m.untypeds[u].paddr <= b
        /\ b + caps'[FreeSlot].size <= m.untypeds[u].paddr + free'[u]
    BY <1>1, <2>1, <2>2 DEF CreationInv, BelowWatermark
  <2>4. free'[u] <= m.untypeds[u].size /\ free'[u] \in Nat
    <3>1. free'[u] <= m.untypeds[u].size
      BY <1>1, <2>1, <2>2 DEF CreationInv, WatermarkHeld
    <3>2. free' \in [Slots -> Nat] /\ u \in Slots
      BY <1>1, <2>2, CreationFacts DEF CreationInv, TypeOK
    <3>. QED
      BY <3>1, <3>2
  <2>5. m.untypeds[u].paddr \in Nat /\ m.untypeds[u].size \in Nat
    BY <2>2, CreationFacts, ModelFacts DEF Untyped
  <2>6. m.objects[x].size \in Nat
    BY <1>3 DEF Cap
  <2>. HIDE DEF u
  <2>7. Abstract!Within(b, m.objects[x].size, m.untypeds[u])
    BY <1>3, <2>3, <2>4, <2>5, <2>6 DEF Abstract!Within
  <2>. QED
    BY <2>2, <2>7
<1>5. m.objects[x].paddr # 0 => b = m.objects[x].paddr
  <2>1. IsDeviceObject(m'.objects[x]) => caps'[orig'[x]].base = m'.objects[x].paddr
    BY <1>1 DEF CreationInv, DeviceAtPaddr, OrigCap, IsDeviceObject
  <2>. QED
    BY <1>1, <2>1 DEF IsDeviceObject
<1>6. \A j \in MadeMem :
        \/ Abstract!Apart(b, m.objects[x].size, OrigCap(j).base, m.objects[j].size)
        \/ Abstract!MayShare(m.objects[x], m.objects[j])
  <2>1. SUFFICES ASSUME NEW j \in MadeMem
                 PROVE  \/ Abstract!Apart(b, m.objects[x].size, OrigCap(j).base, m.objects[j].size)
                        \/ Abstract!MayShare(m.objects[x], m.objects[j])
    OBVIOUS
  <2>2. OrigCap(j).size = m.objects[j].size
    BY <2>1 DEF CompletionInv, CapsAsAsked, OrigCap
  <2>3. \/ caps'[orig'[x]].base + caps'[orig'[x]].size <= caps'[orig'[j]].base
        \/ caps'[orig'[j]].base + caps'[orig'[j]].size <= caps'[orig'[x]].base
        \/ /\ m'.objects[x].type = "Frame" /\ m'.objects[j].type = "Frame"
           /\ IsDeviceObject(m'.objects[x])
           /\ m'.objects[x].paddr = m'.objects[j].paddr
           /\ m'.objects[x].size = m'.objects[j].size
    BY <1>1, <2>1 DEF CreationInv, NoOverlap, OrigCap, IsDeviceObject
  <2>. QED
    BY <1>1, <1>3, <2>1, <2>2, <2>3 DEF Abstract!Apart, Abstract!MayShare, IsDeviceObject
<1>. HIDE DEF b
<1>. QED
  BY <1>1, <1>2, <1>3, <1>4, <1>5, <1>6 DEF Abstract!Place

(* Every other step leaves the placed objects where they are. *)
LEMMA PlacedKept ==
    ASSUME m' = m, MadeMem' = MadeMem,
           \A i \in MadeMem : caps'[orig'[i]].base = caps[orig[i]].base
    PROVE  UNCHANGED <<m, placed>>
  BY DEF placed, OrigCap

LEMMA StepPlaces ==
    ASSUME CreationInv, CreationInv', CompletionInv, CompletionInv', [Next]_vars
    PROVE  [Abstract!Next]_<<m, placed>>
<1>1. CASE IssueObject \/ RetypeUntyped \/ (CopyPrevious /\ ~Abort) \/ ProbeFound
  <2>1. Creates
    BY <1>1, IssueObjectCreates, RetypeUntypedCreates, CopyPreviousCreates, ProbeFoundCreates
  <2>2. CASE Obj.type \in MemoryTypes
    BY <2>1, <2>2, CreatesPlaces DEF Abstract!Next, Creates
  <2>3. CASE Obj.type \notin MemoryTypes
    BY <2>1, <2>3, PlacedKept DEF Creates, MadeMem, Obj
  <2>. QED
    BY <2>2, <2>3
<1>2. CASE MakePool /\ ~Abort
  BY <1>2, MakePoolMakes, PlacedKept DEF MakesPool, MadeMem, OrigCap
<1>3. CASE ProbeMissed
  <2>1. /\ Probed /\ pc = "search"
        /\ caps' = IF hold THEN caps ELSE [caps EXCEPT ![HoldSlot] = Candidate]
        /\ UNCHANGED <<m, orig>>
    BY <1>3 DEF ProbeMissed, Probed, MissedSlots
  <2>2. \A i \in MadeMem : orig[i] \in Slots /\ orig[i] < FreeSlot
    BY <2>1, CreationFacts DEF CreationInv, OrigSlotsTaken, MadeMem, Made
  <2>3. \A i \in MadeMem : caps'[orig[i]] = caps[orig[i]]
    BY <2>1, <2>2, CreationFacts DEF HoldSlot
  <2>. QED
    BY <2>1, <2>3, PlacedKept DEF MadeMem, Made
<1>4. CASE UNCHANGED <<m, orig, caps>>
  BY <1>4, PlacedKept DEF MadeMem, Made
<1>. QED
  BY <1>1, <1>2, <1>3, <1>4
     DEF Next, Step, Halt, vars, Abort, ParseBootinfo, SkipObject, IssueFails, NextUntyped,
         RetypeFails, SearchUntyped, ProbeFails, LeaveLoop, Finish

(* create_objects gives memory as Placement says: one object at a time, at *)
(* its address if it has one, inside a boot untyped, apart from all other  *)
(* objects, and never to be moved.                                         *)
THEOREM CreationImplementsPlacement == Spec => ImplementsPlacement
<1>. DEFINE Inv == CreationInv /\ SlotsInv /\ CompletionInv
<1>1. Init => Abstract!Init
  BY DEF Init, Abstract!Init, placed, MadeMem, Made
<1>2. Inv /\ Inv' /\ [Next]_vars => [Abstract!Next]_<<m, placed>>
  BY StepPlaces
<1>. QED
  BY <1>1, <1>2, Completion, PTL DEF Spec, ImplementsPlacement, Abstract!Spec
=============================================================================
