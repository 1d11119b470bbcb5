------------------------- MODULE StaticSystemProofs -------------------------
(***************************************************************************)
(* Proofs about static allocation, for every set of models and every boot  *)
(* information: the types, that the objects of a consistent model are      *)
(* where the tool computed them, and that static allocation implements     *)
(* Placement.                                                              *)
(***************************************************************************)
EXTENDS StaticSystem, Integers, FiniteSetTheorems, TLAPS

(* The kernel's retype. *)

(* An object is placed at or behind the watermark. *)
LEMMA AlignUpFacts ==
    ASSUME NEW x \in Nat, NEW s \in Nat \ {0}
    PROVE  AlignUp(x, s) \in Nat /\ AlignUp(x, s) >= x
<1>1. x % s \in 0 .. s - 1
  OBVIOUS
<1>2. s - (x % s) \in Int
  BY <1>1
<1>3. (s - (x % s)) % s \in 0 .. s - 1
  BY <1>2
<1>. QED
  BY <1>3 DEF AlignUp

(* What the kernel makes of untyped memory. *)
LEMMA RetypeFacts ==
    ASSUME caps \in [Slots -> Cap], free \in [Slots -> Nat],
           NEW u \in Slots, NEW s \in Nat \ {0}, NEW t \in Types, u \in Nat
    PROVE  /\ FreeIndex(u) \in Nat
           /\ NextBase(u, s) \in Nat
           /\ NextBase(u, s) >= caps[u].base + FreeIndex(u)
           /\ RetypedCap(t, u, s) \in Cap
           /\ RetypedCap(t, u, s) # NullCap
           /\ FreeAfter(u, s) \in Nat
           /\ FreeAfter(u, s) >= FreeIndex(u)
           /\ caps[u].base + FreeAfter(u, s) = NextBase(u, s) + s
           /\ Fits(u, s) => FreeAfter(u, s) <= caps[u].size
<1>1. caps[u] \in Cap /\ caps[u].base \in Nat /\ caps[u].size \in Nat
  BY DEF Cap
<1>2. FreeIndex(u) \in Nat
  BY DEF FreeIndex
<1>3. NextBase(u, s) \in Nat /\ NextBase(u, s) >= caps[u].base + FreeIndex(u)
  BY <1>1, <1>2, AlignUpFacts DEF NextBase
<1>4. RetypedCap(t, u, s) \in Cap
  BY <1>3 DEF RetypedCap, Cap, Types
<1>5. RetypedCap(t, u, s) # NullCap
  BY <1>3 DEF RetypedCap, NullCap
<1>. QED
  BY <1>1, <1>2, <1>3, <1>4, <1>5 DEF FreeAfter, Fits

(* An aligned address stays where it is. *)
LEMMA AlignedStays ==
    ASSUME NEW x \in Nat, NEW s \in Nat \ {0}, x % s = 0
    PROVE  AlignUp(x, s) = x
<1>1. s % s = 0
  OBVIOUS
<1>. QED
  BY <1>1 DEF AlignUp
-----------------------------------------------------------------------------

StaticInv ==
    /\ m \in Models
    /\ StaticTypeOK
    /\ LoopsInPhase
    /\ CoversFollowed

-----------------------------------------------------------------------------
(* What StaticModelsAssumption says of the model in use. *)
LEMMA StaticFacts ==
    ASSUME m \in Models
    PROVE  /\ Len(m.untypeds) \in Nat /\ DOMAIN m.untypeds = 1 .. Len(m.untypeds)
           /\ Len(m.objects) \in Nat /\ DOMAIN m.objects = 1 .. Len(m.objects)
           /\ Len(m.untyped) \in Nat /\ DOMAIN m.untyped = 1 .. Len(m.untyped)
           /\ Len(m.asid) \in Nat /\ DOMAIN m.asid = 1 .. Len(m.asid)
           /\ m.slots \in Nat /\ m.max_objects \in Nat
           /\ LastSlot \in Nat /\ Len(m.untypeds) <= LastSlot
           /\ Slots = 1 .. LastSlot /\ DOMAIN m.untypeds \subseteq Slots
           /\ \A u \in DOMAIN m.untypeds :
                /\ m.untypeds[u] \in Untyped
                /\ m.untypeds[u].paddr \in Nat /\ m.untypeds[u].size \in Nat \ {0}
           /\ \A i \in DOMAIN m.objects :
                /\ m.objects[i] \in Object /\ m.objects[i].type \in Types
                /\ m.objects[i].size \in Nat /\ m.objects[i].paddr \in Nat
<1>1. m \in StaticModel
  BY StaticModelsAssumption, Zenon
<1>2. /\ m.untypeds \in Seq(Untyped) /\ m.objects \in Seq(Object) /\ m.asid \in Seq(Nat)
      /\ m.untyped \in Seq([untyped : Nat, children : Seq(Nat)])
      /\ m.slots \in Nat /\ m.max_objects \in Nat
  BY <1>1 DEF StaticModel
<1>3. /\ Len(m.untypeds) \in Nat /\ DOMAIN m.untypeds = 1 .. Len(m.untypeds)
      /\ Len(m.objects) \in Nat /\ DOMAIN m.objects = 1 .. Len(m.objects)
      /\ Len(m.untyped) \in Nat /\ DOMAIN m.untyped = 1 .. Len(m.untyped)
      /\ Len(m.asid) \in Nat /\ DOMAIN m.asid = 1 .. Len(m.asid)
  BY <1>2
<1>4. \A u \in DOMAIN m.untypeds :
        /\ m.untypeds[u] \in Untyped
        /\ m.untypeds[u].paddr \in Nat /\ m.untypeds[u].size \in Nat \ {0}
  <2>1. \A u \in DOMAIN m.untypeds : m.untypeds[u] \in Untyped
    BY <1>2
  <2>. QED
    BY <2>1 DEF Untyped
<1>5. \A i \in DOMAIN m.objects :
        /\ m.objects[i] \in Object /\ m.objects[i].type \in Types
        /\ m.objects[i].size \in Nat /\ m.objects[i].paddr \in Nat
  <2>1. \A i \in DOMAIN m.objects : m.objects[i] \in Object
    BY <1>2
  <2>. QED
    BY <2>1 DEF Object
<1>6. /\ LastSlot \in Nat /\ Len(m.untypeds) <= LastSlot
      /\ Slots = 1 .. LastSlot /\ DOMAIN m.untypeds \subseteq Slots
  BY <1>2, <1>3 DEF LastSlot, Slots
<1>. QED
  BY <1>2, <1>3, <1>4, <1>5, <1>6

(* The objects at the places of a model. *)
LEMMA PlaceFacts ==
    ASSUME m \in Models
    PROVE  /\ \A p \in Places(m) :
                /\ p = <<p[1], p[2]>>
                /\ p[1] \in DOMAIN m.untyped /\ p[1] \in Nat \ {0}
                /\ p[2] \in DOMAIN m.untyped[p[1]].children /\ p[2] \in Nat \ {0}
                /\ IdAt(m, p) \in DOMAIN m.objects
                /\ m.objects[IdAt(m, p)].size \in Nat \ {0}
                /\ m.objects[IdAt(m, p)].type = "ASIDPool" =>
                      m.objects[IdAt(m, p)].size = ASIDPoolSize
           /\ \A d \in DOMAIN m.untyped :
                /\ m.untyped[d].children \in Seq(Nat)
                /\ m.untyped[d].untyped \in DOMAIN m.objects
                /\ \A c \in DOMAIN m.untyped[d].children : <<d, c>> \in Places(m)
<1>1. /\ m \in StaticModel
      /\ \A d \in DOMAIN m.untyped :
              /\ m.untyped[d].untyped \in DOMAIN m.objects
              /\ \A c \in DOMAIN m.untyped[d].children :
                    /\ m.untyped[d].children[c] \in DOMAIN m.objects
                    /\ m.objects[m.untyped[d].children[c]].size > 0
      /\ \A i \in DOMAIN m.objects :
              m.objects[i].type = "ASIDPool" => m.objects[i].size = ASIDPoolSize
  BY StaticModelsAssumption, Zenon
<1>2. m.untyped \in Seq([untyped : Nat, children : Seq(Nat)])
  BY <1>1 DEF StaticModel
<1>3. \A d \in DOMAIN m.untyped :
        d \in Nat \ {0} /\ m.untyped[d].children \in Seq(Nat)
  <2>. DEFINE D == [untyped : Nat, children : Seq(Nat)]
  <2>0. m.untyped \in Seq(D)
    BY <1>2
  <2>. HIDE DEF D
  <2>1. \A d \in DOMAIN m.untyped : m.untyped[d] \in D
    BY <2>0
  <2>2. \A d \in DOMAIN m.untyped : d \in Nat \ {0}
    BY StaticFacts
  <2>. QED
    BY <2>1, <2>2 DEF D
<1>4. \A d \in DOMAIN m.untyped : \A c \in DOMAIN m.untyped[d].children :
        c \in Nat \ {0} /\ <<d, c>> \in Places(m)
  BY <1>3 DEF Places
<1>5. ASSUME NEW p \in Places(m)
      PROVE  /\ p = <<p[1], p[2]>>
             /\ p[1] \in DOMAIN m.untyped /\ p[2] \in DOMAIN m.untyped[p[1]].children
  BY <1>5 DEF Places
<1>6. \A p \in Places(m) :
        /\ IdAt(m, p) \in DOMAIN m.objects
        /\ m.objects[IdAt(m, p)].size > 0
  BY <1>1, <1>5 DEF IdAt
<1>7. \A p \in Places(m) : m.objects[IdAt(m, p)].size \in Nat \ {0}
  BY <1>6, StaticFacts
<1>. QED
  BY <1>1, <1>3, <1>4, <1>5, <1>6, <1>7
-----------------------------------------------------------------------------
(* Types and phases. *)

TypeAndPhase == m \in Models /\ StaticTypeOK /\ LoopsInPhase

LEMMA InitTypes == Init => TypeAndPhase
<1>. SUFFICES ASSUME Init PROVE TypeAndPhase
  OBVIOUS
<1>1. m \in Models
  BY DEF Init
<1>. USE StaticFacts, <1>1
<1>2. caps \in [Slots -> Cap]
  <2>1. NullCap \in Cap
    BY DEF NullCap, Cap
  <2>2. \A u \in DOMAIN m.untypeds :
          [type |-> "Untyped", base |-> m.untypeds[u].paddr,
           size |-> m.untypeds[u].size, ut |-> 0] \in Cap
    BY DEF Cap, Types, MemoryTypes
  <2>. QED
    BY <2>1, <2>2 DEF Init, Start, BootCaps
<1>3. StaticTypeOK
  BY <1>2 DEF Init, Start, StaticTypeOK
<1>4. LoopsInPhase
  BY DEF Init, Start, LoopsInPhase
<1>. QED
  BY <1>3, <1>4 DEF TypeAndPhase

(* The child that create_objects is at. *)
LEMMA ChildFacts ==
    ASSUME TypeAndPhase, InLoop, child <= Len(Kids)
    PROVE  /\ <<ut_index, child>> \in Places(m) /\ ChildId = IdAt(m, <<ut_index, child>>)
           /\ ut_index \in DOMAIN m.untyped /\ ut_index \in DOMAIN untyped_cptrs
           /\ ChildId \in DOMAIN m.objects
           /\ untyped_cptr \in DOMAIN m.untypeds /\ untyped_cptr \in Slots /\ untyped_cptr \in Nat
           /\ Obj.size \in Nat \ {0} /\ KernelSize(Obj) = Obj.size
           /\ KernelType(Obj) \in Types
<1>. USE DEF TypeAndPhase
<1>1. /\ ut_index \in DOMAIN m.untyped
      /\ Len(untyped_cptrs) = Len(m.untyped) /\ untyped_cptrs \in Seq(DOMAIN m.untypeds)
  BY StaticFacts DEF InLoop, StaticTypeOK, LoopsInPhase
<1>2. ut_index \in DOMAIN untyped_cptrs
  BY <1>1, StaticFacts
<1>3. untyped_cptr \in DOMAIN m.untypeds /\ untyped_cptr \in Slots /\ untyped_cptr \in Nat
  BY <1>1, <1>2, StaticFacts DEF untyped_cptr
<1>4. child \in DOMAIN m.untyped[ut_index].children
  <2>1. m.untyped[ut_index].children \in Seq(Nat) /\ child \in Nat \ {0}
    BY <1>1, PlaceFacts, SMTT(30) DEF StaticTypeOK
  <2>. QED
    BY <2>1 DEF Kids
<1>5. <<ut_index, child>> \in Places(m) /\ ChildId = IdAt(m, <<ut_index, child>>)
  BY <1>1, <1>4, PlaceFacts DEF ChildId, Kids, IdAt
<1>6. ChildId \in DOMAIN m.objects /\ Obj.size \in Nat \ {0} /\ KernelSize(Obj) = Obj.size
  BY <1>5, PlaceFacts DEF KernelSize, Obj
<1>7. KernelType(Obj) \in Types
  BY <1>6, StaticFacts DEF KernelType, Obj, Types, MemoryTypes
<1>. QED
  BY <1>1, <1>2, <1>3, <1>5, <1>6, <1>7

LEMMA QuietTypes ==
    ASSUME TypeAndPhase,
           UNCHANGED <<m, untyped_cptrs, bi_start, ut_index, child, free_slot_index,
                       asid_high, orig, kernelVars>>,
           pc' \in {"slots", "match", "create", "asid", "done", "fatal"},
           free_slot_start' \in Nat \ {0},
           LoopsInPhase'
    PROVE  TypeAndPhase'
BY DEF TypeAndPhase, StaticTypeOK, kernelVars, Slots, LastSlot

LEMMA AbortTypes == TypeAndPhase /\ pc # "done" /\ Abort => TypeAndPhase'
<1>. SUFFICES ASSUME TypeAndPhase, pc # "done", Abort PROVE TypeAndPhase'
  OBVIOUS
<1>1. LoopsInPhase'
  BY DEF TypeAndPhase, LoopsInPhase, Abort, kernelVars, Slots, LastSlot
<1>. QED
  BY <1>1, QuietTypes DEF Abort, TypeAndPhase, StaticTypeOK

(* The retype of a child, and the pool made of the memory of one. *)
LEMMA CreateChildTypes == TypeAndPhase /\ CreateChild => TypeAndPhase'
<1>. SUFFICES ASSUME TypeAndPhase, CreateChild PROVE TypeAndPhase'
  OBVIOUS
<1>. DEFINE s == KernelSize(Obj)
            c == RetypedCap(KernelType(Obj), untyped_cptr, s)
            f == FreeAfter(untyped_cptr, s)
<1>1. /\ InLoop /\ child <= Len(Kids) /\ FreeSlot \in Slots
      /\ caps' = [caps EXCEPT ![FreeSlot] = c] /\ free' = [free EXCEPT ![untyped_cptr] = f]
      /\ orig' = [orig EXCEPT ![ChildId] = FreeSlot]
      /\ free_slot_index' = free_slot_index + 1 /\ child' = child + 1
      /\ UNCHANGED <<m, pc, untyped_cptrs, bi_start, ut_index, free_slot_start,
                     asid_high, asid_table>>
      /\ pc = "create"
  BY DEF CreateChild, Retypable, SlotReady, InLoop
<1>2. c \in Cap /\ f \in Nat
  BY <1>1, ChildFacts, RetypeFacts DEF TypeAndPhase, StaticTypeOK
<1>3. ChildId \in DOMAIN m.objects /\ untyped_cptr \in Slots
  BY <1>1, ChildFacts
<1>. HIDE DEF c, f, s
<1>4. StaticTypeOK'
  BY <1>1, <1>2, <1>3 DEF TypeAndPhase, StaticTypeOK, Slots, LastSlot
<1>5. LoopsInPhase'
  BY <1>1 DEF TypeAndPhase, LoopsInPhase
<1>. QED
  BY <1>1, <1>4, <1>5 DEF TypeAndPhase

(* MakePool where it does not stop. *)
PoolMade ==
    LET u == orig[PoolObject]
    IN  /\ pc = "asid" /\ asid_high <= Len(m.asid)
        /\ PoolMemory(u) /\ SlotReady(FreeSlot)
        /\ caps' = [caps EXCEPT ![FreeSlot] =
                       [type |-> "ASIDPool", base |-> caps[u].base,
                        size |-> ASIDPoolSize, ut |-> u]]
        /\ free' = [free EXCEPT ![u] = ASIDPoolSize]
        /\ asid_table' = Append(asid_table, FreeSlot)
        /\ orig' = [orig EXCEPT ![PoolObject] = FreeSlot]
        /\ free_slot_index' = free_slot_index + 1
        /\ asid_high' = asid_high + 1
        /\ UNCHANGED <<m, pc, untyped_cptrs, bi_start, ut_index, child, free_slot_start>>

LEMMA MakePoolCases == MakePool => PoolMade \/ (pc = "asid" /\ Abort)
BY DEF MakePool, PoolMade

LEMMA PoolFacts ==
    ASSUME TypeAndPhase, pc = "asid", asid_high <= Len(m.asid)
    PROVE  /\ asid_high \in DOMAIN m.asid /\ PoolObject \in DOMAIN m.objects
           /\ m.objects[PoolObject].type = "ASIDPool"
           /\ m.objects[PoolObject].size = ASIDPoolSize
           /\ orig[PoolObject] # 0 => orig[PoolObject] \in Slots /\ caps[orig[PoolObject]] \in Cap
<1>. USE DEF TypeAndPhase
<1>1. asid_high \in DOMAIN m.asid
  BY StaticFacts DEF StaticTypeOK
<1>2. /\ \A h \in DOMAIN m.asid : m.asid[h] \in DOMAIN m.objects
                                  /\ m.objects[m.asid[h]].type = "ASIDPool"
      /\ \A i \in DOMAIN m.objects :
              m.objects[i].type = "ASIDPool" => m.objects[i].size = ASIDPoolSize
  BY StaticModelsAssumption, Zenon
<1>. QED
  BY <1>1, <1>2 DEF PoolObject, StaticTypeOK

LEMMA PoolMadeTypes == TypeAndPhase /\ PoolMade => TypeAndPhase'
<1>. SUFFICES ASSUME TypeAndPhase, PoolMade PROVE TypeAndPhase'
  OBVIOUS
<1>. DEFINE u == orig[PoolObject]
            c == [type |-> "ASIDPool", base |-> caps[u].base, size |-> ASIDPoolSize, ut |-> u]
<1>1. /\ pc = "asid" /\ asid_high <= Len(m.asid) /\ u # 0 /\ FreeSlot \in Slots
      /\ caps' = [caps EXCEPT ![FreeSlot] = c] /\ free' = [free EXCEPT ![u] = ASIDPoolSize]
      /\ asid_table' = Append(asid_table, FreeSlot)
      /\ orig' = [orig EXCEPT ![PoolObject] = FreeSlot]
      /\ free_slot_index' = free_slot_index + 1 /\ asid_high' = asid_high + 1
      /\ UNCHANGED <<m, pc, untyped_cptrs, bi_start, ut_index, child, free_slot_start>>
  BY DEF PoolMade, PoolMemory, SlotReady
<1>2. PoolObject \in DOMAIN m.objects /\ u \in Slots /\ caps[u] \in Cap
  BY <1>1, PoolFacts
<1>3. c \in Cap
  <2>1. u \in Nat
    BY <1>2, StaticFacts DEF TypeAndPhase
  <2>. QED
    BY <1>2, <2>1, ASIDPoolSizeAssumption DEF Cap, Types, MemoryTypes
<1>. HIDE DEF c, u
<1>4. Len(m.asid) \in Nat
  BY StaticFacts DEF TypeAndPhase
<1>5. StaticTypeOK'
  BY <1>1, <1>2, <1>3, <1>4, ASIDPoolSizeAssumption DEF TypeAndPhase, StaticTypeOK, Slots, LastSlot
<1>6. LoopsInPhase'
  BY <1>1 DEF TypeAndPhase, LoopsInPhase
<1>. QED
  BY <1>1, <1>5, <1>6 DEF TypeAndPhase

LEMMA StepTypes == TypeAndPhase /\ [Next]_vars => TypeAndPhase'
<1>. SUFFICES ASSUME TypeAndPhase, [Next]_vars PROVE TypeAndPhase'
  OBVIOUS
<1>. USE DEF TypeAndPhase
<1>1. CASE CheckSlots
  <2>1. CASE Abort
    BY <1>1, <2>1, AbortTypes DEF CheckSlots
  <2>2. CASE ~Abort
    <3>1. LoopsInPhase'
      BY <1>1, <2>2 DEF CheckSlots, LoopsInPhase, kernelVars, Slots, LastSlot
    <3>. QED
      BY <1>1, <2>2, <3>1, QuietTypes DEF CheckSlots, StaticTypeOK
  <2>. QED
    BY <2>1, <2>2
<1>2. CASE MatchUntyped
  <2>1. CASE Abort
    BY <1>2, <2>1, AbortTypes DEF MatchUntyped
  <2>2. CASE ~Abort
    <3>1. PICK i \in Matches :
            /\ untyped_cptrs' = Append(untyped_cptrs, i)
            /\ bi_start' = IF bi_start \in Matches THEN bi_start + 1 ELSE bi_start
            /\ UNCHANGED <<m, pc, ut_index, child, free_slot_index, free_slot_start,
                           asid_high, orig, kernelVars>>
      BY <1>2, <2>2 DEF MatchUntyped
    <3>2. i \in DOMAIN m.untypeds /\ Len(untyped_cptrs) < Len(m.untyped) /\ pc = "match"
      BY <1>2, StaticFacts DEF MatchUntyped, Matches, StaticTypeOK
    <3>3. StaticTypeOK'
      <4>1. /\ untyped_cptrs' \in Seq(DOMAIN m.untypeds)
            /\ Len(untyped_cptrs') <= Len(m.untyped)
        BY <3>1, <3>2, StaticFacts DEF StaticTypeOK
      <4>2. bi_start' \in Nat \ {0}
        BY <3>1 DEF StaticTypeOK
      <4>. QED
        BY <3>1, <4>1, <4>2 DEF StaticTypeOK, kernelVars, Slots, LastSlot
    <3>4. LoopsInPhase'
      BY <3>1, <3>2 DEF LoopsInPhase, kernelVars, Slots, LastSlot
    <3>. QED
      BY <3>1, <3>3, <3>4
  <2>. QED
    BY <2>1, <2>2
<1>3. CASE EndMatch
  <2>1. LoopsInPhase'
    BY <1>3 DEF EndMatch, LoopsInPhase
  <2>. QED
    BY <1>3, <2>1, QuietTypes DEF EndMatch, StaticTypeOK
<1>4. CASE NextDerivation
  <2>1. StaticTypeOK'
    <3>1. ut_index' \in 1 .. Len(m.untyped) + 1 /\ child' = 1
      <4>1. ut_index \in 1 .. Len(m.untyped) + 1 /\ Len(m.untyped) \in Nat
            /\ ut_index <= Len(m.untyped) /\ ut_index' = ut_index + 1 /\ child' = 1
        BY <1>4, StaticFacts DEF NextDerivation, InLoop, StaticTypeOK
      <4>. QED
        BY <4>1
    <3>2. /\ UNCHANGED <<m, pc, untyped_cptrs, bi_start, free_slot_index, free_slot_start,
                         asid_high, orig, caps, free, asid_table>>
          /\ Slots' = Slots
      BY <1>4 DEF NextDerivation, kernelVars, Slots, LastSlot
    <3>. QED
      BY <3>1, <3>2 DEF StaticTypeOK
  <2>2. LoopsInPhase'
    BY <1>4 DEF NextDerivation, InLoop, LoopsInPhase, kernelVars
  <2>. QED
    BY <1>4, <2>1, <2>2 DEF NextDerivation
<1>5. CASE CreateChild
  BY <1>5, CreateChildTypes
<1>6. CASE CreateFails
  BY <1>6, AbortTypes DEF CreateFails, InLoop
<1>7. CASE EndCreate
  <2>1. LoopsInPhase'
    <3>1. ut_index = Len(m.untyped) + 1
      <4>1. ut_index \in 1 .. Len(m.untyped) + 1 /\ Len(m.untyped) \in Nat
            /\ ut_index > Len(m.untyped)
        BY <1>7, StaticFacts DEF EndCreate, StaticTypeOK
      <4>. QED
        BY <4>1
    <3>. QED
      BY <1>7, <3>1 DEF EndCreate, LoopsInPhase
  <2>. QED
    BY <1>7, <2>1, QuietTypes DEF EndCreate, StaticTypeOK
<1>8. CASE MakePool
  BY <1>8, MakePoolCases, PoolMadeTypes, AbortTypes
<1>9. CASE Finish
  <2>1. FreeSlot \in Nat \ {0}
    BY DEF FreeSlot, StaticTypeOK
  <2>2. LoopsInPhase'
    <3>1. asid_high = Len(m.asid) + 1
      <4>1. asid_high \in 1 .. Len(m.asid) + 1 /\ Len(m.asid) \in Nat /\ asid_high > Len(m.asid)
        BY <1>9, StaticFacts DEF Finish, StaticTypeOK
      <4>. QED
        BY <4>1
    <3>. QED
      BY <1>9, <3>1 DEF Finish, LoopsInPhase
  <2>. QED
    BY <1>9, <2>1, <2>2, QuietTypes DEF Finish
<1>10. CASE UNCHANGED vars
  BY <1>10 DEF vars, kernelVars, StaticTypeOK, LoopsInPhase, Slots, LastSlot
<1>. QED
  BY <1>1, <1>2, <1>3, <1>4, <1>5, <1>6, <1>7, <1>8, <1>9, <1>10 DEF Next, Step

(* Every variable of the static allocator keeps its type, through every    *)
(* order of derivations and every boot information.                        *)
THEOREM StaticTypeCorrect == Spec => []StaticTypeOK
<1>1. TypeAndPhase => StaticTypeOK
  BY DEF TypeAndPhase
<1>. QED
  BY <1>1, InitTypes, StepTypes, PTL DEF Spec
-----------------------------------------------------------------------------
(* The covers are followed. *)

Followed ==
    /\ MatchedUntypeds /\ BootCapsStay /\ MadeInOrder
    /\ \A p \in Places(m) : Passed(p) => AsComputed(p)
    /\ Watermarks

LEMMA NothingPassed ==
    ASSUME m \in Models, ut_index = 1, child = 1
    PROVE  \A p \in Places(m) : ~Passed(p)
<1>1. \A p \in Places(m) : p[1] \in Nat \ {0} /\ p[2] \in Nat \ {0}
  BY PlaceFacts
<1>. QED
  BY <1>1 DEF Passed

LEMMA InitFollowed == Init => CoversFollowed
<1>. SUFFICES ASSUME Init PROVE Followed
  BY DEF CoversFollowed, Followed
<1>1. m \in Models /\ untyped_cptrs = <<>> /\ pc = "slots" /\ ut_index = 1 /\ child = 1
  BY DEF Init, Start
<1>2. MatchedUntypeds
  BY <1>1 DEF MatchedUntypeds
<1>3. BootCapsStay
  BY <1>1, StaticFacts DEF BootCapsStay, BootCaps, Init, Start
<1>4. orig = [i \in DOMAIN m.objects |-> 0]
  BY DEF Init, Start
<1>5. MadeInOrder
  <2>1. \A p \in Places(m) : IdAt(m, p) \in DOMAIN m.objects
    BY <1>1, PlaceFacts
  <2>. QED
    BY <1>1, <1>4, <2>1, NothingPassed DEF MadeInOrder
<1>6. Watermarks
  BY <1>1 DEF Watermarks
<1>. QED
  BY <1>1, <1>2, <1>3, <1>5, <1>6, NothingPassed DEF Followed

(* Steps that do not touch the loops, the table of caps or the kernel. *)
LEMMA QuietFollowed ==
    ASSUME Followed, pc' = "create" => pc = "create",
           UNCHANGED <<m, untyped_cptrs, ut_index, child, asid_high, orig, caps, free>>
    PROVE  Followed'
<1>1. MatchedUntypeds' /\ BootCapsStay' /\ MadeInOrder'
  BY DEF Followed, MatchedUntypeds, UntypedOf, BootCapsStay, MadeInOrder, Passed
<1>2. Watermarks'
  BY DEF Followed, Watermarks, UntypedOf
<1>3. \A p \in Places(m) : Passed(p)' <=> Passed(p)
  BY DEF Passed
<1>4. ASSUME NEW p \in Places(m), AsComputed(p)
      PROVE  AsComputed(p)'
  <2>1. \A i : PooledBy(i)' <=> PooledBy(i)
    BY DEF PooledBy
  <2>. QED
    BY <1>4, <2>1 DEF AsComputed, UntypedOf
<1>. QED
  BY <1>1, <1>2, <1>3, <1>4 DEF Followed

LEMMA MatchFollowed ==
    ASSUME TypeAndPhase, Followed, MatchUntyped, ~Abort
    PROVE  Followed'
<1>1. PICK i \in Matches :
        /\ \A k \in Matches : k <= i /\ m.untypeds[k].size = Wanted.size
        /\ untyped_cptrs' = Append(untyped_cptrs, i)
        /\ UNCHANGED <<m, pc, ut_index, child, asid_high, orig, kernelVars>>
  BY DEF MatchUntyped
<1>2. /\ pc = "match" /\ ut_index = 1 /\ child = 1
      /\ i \in DOMAIN m.untypeds
      /\ m.untypeds[i].paddr = Wanted.paddr /\ m.untypeds[i].size = Wanted.size
  <2>1. pc = "match" /\ ut_index = 1 /\ child = 1
    BY DEF MatchUntyped, TypeAndPhase, LoopsInPhase
  <2>2. i \in bi_start .. Len(m.untypeds) /\ m.untypeds[i].paddr = Wanted.paddr
    BY DEF Matches
  <2>3. i \in DOMAIN m.untypeds
    BY <2>2, StaticFacts DEF TypeAndPhase, StaticTypeOK
  <2>. QED
    BY <1>1, <2>1, <2>2, <2>3
<1>3. MatchedUntypeds'
  <2>1. /\ untyped_cptrs \in Seq(DOMAIN m.untypeds) /\ Len(untyped_cptrs) \in Nat
        /\ DOMAIN untyped_cptrs = 1 .. Len(untyped_cptrs)
    BY DEF TypeAndPhase, StaticTypeOK
  <2>2. /\ DOMAIN untyped_cptrs' = 1 .. Len(untyped_cptrs) + 1
        /\ untyped_cptrs'[Len(untyped_cptrs) + 1] = i
        /\ \A d \in DOMAIN untyped_cptrs : untyped_cptrs'[d] = untyped_cptrs[d]
    BY <1>1, <2>1
  <2>3. Wanted = UntypedOf(Len(untyped_cptrs) + 1)
    BY DEF Wanted, derivation, UntypedOf
  <2>4. SUFFICES ASSUME NEW d \in DOMAIN untyped_cptrs'
                 PROVE  /\ m.untypeds[untyped_cptrs'[d]].paddr = UntypedOf(d).paddr
                        /\ m.untypeds[untyped_cptrs'[d]].size = UntypedOf(d).size
    BY <1>1 DEF MatchedUntypeds, UntypedOf
  <2>5. CASE d \in DOMAIN untyped_cptrs
    BY <2>2, <2>5 DEF Followed, MatchedUntypeds
  <2>6. CASE d = Len(untyped_cptrs) + 1
    BY <1>2, <2>2, <2>3, <2>6
  <2>. QED
    BY <2>1, <2>2, <2>5, <2>6
<1>4. BootCapsStay' /\ MadeInOrder'
  BY <1>1 DEF Followed, BootCapsStay, MadeInOrder, Passed, kernelVars
<1>5. Watermarks' /\ \A p \in Places(m) : ~Passed(p)'
  <2>1. \A p \in Places(m) : ~Passed(p)
    BY <1>2, NothingPassed DEF TypeAndPhase
  <2>. QED
    BY <1>1, <1>2, <2>1 DEF Watermarks, Passed
<1>. QED
  BY <1>1, <1>3, <1>4, <1>5 DEF Followed

LEMMA EndMatchFollowed ==
    ASSUME TypeAndPhase, Followed, EndMatch
    PROVE  Followed'
<1>1. /\ pc = "match" /\ pc' = "create" /\ Len(untyped_cptrs) = Len(m.untyped)
      /\ UNCHANGED <<m, untyped_cptrs, ut_index, child, asid_high, orig, caps, free>>
      /\ ut_index = 1 /\ child = 1 /\ \A s \in Slots : free[s] = 0
  BY DEF EndMatch, TypeAndPhase, LoopsInPhase, kernelVars
<1>2. \A p \in Places(m) : ~Passed(p)
  BY <1>1, NothingPassed DEF TypeAndPhase
<1>3. MatchedUntypeds' /\ BootCapsStay' /\ MadeInOrder'
  BY <1>1 DEF Followed, MatchedUntypeds, UntypedOf, BootCapsStay, MadeInOrder, Passed
<1>4. \A d \in DOMAIN m.untyped : untyped_cptrs[d] \in Slots
  <2>1. untyped_cptrs \in Seq(DOMAIN m.untypeds)
    BY DEF TypeAndPhase, StaticTypeOK
  <2>2. DOMAIN untyped_cptrs = DOMAIN m.untyped /\ DOMAIN m.untypeds \subseteq Slots
    BY <1>1, <2>1, StaticFacts DEF TypeAndPhase
  <2>. QED
    BY <2>1, <2>2
<1>5. Watermarks'
  BY <1>1, <1>4 DEF Watermarks
<1>6. \A p \in Places(m) : ~Passed(p)'
  BY <1>1, <1>2 DEF Passed
<1>. QED
  BY <1>1, <1>3, <1>5, <1>6 DEF Followed

(* After its last child a derivation has been passed. *)
LEMMA NextDerivationPassed ==
    ASSUME TypeAndPhase, NextDerivation
    PROVE  \A p \in Places(m) : Passed(p)' <=> Passed(p)
<1>1. /\ pc = "create" /\ ut_index <= Len(m.untyped) /\ child > Len(Kids)
      /\ ut_index' = ut_index + 1 /\ child' = 1
      /\ UNCHANGED <<m, pc, untyped_cptrs, asid_high, orig, caps, free>>
      /\ ut_index \in DOMAIN m.untyped /\ ut_index \in Nat /\ child \in Nat
  BY StaticFacts, SMTT(30) DEF NextDerivation, InLoop, kernelVars, TypeAndPhase, StaticTypeOK
<1>2. SUFFICES ASSUME NEW p \in Places(m) PROVE Passed(p)' <=> Passed(p)
  OBVIOUS
<1>3. /\ p[1] \in Nat \ {0} /\ p[2] \in Nat \ {0}
      /\ p[2] \in DOMAIN m.untyped[p[1]].children
  BY PlaceFacts DEF TypeAndPhase
<1>4. p[1] = ut_index => p[2] < child
  <2>1. m.untyped[ut_index].children \in Seq(Nat)
    BY <1>1, PlaceFacts DEF TypeAndPhase
  <2>. QED
    BY <1>1, <1>3, <2>1 DEF Kids
<1>. QED
  BY <1>1, <1>3, <1>4 DEF Passed

LEMMA NextDerivationFollowed ==
    ASSUME TypeAndPhase, Followed, NextDerivation
    PROVE  Followed'
<1>1. /\ pc = "create" /\ ut_index <= Len(m.untyped) /\ child > Len(Kids)
      /\ ut_index' = ut_index + 1 /\ child' = 1
      /\ UNCHANGED <<m, pc, untyped_cptrs, asid_high, orig, caps, free>>
      /\ ut_index \in DOMAIN m.untyped /\ ut_index \in Nat /\ child \in Nat
  BY StaticFacts DEF NextDerivation, InLoop, kernelVars, TypeAndPhase, StaticTypeOK
<1>2. \A p \in Places(m) : Passed(p)' <=> Passed(p)
  BY NextDerivationPassed
<1>3. MatchedUntypeds' /\ BootCapsStay'
  BY <1>1 DEF Followed, MatchedUntypeds, UntypedOf, BootCapsStay
<1>4. MadeInOrder'
  BY <1>1, <1>2 DEF Followed, MadeInOrder
<1>5. Watermarks'
  <2>1. \A d \in DOMAIN m.untyped : d \in Nat
    BY StaticFacts DEF TypeAndPhase
  <2>2. \A d \in DOMAIN m.untyped : d > ut_index => free[untyped_cptrs[d]] = 0
    BY <1>1 DEF Followed, Watermarks
  <2>. QED
    BY <1>1, <2>1, <2>2 DEF Watermarks
<1>6. ASSUME NEW p \in Places(m), AsComputed(p)
      PROVE  AsComputed(p)'
  <2>1. \A i : PooledBy(i)' <=> PooledBy(i)
    BY <1>1 DEF PooledBy
  <2>. QED
    BY <1>1, <1>6, <2>1, SMTT(30) DEF AsComputed, UntypedOf
<1>. QED
  BY <1>1, <1>2, <1>3, <1>4, <1>5, <1>6 DEF Followed
(* What a consistent model says of the child at hand. *)
LEMMA ConsistentChild ==
    ASSUME m \in Models, Consistent(m), NEW d \in DOMAIN m.untyped, NEW c,
           <<d, c>> \in Places(m)
    PROVE  LET o == m.objects[IdAt(m, <<d, c>>)]
           IN  /\ m.addr[d][c] = IF c = 1 THEN UntypedOf(d).paddr
                                 ELSE m.addr[d][c - 1] + m.objects[IdAt(m, <<d, c - 1>>)].size
               /\ m.addr[d][c] % o.size = 0
               /\ m.addr[d][c] + o.size <= UntypedOf(d).paddr + UntypedOf(d).size
               /\ o.paddr # 0 => m.addr[d][c] = o.paddr
               /\ m.addr[d][c] \in Nat
<1>1. c \in DOMAIN m.untyped[d].children
  BY PlaceFacts
<1>2. CoverConsistent(m, d)
  BY DEF Consistent
<1>3. m.addr[d][c] \in Nat
  <2>1. m.addr \in Seq(Seq(Nat)) /\ Len(m.addr) = Len(m.untyped)
    <3>1. m \in StaticModel /\ Len(m.addr) = Len(m.untyped)
      BY StaticModelsAssumption, Zenon
    <3>. QED
      BY <3>1 DEF StaticModel
  <2>2. m.addr[d] \in Seq(Nat)
    BY <2>1, StaticFacts
  <2>3. m.untyped[d].children \in Seq(Nat) /\ Len(m.addr[d]) = Len(m.untyped[d].children)
    BY <1>2, PlaceFacts DEF CoverConsistent
  <2>. QED
    BY <1>1, <2>2, <2>3, SMTT(30)
<1>. QED
  BY <1>1, <1>2, <1>3 DEF CoverConsistent, IdAt, UntypedOf

(* The kernel's watermark is where the tool puts the child. *)
LEMMA ChildPlace ==
    ASSUME TypeAndPhase, Followed, Consistent(m), InLoop, child <= Len(Kids)
    PROVE  /\ NextBase(untyped_cptr, Obj.size) = m.addr[ut_index][child]
           /\ FreeIndex(untyped_cptr) = free[untyped_cptr]
           /\ caps[untyped_cptr].base = UntypedOf(ut_index).paddr
           /\ UntypedOf(ut_index).paddr \in Nat
           /\ UntypedOf(ut_index).paddr <= m.addr[ut_index][child]
<1>. DEFINE d == ut_index
            u == untyped_cptr
            q == <<d, child>>
            a == m.addr[d][child]
            b == UntypedOf(d).paddr
<1>1. /\ q \in Places(m) /\ ChildId = IdAt(m, q) /\ d \in DOMAIN m.untyped
      /\ d \in DOMAIN untyped_cptrs /\ u \in DOMAIN m.untypeds /\ u \in Slots /\ u \in Nat
      /\ Obj.size \in Nat \ {0} /\ m \in Models /\ pc = "create"
      /\ d \in Nat /\ child \in Nat \ {0}
  <2>1. /\ q \in Places(m) /\ ChildId = IdAt(m, q) /\ d \in DOMAIN m.untyped
        /\ d \in DOMAIN untyped_cptrs /\ u \in DOMAIN m.untypeds /\ u \in Slots /\ u \in Nat
        /\ Obj.size \in Nat \ {0}
    BY ChildFacts
  <2>2. m \in Models /\ pc = "create" /\ d \in Nat /\ child \in Nat \ {0}
    BY DEF TypeAndPhase, InLoop, StaticTypeOK
  <2>. QED
    BY <2>1, <2>2
<1>2. /\ a = IF child = 1 THEN b
              ELSE m.addr[d][child - 1] + m.objects[IdAt(m, <<d, child - 1>>)].size
      /\ a % Obj.size = 0 /\ a \in Nat
  BY <1>1, ConsistentChild DEF Obj
<1>3. caps[u].base = b /\ b \in Nat
  <2>1. caps[u].base = m.untypeds[u].paddr /\ m.untypeds[u].paddr = b
    BY <1>1 DEF Followed, BootCapsStay, MatchedUntypeds, untyped_cptr
  <2>. QED
    BY <1>1, <2>1, StaticFacts
<1>4. free[u] \in Nat
  BY <1>1 DEF TypeAndPhase, StaticTypeOK
<1>5. FreeIndex(u) = free[u] /\ b + free[u] = a
  <2>1. CASE child = 1
    <3>1. free[u] = 0
      BY <1>1, <2>1 DEF Followed, Watermarks, untyped_cptr
    <3>. QED
      BY <1>2, <1>3, <2>1, <3>1 DEF FreeIndex
  <2>2. CASE child # 1
    <3>. DEFINE p == <<d, child - 1>>
    <3>1. child > 1
      BY <1>1, <2>2
    <3>2. p \in Places(m) /\ b + free[u] = m.addr[d][child - 1] + m.objects[IdAt(m, p)].size
      BY <1>1, <3>1 DEF Followed, Watermarks, untyped_cptr
    <3>3. Passed(p)
      BY <1>1 DEF Passed
    <3>4. caps[orig[IdAt(m, p)]] # NullCap /\ caps[orig[IdAt(m, p)]].ut = u
      BY <1>1, <3>2, <3>3 DEF Followed, AsComputed, untyped_cptr
    <3>5. orig[IdAt(m, p)] \in Slots
      <4>1. orig[IdAt(m, p)] # 0
        BY <3>2, <3>3 DEF Followed, MadeInOrder
      <4>. QED
        BY <1>1, <3>2, <4>1, PlaceFacts DEF TypeAndPhase, StaticTypeOK
    <3>6. Children(u) # {}
      BY <3>4, <3>5 DEF Children
    <3>. HIDE DEF p
    <3>. QED
      BY <1>2, <2>2, <3>2, <3>6 DEF FreeIndex, p
  <2>. QED
    BY <2>1, <2>2
<1>6. NextBase(u, Obj.size) = a
  BY <1>1, <1>2, <1>3, <1>4, <1>5, AlignedStays DEF NextBase
<1>. QED
  BY <1>3, <1>4, <1>5, <1>6
(* What the retype of a child changes, and what it leaves alone. *)
LEMMA ChildMade ==
    ASSUME TypeAndPhase, Followed, Consistent(m), CreateChild
    PROVE  /\ m' = m /\ Slots' = Slots /\ pc = "create" /\ pc' = pc
           /\ UNCHANGED <<untyped_cptrs, ut_index, asid_high>> /\ child' = child + 1
           /\ InLoop /\ child <= Len(Kids)
           /\ FreeSlot \in Slots /\ FreeSlot \in Nat /\ FreeSlot > Len(m.untypeds)
           /\ orig'[ChildId] = FreeSlot
           /\ \A i \in DOMAIN m.objects : i # ChildId => orig'[i] = orig[i]
           /\ caps'[FreeSlot] = [type |-> KernelType(Obj), base |-> m.addr[ut_index][child],
                                 size |-> Obj.size, ut |-> untyped_cptr]
           /\ caps'[FreeSlot] # NullCap
           /\ \A s \in Slots : s # FreeSlot => caps'[s] = caps[s]
           /\ UntypedOf(ut_index).paddr + free'[untyped_cptr] = m.addr[ut_index][child] + Obj.size
           /\ free'[untyped_cptr] \in Nat /\ free'[untyped_cptr] >= free[untyped_cptr]
           /\ \A s \in Slots : s # untyped_cptr => free'[s] = free[s]
           /\ ~Passed(<<ut_index, child>>)
           /\ \A p \in Places(m) : Passed(p)' <=> Passed(p) \/ p = <<ut_index, child>>
           /\ \A p \in Places(m) : Passed(p) =>
                 /\ IdAt(m, p) # ChildId /\ IdAt(m, p) \in DOMAIN m.objects
                 /\ orig[IdAt(m, p)] \in Slots /\ orig[IdAt(m, p)] # FreeSlot
                 /\ orig'[IdAt(m, p)] = orig[IdAt(m, p)]
                 /\ caps'[orig[IdAt(m, p)]] = caps[orig[IdAt(m, p)]]
<1>. DEFINE s == KernelSize(Obj)
            u == untyped_cptr
            c == RetypedCap(KernelType(Obj), u, s)
            q == <<ut_index, child>>
<1>1. /\ InLoop /\ child <= Len(Kids) /\ SlotReady(FreeSlot)
      /\ caps' = [caps EXCEPT ![FreeSlot] = c] /\ free' = [free EXCEPT ![u] = FreeAfter(u, s)]
      /\ orig' = [orig EXCEPT ![ChildId] = FreeSlot] /\ child' = child + 1
      /\ UNCHANGED <<m, pc, untyped_cptrs, ut_index, free_slot_start, asid_high>>
  BY DEF CreateChild, Retypable
<1>2. /\ pc = "create" /\ m \in Models /\ Slots' = Slots /\ FreeSlot \in Slots
      /\ caps[FreeSlot] = NullCap
      /\ caps \in [Slots -> Cap] /\ free \in [Slots -> Nat]
      /\ orig \in [DOMAIN m.objects -> Slots \cup {0}]
      /\ ut_index \in Nat /\ child \in Nat \ {0}
  <2>1. Slots' = Slots
    BY <1>1 DEF Slots, LastSlot
  <2>2. FreeSlot \in Slots /\ caps[FreeSlot] = NullCap /\ pc = "create"
    BY <1>1 DEF InLoop, SlotReady
  <2>. QED
    BY <2>1, <2>2 DEF TypeAndPhase, StaticTypeOK
<1>3. FreeSlot \in Nat /\ FreeSlot > Len(m.untypeds)
  BY <1>2, StaticFacts DEF FreeSlot, TypeAndPhase, StaticTypeOK, LoopsInPhase
<1>4. /\ q \in Places(m) /\ ChildId = IdAt(m, q) /\ ChildId \in DOMAIN m.objects
      /\ u \in Slots /\ u \in Nat /\ s = Obj.size /\ s \in Nat \ {0} /\ KernelType(Obj) \in Types
  BY <1>1, ChildFacts
<1>5. /\ NextBase(u, s) = m.addr[ut_index][child] /\ FreeIndex(u) = free[u]
      /\ caps[u].base = UntypedOf(ut_index).paddr
  BY <1>1, <1>4, ChildPlace
<1>6. c = [type |-> KernelType(Obj), base |-> m.addr[ut_index][child],
           size |-> Obj.size, ut |-> untyped_cptr]
  BY <1>4, <1>5 DEF RetypedCap
<1>7. /\ c # NullCap /\ FreeAfter(u, s) \in Nat /\ FreeAfter(u, s) >= free[u]
      /\ UntypedOf(ut_index).paddr + FreeAfter(u, s) = m.addr[ut_index][child] + Obj.size
  BY <1>2, <1>4, <1>5, RetypeFacts
<1>8. ~Passed(q)
  BY <1>2 DEF Passed
<1>9. \A p \in Places(m) : Passed(p)' <=> Passed(p) \/ p = q
  <2>1. \A p \in Places(m) : p = <<p[1], p[2]>> /\ p[1] \in Nat /\ p[2] \in Nat
    BY <1>2, PlaceFacts
  <2>. QED
    BY <1>1, <1>2, <2>1 DEF Passed
<1>10. ASSUME NEW p \in Places(m), Passed(p)
       PROVE  /\ IdAt(m, p) # ChildId /\ IdAt(m, p) \in DOMAIN m.objects
              /\ orig[IdAt(m, p)] \in Slots /\ orig[IdAt(m, p)] # FreeSlot
  <2>1. IdAt(m, p) # ChildId
    BY <1>4, <1>8, <1>10 DEF Consistent
  <2>2. IdAt(m, p) \in DOMAIN m.objects
    BY <1>2, PlaceFacts
  <2>3. orig[IdAt(m, p)] # 0 /\ caps[orig[IdAt(m, p)]] # NullCap
    BY <1>10 DEF Followed, MadeInOrder, AsComputed
  <2>. QED
    BY <1>2, <2>1, <2>2, <2>3
<1>. HIDE DEF s, u, c, q
<1>11. caps'[FreeSlot] = c /\ \A t \in Slots : t # FreeSlot => caps'[t] = caps[t]
  BY <1>1, <1>2
<1>12. free'[u] = FreeAfter(u, s) /\ \A t \in Slots : t # u => free'[t] = free[t]
  BY <1>1, <1>2, <1>4
<1>13. /\ orig'[ChildId] = FreeSlot
       /\ \A i \in DOMAIN m.objects : i # ChildId => orig'[i] = orig[i]
  BY <1>1, <1>2, <1>4
<1>14. \A p \in Places(m) : Passed(p) =>
         /\ orig'[IdAt(m, p)] = orig[IdAt(m, p)]
         /\ caps'[orig[IdAt(m, p)]] = caps[orig[IdAt(m, p)]]
  BY <1>10, <1>11, <1>13
<1>. QED
  BY <1>1, <1>2, <1>3, <1>6, <1>7, <1>8, <1>9, <1>10, <1>11, <1>12, <1>13, <1>14 DEF u, q

(* The untypeds found for two derivations differ. *)
LEMMA MatchesDiffer ==
    ASSUME TypeAndPhase, Followed, Consistent(m), Len(untyped_cptrs) = Len(m.untyped),
           NEW d \in DOMAIN m.untyped, NEW e \in DOMAIN m.untyped, d # e
    PROVE  /\ untyped_cptrs[d] \in DOMAIN m.untypeds /\ untyped_cptrs[e] \in DOMAIN m.untypeds
           /\ untyped_cptrs[d] # untyped_cptrs[e]
<1>1. DOMAIN untyped_cptrs = DOMAIN m.untyped /\ untyped_cptrs \in Seq(DOMAIN m.untypeds)
  BY StaticFacts DEF TypeAndPhase, StaticTypeOK
<1>2. UntypedOf(d).paddr # UntypedOf(e).paddr
  BY DEF Consistent, UntypedOf
<1>3. /\ m.untypeds[untyped_cptrs[d]].paddr = UntypedOf(d).paddr
      /\ m.untypeds[untyped_cptrs[e]].paddr = UntypedOf(e).paddr
  BY <1>1 DEF Followed, MatchedUntypeds
<1>. QED
  BY <1>1, <1>2, <1>3

LEMMA CreateChildFollowed ==
    ASSUME TypeAndPhase, Followed, Consistent(m), CreateChild
    PROVE  Followed'
<1>. DEFINE d == ut_index
            u == untyped_cptr
            q == <<d, child>>
            a == m.addr[d][child]
<1>1. /\ m' = m /\ Slots' = Slots /\ pc = "create" /\ pc' = pc
      /\ UNCHANGED <<untyped_cptrs, ut_index, asid_high>> /\ child' = child + 1
      /\ InLoop /\ child <= Len(Kids) /\ m \in Models
  BY ChildMade DEF TypeAndPhase
<1>2. /\ q \in Places(m) /\ ChildId = IdAt(m, q) /\ ChildId \in DOMAIN m.objects
      /\ d \in DOMAIN m.untyped /\ d \in DOMAIN untyped_cptrs
      /\ u \in DOMAIN m.untypeds /\ u \in Slots /\ u = untyped_cptrs[d]
      /\ Len(untyped_cptrs) = Len(m.untyped) /\ d \in Nat /\ child \in Nat \ {0}
  BY <1>1, ChildFacts DEF TypeAndPhase, LoopsInPhase, StaticTypeOK, untyped_cptr
<1>3. MatchedUntypeds'
  BY <1>1 DEF Followed, MatchedUntypeds, UntypedOf
<1>4. BootCapsStay'
  <2>1. \A v \in DOMAIN m.untypeds : v \in Slots /\ v # FreeSlot
    BY <1>1, ChildMade, StaticFacts
  <2>2. \A v \in DOMAIN m.untypeds : caps'[v] = caps[v]
    BY <2>1, ChildMade
  <2>. QED
    BY <1>1, <2>2 DEF Followed, BootCapsStay
<1>5. MadeInOrder'
  <2>1. ASSUME NEW p \in Places(m) PROVE orig'[IdAt(m, p)] # 0 <=> Passed(p)'
    <3>1. CASE p = q
      BY <1>2, <3>1, ChildMade, StaticFacts
    <3>2. CASE p # q
      <4>1. IdAt(m, p) # ChildId /\ IdAt(m, p) \in DOMAIN m.objects
        BY <1>1, <1>2, <3>2, PlaceFacts DEF Consistent
      <4>2. orig'[IdAt(m, p)] = orig[IdAt(m, p)]
        BY <4>1, ChildMade
      <4>3. Passed(p)' <=> Passed(p)
        BY <3>2, ChildMade
      <4>. QED
        BY <4>2, <4>3 DEF Followed, MadeInOrder
    <3>. QED
      BY <3>1, <3>2
  <2>2. ASSUME NEW i \in DOMAIN m.objects, orig'[i] # 0
        PROVE  \E p \in Places(m) : IdAt(m, p) = i
    <3>1. CASE i = ChildId
      BY <1>2, <3>1
    <3>2. CASE i # ChildId
      <4>1. orig[i] # 0
        BY <2>2, <3>2, ChildMade
      <4>. QED
        BY <4>1 DEF Followed, MadeInOrder
    <3>. QED
      BY <3>1, <3>2
  <2>. QED
    BY <1>1, <2>1, <2>2 DEF MadeInOrder
<1>6. Watermarks'
  <2>1. ASSUME NEW e \in DOMAIN m.untyped, e > d PROVE free'[untyped_cptrs[e]] = 0
    <3>1. e # d /\ e \in Nat
      BY <1>1, <1>2, <2>1, StaticFacts
    <3>2. untyped_cptrs[e] # u /\ untyped_cptrs[e] \in Slots
      BY <1>1, <1>2, <3>1, MatchesDiffer, StaticFacts
    <3>3. free[untyped_cptrs[e]] = 0
      BY <1>1, <2>1 DEF Followed, Watermarks
    <3>. QED
      BY <3>2, <3>3, ChildMade
  <2>2. UntypedOf(d).paddr + free'[u] = a + m.objects[IdAt(m, q)].size
    BY <1>2, ChildMade DEF Obj
  <2>3. \A e \in DOMAIN m.untyped : e \in Nat
    BY <1>1, StaticFacts
  <2>. HIDE DEF u
  <2>4. child' > 1 /\ child' - 1 = child
    BY <1>1, <1>2
  <2>5. SUFFICES ASSUME NEW e \in DOMAIN m.untyped
                 PROVE  /\ e > d => free'[untyped_cptrs[e]] = 0
                        /\ e = d => /\ <<e, child' - 1>> \in Places(m)
                                   /\ UntypedOf(e).paddr + free'[untyped_cptrs[e]] =
                                         m.addr[e][child' - 1] + m.objects[IdAt(m, <<e, child' - 1>>)].size
    BY <1>1, <2>4 DEF Watermarks, UntypedOf
  <2>. QED
    BY <1>2, <2>1, <2>2, <2>4
<1>7. ASSUME NEW p \in Places(m), Passed(p)'
      PROVE  AsComputed(p)'
  <2>1. \A i : PooledBy(i)' <=> PooledBy(i)
    BY <1>1 DEF PooledBy
  <2>2. UntypedOf(p[1])' = UntypedOf(p[1])
    BY <1>1 DEF UntypedOf
  <2>3. CASE p = q
    <3>1. caps'[orig'[ChildId]] = [type |-> KernelType(Obj), base |-> a,
                                   size |-> Obj.size, ut |-> u]
      BY ChildMade
    <3>2. /\ caps'[orig'[ChildId]] # NullCap /\ orig'[ChildId] > Len(m.untypeds)
          /\ UntypedOf(d).paddr + free'[u] = a + Obj.size
          /\ UntypedOf(d).paddr <= a
      BY <1>1, ChildMade, ChildPlace
    <3>3. ~PooledBy(ChildId)
      <4>1. asid_high = 1
        BY <1>1 DEF TypeAndPhase, LoopsInPhase
      <4>. QED
        BY <4>1 DEF PooledBy
    <3>4. a \in Nat /\ Obj.size \in Nat
      BY <1>1, <1>2, ConsistentChild, ChildFacts
    <3>. HIDE DEF u, a
    <3>5. p[1] = d /\ p[2] = child /\ IdAt(m, p) = ChildId
      BY <1>2, <2>3
    <3>. QED
      BY <1>1, <1>2, <2>1, <2>2, <3>1, <3>2, <3>3, <3>4, <3>5, SMTT(30) DEF AsComputed, Obj, a
  <2>4. CASE p # q
    <3>1. Passed(p)
      BY <1>7, <2>4, ChildMade
    <3>2. AsComputed(p)
      BY <3>1 DEF Followed
    <3>3. orig'[IdAt(m, p)] = orig[IdAt(m, p)] /\ caps'[orig[IdAt(m, p)]] = caps[orig[IdAt(m, p)]]
      BY <3>1, ChildMade
    <3>4. /\ p[1] \in DOMAIN m.untyped /\ caps[orig[IdAt(m, p)]] \in Cap
          /\ UntypedOf(p[1]).paddr \in Nat
      <4>1. p[1] \in DOMAIN m.untyped /\ m.untyped[p[1]].untyped \in DOMAIN m.objects
        BY <1>1, PlaceFacts
      <4>2. orig[IdAt(m, p)] \in Slots
        BY <3>1, ChildMade
      <4>. QED
        BY <1>1, <4>1, <4>2, StaticFacts DEF TypeAndPhase, StaticTypeOK, UntypedOf
    <3>5. /\ free'[untyped_cptrs[p[1]]] >= free[untyped_cptrs[p[1]]]
          /\ free[untyped_cptrs[p[1]]] \in Nat /\ free'[untyped_cptrs[p[1]]] \in Nat
      <4>1. free \in [Slots -> Nat]
        BY DEF TypeAndPhase, StaticTypeOK
      <4>2. CASE p[1] = d
        BY <1>2, <4>1, <4>2, ChildMade
      <4>3. CASE p[1] # d
        <5>1. untyped_cptrs[p[1]] # u /\ untyped_cptrs[p[1]] \in Slots
          BY <1>1, <1>2, <3>4, <4>3, MatchesDiffer, StaticFacts
        <5>2. free'[untyped_cptrs[p[1]]] = free[untyped_cptrs[p[1]]]
          BY <5>1, ChildMade
        <5>. QED
          BY <4>1, <5>1, <5>2
      <4>. QED
        BY <4>2, <4>3
    <3>. DEFINE k == caps[orig[IdAt(m, p)]]
                b == UntypedOf(p[1]).paddr
    <3>6. k.base + k.size <= b + free'[untyped_cptrs[p[1]]]
      <4>1. k.base + k.size <= b + free[untyped_cptrs[p[1]]]
        BY <3>2 DEF AsComputed
      <4>2. k.base \in Nat /\ k.size \in Nat
        BY <3>4 DEF Cap
      <4>. HIDE DEF k, b
      <4>. QED
        BY <3>4, <3>5, <4>1, <4>2 DEF b
    <3>. QED
      BY <1>1, <2>1, <2>2, <3>2, <3>3, <3>6 DEF AsComputed
  <2>. QED
    BY <2>3, <2>4
<1>. QED
  BY <1>1, <1>3, <1>4, <1>5, <1>6, <1>7 DEF Followed
(* The pool takes over the memory and the entry of the object it is made   *)
(* from.                                                                   *)
LEMMA PoolReplaces ==
    ASSUME TypeAndPhase, Followed, Consistent(m), PoolMade
    PROVE  /\ m' = m /\ Slots' = Slots /\ pc = "asid" /\ pc' = pc
           /\ UNCHANGED <<untyped_cptrs, ut_index, child>> /\ asid_high' = asid_high + 1
           /\ PoolObject \in DOMAIN m.objects /\ orig[PoolObject] # 0
           /\ m.objects[PoolObject].type = "ASIDPool"
           /\ FreeSlot \in Slots /\ FreeSlot \in Nat /\ FreeSlot > Len(m.untypeds)
           /\ orig'[PoolObject] = FreeSlot
           /\ \A i \in DOMAIN m.objects : i # PoolObject => orig'[i] = orig[i]
           /\ caps'[FreeSlot].base = caps[orig[PoolObject]].base
           /\ caps'[FreeSlot].size = caps[orig[PoolObject]].size
           /\ caps'[FreeSlot].type = "ASIDPool" /\ caps'[FreeSlot] # NullCap
           /\ \A s \in Slots : caps[s] # NullCap => caps'[s] = caps[s]
           /\ \A u \in DOMAIN m.untypeds : caps'[u] = caps[u] /\ free'[u] = free[u]
<1>. DEFINE u == orig[PoolObject]
            c == [type |-> "ASIDPool", base |-> caps[u].base, size |-> ASIDPoolSize, ut |-> u]
<1>1. /\ pc = "asid" /\ asid_high <= Len(m.asid) /\ u # 0 /\ caps[u].size = ASIDPoolSize
      /\ FreeSlot \in Slots /\ caps[FreeSlot] = NullCap
      /\ caps' = [caps EXCEPT ![FreeSlot] = c] /\ free' = [free EXCEPT ![u] = ASIDPoolSize]
      /\ orig' = [orig EXCEPT ![PoolObject] = FreeSlot]
      /\ asid_high' = asid_high + 1
      /\ UNCHANGED <<m, pc, untyped_cptrs, ut_index, child, free_slot_start>>
  BY DEF PoolMade, PoolMemory, SlotReady
<1>2. /\ PoolObject \in DOMAIN m.objects /\ u \in Slots
      /\ m.objects[PoolObject].type = "ASIDPool" /\ m \in Models
  BY <1>1, PoolFacts DEF TypeAndPhase
<1>3. FreeSlot \in Nat /\ FreeSlot > Len(m.untypeds) /\ Slots' = Slots
  <2>1. Slots' = Slots
    BY <1>1 DEF Slots, LastSlot
  <2>2. /\ free_slot_start = Len(m.untypeds) + 1 /\ free_slot_index \in Nat
        /\ Len(m.untypeds) \in Nat
    BY <1>1, <1>2, StaticFacts DEF TypeAndPhase, StaticTypeOK, LoopsInPhase
  <2>. QED
    BY <2>1, <2>2 DEF FreeSlot
<1>4. u > Len(m.untypeds)
  <2>1. PICK p \in Places(m) : IdAt(m, p) = PoolObject
    BY <1>1, <1>2 DEF Followed, MadeInOrder
  <2>2. Passed(p)
    BY <1>1, <2>1 DEF Followed, MadeInOrder
  <2>. QED
    BY <2>1, <2>2 DEF Followed, AsComputed
<1>5. c # NullCap
  BY DEF NullCap
<1>6. /\ caps \in [Slots -> Cap] /\ free \in [Slots -> Nat]
      /\ orig \in [DOMAIN m.objects -> Slots \cup {0}]
  BY DEF TypeAndPhase, StaticTypeOK
<1>7. \A v \in DOMAIN m.untypeds : v \in Slots /\ v # FreeSlot /\ v # u
  BY <1>2, <1>3, <1>4, StaticFacts
<1>8. caps'[FreeSlot] = c
  BY <1>1, <1>6
<1>. HIDE DEF c, u
<1>9. /\ \A s \in Slots : s # FreeSlot => caps'[s] = caps[s]
      /\ \A s \in Slots : s # u => free'[s] = free[s]
      /\ orig'[PoolObject] = FreeSlot
      /\ \A i \in DOMAIN m.objects : i # PoolObject => orig'[i] = orig[i]
  BY <1>1, <1>2, <1>6
<1>10. c.base = caps[u].base /\ c.size = ASIDPoolSize /\ c.type = "ASIDPool"
  BY DEF c
<1>. QED
  BY <1>1, <1>2, <1>3, <1>5, <1>7, <1>8, <1>9, <1>10 DEF u

LEMMA PoolMadeFollowed ==
    ASSUME TypeAndPhase, Followed, Consistent(m), PoolMade
    PROVE  Followed'
<1>1. /\ m' = m /\ Slots' = Slots /\ pc = "asid" /\ pc' = pc /\ m \in Models
      /\ UNCHANGED <<untyped_cptrs, ut_index, child>> /\ asid_high' = asid_high + 1
      /\ Len(untyped_cptrs) = Len(m.untyped)
      /\ asid_high \in Nat \ {0}
  BY PoolReplaces, StaticFacts, SMTT(30) DEF TypeAndPhase, LoopsInPhase, StaticTypeOK
<1>2. MatchedUntypeds' /\ BootCapsStay'
  BY <1>1, PoolReplaces DEF Followed, MatchedUntypeds, UntypedOf, BootCapsStay
<1>3. \A i \in DOMAIN m.objects : orig'[i] # 0 <=> orig[i] # 0
  <2>1. FreeSlot # 0
    BY <1>1, PoolReplaces, StaticFacts
  <2>2. /\ orig'[PoolObject] = FreeSlot /\ orig[PoolObject] # 0
        /\ \A i \in DOMAIN m.objects : i # PoolObject => orig'[i] = orig[i]
    BY PoolReplaces
  <2>. QED
    BY <2>1, <2>2
<1>4. \A p \in Places(m) : Passed(p)' <=> Passed(p)
  BY <1>1 DEF Passed
<1>5. MadeInOrder'
  <2>1. \A p \in Places(m) : IdAt(m, p) \in DOMAIN m.objects
    BY <1>1, PlaceFacts
  <2>. QED
    BY <1>1, <1>3, <1>4, <2>1 DEF Followed, MadeInOrder
<1>6. Watermarks'
  BY <1>1 DEF Watermarks
<1>7. ASSUME NEW p \in Places(m), Passed(p)
      PROVE  AsComputed(p)'
  <2>. DEFINE i == IdAt(m, p)
  <2>1. AsComputed(p) /\ i \in DOMAIN m.objects /\ orig[i] # 0 /\ p[1] \in DOMAIN m.untyped
    BY <1>1, <1>7, PlaceFacts DEF Followed, MadeInOrder
  <2>2. UntypedOf(p[1])' = UntypedOf(p[1]) /\ m.addr' = m.addr
    BY <1>1 DEF UntypedOf
  <2>3. orig[i] \in Slots /\ caps[orig[i]] # NullCap
    BY <2>1 DEF AsComputed, TypeAndPhase, StaticTypeOK
  <2>4. caps'[orig[i]] = caps[orig[i]]
    BY <2>3, PoolReplaces
  <2>5. free'[untyped_cptrs[p[1]]] = free[untyped_cptrs[p[1]]]
    <3>1. untyped_cptrs[p[1]] \in DOMAIN m.untypeds
      <4>1. untyped_cptrs \in Seq(DOMAIN m.untypeds) /\ DOMAIN untyped_cptrs = DOMAIN m.untyped
        BY <1>1, StaticFacts DEF TypeAndPhase, StaticTypeOK
      <4>. QED
        BY <2>1, <4>1
    <3>. QED
      BY <3>1, PoolReplaces
  <2>6. PooledBy(i)' <=> PooledBy(i) \/ i = PoolObject
    <3>1. 1 .. asid_high' - 1 = (1 .. asid_high - 1) \cup {asid_high}
      BY <1>1
    <3>. QED
      BY <1>1, <3>1 DEF PooledBy, PoolObject
  <2>. HIDE DEF i
  <2>7. CASE i = PoolObject
    <3>1. /\ caps'[orig'[i]].base = caps[orig[i]].base /\ caps'[orig'[i]].size = caps[orig[i]].size
          /\ caps'[orig'[i]].type = "ASIDPool" /\ caps'[orig'[i]] # NullCap
          /\ orig'[i] > Len(m.untypeds)
      BY <2>7, PoolReplaces
    <3>. QED
      BY <1>1, <2>1, <2>2, <2>5, <2>6, <2>7, <3>1 DEF AsComputed, i
  <2>8. CASE i # PoolObject
    <3>1. orig'[i] = orig[i]
      BY <2>1, <2>8, PoolReplaces
    <3>. QED
      BY <1>1, <2>1, <2>2, <2>4, <2>5, <2>6, <2>8, <3>1 DEF AsComputed, i
  <2>. QED
    BY <2>7, <2>8
<1>. QED
  BY <1>1, <1>2, <1>4, <1>5, <1>6, <1>7 DEF Followed

LEMMA StepFollowed == StaticInv /\ [Next]_vars => CoversFollowed'
<1>. SUFFICES ASSUME StaticInv, [Next]_vars PROVE CoversFollowed'
  OBVIOUS
<1>1. m' = m
  BY DEF Next, Step, CheckSlots, MatchUntyped, EndMatch, NextDerivation, CreateChild, CreateFails,
         EndCreate, MakePool, Finish, Abort, vars
<1>2. SUFFICES ASSUME Consistent(m) PROVE Followed'
  BY <1>1 DEF CoversFollowed, Followed
<1>3. TypeAndPhase /\ Followed
  BY <1>2 DEF StaticInv, TypeAndPhase, CoversFollowed, Followed
<1>4. CASE Abort
  BY <1>3, <1>4, QuietFollowed DEF Abort, kernelVars
<1>5. CASE CheckSlots /\ ~Abort
  BY <1>3, <1>5, QuietFollowed DEF CheckSlots, kernelVars
<1>6. CASE MatchUntyped /\ ~Abort
  BY <1>3, <1>6, MatchFollowed
<1>7. CASE EndMatch
  BY <1>3, <1>7, EndMatchFollowed
<1>8. CASE NextDerivation
  BY <1>3, <1>8, NextDerivationFollowed
<1>9. CASE CreateChild
  BY <1>2, <1>3, <1>9, CreateChildFollowed
<1>10. CASE EndCreate
  BY <1>3, <1>10, QuietFollowed DEF EndCreate, kernelVars
<1>11. CASE PoolMade
  BY <1>2, <1>3, <1>11, PoolMadeFollowed
<1>12. CASE Finish
  BY <1>3, <1>12, QuietFollowed DEF Finish, kernelVars
<1>13. CASE UNCHANGED vars
  BY <1>3, <1>13, QuietFollowed DEF vars, kernelVars
<1>. QED
  BY <1>4, <1>5, <1>6, <1>7, <1>8, <1>9, <1>10, <1>11, <1>12, <1>13, MakePoolCases
     DEF Next, Step, CreateFails

(* The loops, the watermarks and the caps stay in step with the covers. *)
THEOREM StaticCreation == Spec => []StaticInv
<1>1. Init => StaticInv
  BY InitTypes, InitFollowed DEF StaticInv, TypeAndPhase
<1>2. StaticInv /\ [Next]_vars => StaticInv'
  BY StepTypes, StepFollowed DEF StaticInv, TypeAndPhase
<1>. QED
  BY <1>1, <1>2, PTL DEF Spec

(* Every object of a consistent model is made at the address that the tool *)
(* computed, although the loader compares no addresses; when creation is   *)
(* done every object of a cover is made, with its type.                    *)
THEOREM ObjectsAtToolAddress == Spec => []AtToolAddress
<1>1. StaticInv => AtToolAddress
  <2>. SUFFICES ASSUME StaticInv, Consistent(m), NEW p \in Places(m)
                PROVE  LET i == IdAt(m, p)
                       IN  /\ orig[i] # 0 => caps[orig[i]].base = m.addr[p[1]][p[2]]
                           /\ pc = "done" => orig[i] # 0 /\ caps[orig[i]].type = m.objects[i].type
    BY DEF AtToolAddress
  <2>. DEFINE i == IdAt(m, p)
  <2>1. Followed /\ m \in Models
    BY DEF StaticInv, CoversFollowed, Followed
  <2>2. orig[i] # 0 <=> Passed(p)
    BY <2>1 DEF Followed, MadeInOrder
  <2>3. Passed(p) => /\ caps[orig[i]].base = m.addr[p[1]][p[2]]
                     /\ caps[orig[i]].type =
                           IF PooledBy(i) THEN "ASIDPool" ELSE KernelType(m.objects[i])
    BY <2>1 DEF Followed, AsComputed
  <2>4. pc = "done" => Passed(p)
    <3>1. p[1] \in DOMAIN m.untyped
      BY <2>1, PlaceFacts
    <3>. QED
      BY <2>1, <3>1, StaticFacts DEF StaticInv, LoopsInPhase, Passed
  <2>5. pc = "done" => (PooledBy(i) <=> m.objects[i].type = "ASIDPool")
    <3>1. /\ i \in DOMAIN m.objects /\ DOMAIN m.asid = 1 .. Len(m.asid) /\ Len(m.asid) \in Nat
      BY <2>1, PlaceFacts, StaticFacts
    <3>2. /\ \A h \in DOMAIN m.asid : m.objects[m.asid[h]].type = "ASIDPool"
          /\ m.objects[i].type = "ASIDPool" => \E h \in DOMAIN m.asid : m.asid[h] = i
      BY <2>1, <3>1, StaticModelsAssumption, Zenon
    <3>3. pc = "done" => 1 .. asid_high - 1 = DOMAIN m.asid
      BY <3>1 DEF StaticInv, LoopsInPhase
    <3>. QED
      BY <3>2, <3>3 DEF PooledBy
  <2>. QED
    BY <2>2, <2>3, <2>4, <2>5 DEF KernelType
<1>. QED
  BY <1>1, StaticCreation, PTL
-----------------------------------------------------------------------------
(* Placement. *)

(* The new object is apart from the one at a place passed. *)
LEMMA ChildApart ==
    ASSUME TypeAndPhase, Followed, Consistent(m), InLoop, child <= Len(Kids),
           NEW p \in Places(m), Passed(p)
    PROVE  LET k == caps[orig[IdAt(m, p)]]
           IN  Abstract!Apart(m.addr[ut_index][child], Obj.size, k.base, m.objects[IdAt(m, p)].size)
<1>. DEFINE d == ut_index
            e == p[1]
            u == untyped_cptr
            v == untyped_cptrs[e]
            a == m.addr[d][child]
            k == caps[orig[IdAt(m, p)]]
            z == m.objects[IdAt(m, p)].size
<1>1. /\ <<d, child>> \in Places(m) /\ ChildId = IdAt(m, <<d, child>>) /\ d \in DOMAIN m.untyped
      /\ u \in DOMAIN m.untypeds /\ u \in Slots /\ Obj.size \in Nat \ {0} /\ u = untyped_cptrs[d]
      /\ m \in Models /\ Len(untyped_cptrs) = Len(m.untyped) /\ d \in DOMAIN untyped_cptrs
  BY ChildFacts DEF TypeAndPhase, LoopsInPhase, InLoop, untyped_cptr
<1>2. /\ e \in DOMAIN m.untyped /\ p = <<e, p[2]>> /\ z \in Nat
  BY <1>1, PlaceFacts
<1>3. /\ k.base = m.addr[e][p[2]] /\ k.size = z
      /\ UntypedOf(e).paddr <= k.base
      /\ k.base + z <= UntypedOf(e).paddr + free[v]
  BY DEF Followed, AsComputed
<1>4. /\ a \in Nat /\ a + Obj.size <= UntypedOf(d).paddr + UntypedOf(d).size
  BY <1>1, ConsistentChild DEF Obj
<1>5. UntypedOf(d).paddr <= a
  BY ChildPlace
<1>6. k.base \in Nat /\ k.base + z <= UntypedOf(e).paddr + UntypedOf(e).size
  <2>1. <<e, p[2]>> \in Places(m) /\ IdAt(m, <<e, p[2]>>) = IdAt(m, p)
    BY <1>2
  <2>2. m.addr[e][p[2]] \in Nat /\ m.addr[e][p[2]] + z <= UntypedOf(e).paddr + UntypedOf(e).size
    BY <1>1, <1>2, <2>1, ConsistentChild
  <2>. QED
    BY <1>3, <2>2
<1>7. DOMAIN untyped_cptrs = DOMAIN m.untyped /\ untyped_cptrs \in Seq(DOMAIN m.untypeds)
  <2>1. untyped_cptrs \in Seq(DOMAIN m.untypeds)
    BY DEF TypeAndPhase, StaticTypeOK
  <2>. QED
    BY <1>1, <2>1, StaticFacts
<1>8. /\ m.untypeds[u].paddr = UntypedOf(d).paddr /\ m.untypeds[u].size = UntypedOf(d).size
      /\ m.untypeds[v].paddr = UntypedOf(e).paddr /\ m.untypeds[v].size = UntypedOf(e).size
      /\ v \in DOMAIN m.untypeds
  BY <1>1, <1>2, <1>7 DEF Followed, MatchedUntypeds
<1>9. /\ UntypedOf(d).paddr \in Nat /\ UntypedOf(d).size \in Nat
      /\ UntypedOf(e).paddr \in Nat /\ UntypedOf(e).size \in Nat
  BY <1>1, <1>8, StaticFacts
<1>10. CASE e = d
  <2>1. UntypedOf(d).paddr + free[u] <= a
    <3>1. caps \in [Slots -> Cap] /\ free \in [Slots -> Nat] /\ u \in Nat /\ "Obj" \in Types
      BY <1>1, ChildFacts DEF TypeAndPhase, StaticTypeOK, Types, MemoryTypes
    <3>2. NextBase(u, Obj.size) >= caps[u].base + FreeIndex(u)
      BY <1>1, <3>1, RetypeFacts
    <3>3. /\ NextBase(u, Obj.size) = a /\ FreeIndex(u) = free[u]
          /\ caps[u].base = UntypedOf(d).paddr
      BY ChildPlace
    <3>. HIDE DEF u, a
    <3>4. a >= UntypedOf(d).paddr + free[u]
      BY <3>2, <3>3
    <3>5. free[u] \in Nat
      BY <1>1, <3>1
    <3>. QED
      BY <1>4, <1>9, <3>4, <3>5
  <2>2. free[u] \in Nat /\ v = u
    BY <1>1, <1>10 DEF TypeAndPhase, StaticTypeOK
  <2>. HIDE DEF a, k, u, v, d, e, z
  <2>3. k.base + z <= a
    BY <1>2, <1>3, <1>4, <1>6, <1>9, <1>10, <2>1, <2>2
  <2>. QED
    BY <2>3 DEF Abstract!Apart, a, k, z, d
<1>11. CASE e # d
  <2>1. u # v
    BY <1>1, <1>2, <1>11, MatchesDiffer
  <2>2. \/ UntypedOf(d).paddr + UntypedOf(d).size <= UntypedOf(e).paddr
        \/ UntypedOf(e).paddr + UntypedOf(e).size <= UntypedOf(d).paddr
    <3>1. \A x, y \in DOMAIN m.untypeds :
            x # y => \/ m.untypeds[x].paddr + m.untypeds[x].size <= m.untypeds[y].paddr
                     \/ m.untypeds[y].paddr + m.untypeds[y].size <= m.untypeds[x].paddr
      BY <1>1, StaticModelsAssumption, Zenon
    <3>2. \/ m.untypeds[u].paddr + m.untypeds[u].size <= m.untypeds[v].paddr
          \/ m.untypeds[v].paddr + m.untypeds[v].size <= m.untypeds[u].paddr
      BY <1>1, <1>8, <2>1, <3>1, Zenon
    <3>. QED
      BY <1>8, <3>2
  <2>. HIDE DEF a, k, u, v, d, e, z
  <2>3. a + Obj.size <= k.base \/ k.base + z <= a
    <3>1. UntypedOf(e).paddr <= k.base /\ Obj.size \in Nat /\ z \in Nat
      BY <1>1, <1>2, <1>3
    <3>2. CASE UntypedOf(d).paddr + UntypedOf(d).size <= UntypedOf(e).paddr
      BY <1>4, <1>6, <1>9, <3>1, <3>2, SMTT(30)
    <3>3. CASE UntypedOf(e).paddr + UntypedOf(e).size <= UntypedOf(d).paddr
      BY <1>4, <1>5, <1>6, <1>9, <3>1, <3>3
    <3>. QED
      BY <2>2, <3>2, <3>3
  <2>. QED
    BY <2>3 DEF Abstract!Apart, a, k, z, d
<1>. QED
  BY <1>10, <1>11

LEMMA CreateChildPlaces ==
    ASSUME TypeAndPhase, Followed, Consistent(m), CreateChild
    PROVE  Abstract!Place(ChildId)
<1>. DEFINE x == ChildId
            a == m.addr[ut_index][child]
<1>1. /\ m' = m /\ InLoop /\ child <= Len(Kids) /\ m \in Models /\ FreeSlot # 0
  BY ChildMade, StaticFacts DEF TypeAndPhase
<1>2. /\ <<ut_index, child>> \in Places(m) /\ x = IdAt(m, <<ut_index, child>>)
      /\ x \in DOMAIN m.objects /\ ut_index \in DOMAIN m.untyped
      /\ ut_index \in DOMAIN untyped_cptrs /\ untyped_cptr \in DOMAIN m.untypeds
      /\ Obj = m.objects[x] /\ Obj.size \in Nat
  BY <1>1, ChildFacts DEF Obj
<1>3. \A j \in Made : \E p \in Places(m) : IdAt(m, p) = j /\ Passed(p)
  BY DEF Made, Followed, MadeInOrder
<1>4. x \notin Made
  BY <1>2, ChildMade DEF Made, Followed, MadeInOrder
<1>5. /\ \A j \in Made : j \in DOMAIN m.objects /\ orig'[j] = orig[j]
                         /\ caps'[orig[j]] = caps[orig[j]]
      /\ orig'[x] = FreeSlot /\ caps'[orig'[x]].base = a
  BY <1>3, ChildMade DEF Made
<1>6. Made' = Made \cup {x}
  <2>1. \A j \in DOMAIN m.objects : j # x => orig'[j] = orig[j]
    BY ChildMade
  <2>. QED
    BY <1>1, <1>2, <1>5, <2>1 DEF Made
<1>7. /\ DOMAIN placed = Made /\ DOMAIN placed' = Made \cup {x} /\ placed'[x] = a
      /\ \A j \in Made : placed[j] = caps[orig[j]].base /\ placed'[j] = placed[j]
  BY <1>1, <1>5, <1>6 DEF placed
<1>8. /\ a \in Nat /\ (m.objects[x].paddr # 0 => a = m.objects[x].paddr)
      /\ a + Obj.size <= UntypedOf(ut_index).paddr + UntypedOf(ut_index).size
  BY <1>1, <1>2, ConsistentChild
<1>9. \E u \in DOMAIN m.untypeds : Abstract!Within(a, m.objects[x].size, m.untypeds[u])
  <2>1. /\ m.untypeds[untyped_cptr].paddr = UntypedOf(ut_index).paddr
        /\ m.untypeds[untyped_cptr].size = UntypedOf(ut_index).size
    BY <1>2 DEF Followed, MatchedUntypeds, untyped_cptr
  <2>2. UntypedOf(ut_index).paddr <= a
    BY <1>1, ChildPlace
  <2>3. Abstract!Within(a, m.objects[x].size, m.untypeds[untyped_cptr])
    BY <1>2, <1>8, <2>1, <2>2 DEF Abstract!Within
  <2>. QED
    BY <1>2, <2>3
<1>10. \A j \in Made : Abstract!Apart(a, m.objects[x].size, caps[orig[j]].base, m.objects[j].size)
  BY <1>1, <1>2, <1>3, ChildApart
<1>. HIDE DEF x, a
<1>11. Abstract!Place(x)
  BY <1>1, <1>4, <1>7, <1>8, <1>9, <1>10 DEF Abstract!Place
<1>. QED
  BY <1>11 DEF x

LEMMA PlacedKept ==
    ASSUME m' = m, Consistent(m) => /\ Made' = Made
                                    /\ \A i \in Made : caps'[orig'[i]].base = caps[orig[i]].base
    PROVE  UNCHANGED <<m, placed>>
BY DEF placed

LEMMA StepPlaces ==
    ASSUME StaticInv, [Next]_vars
    PROVE  [Abstract!Next]_<<m, placed>>
<1>1. TypeAndPhase /\ (Consistent(m) => Followed)
  BY DEF StaticInv, TypeAndPhase, CoversFollowed, Followed
<1>2. CASE CreateChild /\ Consistent(m)
  <2>1. Abstract!Place(ChildId) /\ ChildId \in DOMAIN m.objects
    BY <1>1, <1>2, CreateChildPlaces, ChildMade, ChildFacts
  <2>. QED
    BY <2>1 DEF Abstract!Next
<1>3. CASE PoolMade /\ Consistent(m)
  <2>1. /\ m' = m /\ FreeSlot # 0
        /\ PoolObject \in DOMAIN m.objects /\ orig[PoolObject] # 0
        /\ orig'[PoolObject] = FreeSlot
        /\ \A i \in DOMAIN m.objects : i # PoolObject => orig'[i] = orig[i]
        /\ caps'[FreeSlot].base = caps[orig[PoolObject]].base
    BY <1>1, <1>3, PoolReplaces, StaticFacts DEF TypeAndPhase
  <2>2. Made' = Made
    BY <2>1 DEF Made
  <2>3. ASSUME NEW i \in Made PROVE caps'[orig'[i]].base = caps[orig[i]].base
    <3>1. CASE i = PoolObject
      BY <2>1, <3>1
    <3>2. CASE i # PoolObject
      <4>1. orig'[i] = orig[i] /\ orig[i] \in Slots /\ orig[i] # 0
        BY <1>1, <2>1, <3>2 DEF Made, TypeAndPhase, StaticTypeOK
      <4>2. caps[orig[i]] # NullCap
        BY <1>1, <1>3, <4>1 DEF Made, Followed, MadeInOrder, AsComputed
      <4>. QED
        BY <1>1, <1>3, <4>1, <4>2, PoolReplaces
    <3>. QED
      BY <3>1, <3>2
  <2>. QED
    BY <2>1, <2>2, <2>3, PlacedKept
<1>4. CASE ~Consistent(m) /\ m' = m
  BY <1>4, PlacedKept
<1>5. CASE UNCHANGED <<m, orig, caps>>
  BY <1>5, PlacedKept DEF Made
<1>6. m' = m
  BY DEF Next, Step, CheckSlots, MatchUntyped, EndMatch, NextDerivation, CreateChild, CreateFails,
         EndCreate, MakePool, Finish, Abort, vars
<1>7. CreateChild \/ PoolMade \/ UNCHANGED <<m, orig, caps>>
  BY MakePoolCases DEF Next, Step, CheckSlots, MatchUntyped, EndMatch, NextDerivation, CreateFails,
         EndCreate, Finish, Abort, vars, kernelVars
<1>. QED
  BY <1>2, <1>3, <1>4, <1>5, <1>6, <1>7

(* Static allocation gives memory as Placement says, like the dynamic one: *)
(* one object at a time, at its address, inside a boot untyped, apart from *)
(* all other objects, and never to be moved.                               *)
THEOREM StaticImplementsPlacement == Spec => ImplementsPlacement
<1>1. Init => Abstract!Init
  BY DEF Init, Start, Abstract!Init, placed, Made
<1>2. StaticInv /\ [Next]_vars => [Abstract!Next]_<<m, placed>>
  BY StepPlaces
<1>. QED
  BY <1>1, <1>2, StaticCreation, PTL DEF Spec, ImplementsPlacement, Abstract!Spec
-----------------------------------------------------------------------------
(* A model that fits the boot information is never refused. *)

Loading == TypeAndPhase /\ Followed /\ EntriesUsed /\ SlotsCounted /\ EntriesApart /\ Loadable(m)

(* Two entries of the boot information do not begin at the same address. *)
LEMMA EntriesDiffer ==
    ASSUME m \in Models, NEW i \in DOMAIN m.untypeds, NEW j \in DOMAIN m.untypeds,
           m.untypeds[i].paddr = m.untypeds[j].paddr
    PROVE  i = j
<1>1. i # j => \/ m.untypeds[i].paddr + m.untypeds[i].size <= m.untypeds[j].paddr
               \/ m.untypeds[j].paddr + m.untypeds[j].size <= m.untypeds[i].paddr
  BY StaticModelsAssumption, Zenon
<1>2. /\ m.untypeds[i].paddr \in Nat /\ m.untypeds[i].size \in Nat \ {0}
      /\ m.untypeds[j].paddr \in Nat /\ m.untypeds[j].size \in Nat \ {0}
  BY StaticFacts
<1>. QED
  BY <1>1, <1>2

LEMMA PlacesFinite ==
    ASSUME m \in Models, Consistent(m)
    PROVE  /\ IsFiniteSet(Places(m)) /\ Cardinality(Places(m)) \in Nat
           /\ IsFiniteSet(PassedPlaces) /\ Cardinality(PassedPlaces) \in Nat
           /\ Cardinality(PassedPlaces) <= Cardinality(Places(m))
           /\ \A p \in Places(m) : ~Passed(p) => Cardinality(PassedPlaces) < Cardinality(Places(m))
<1>. DEFINE f == [p \in Places(m) |-> IdAt(m, p)]
<1>1. f \in Injection(Places(m), DOMAIN m.objects)
  <2>1. \A p \in Places(m) : IdAt(m, p) \in DOMAIN m.objects
    BY PlaceFacts
  <2>2. \A p, q \in Places(m) : IdAt(m, p) = IdAt(m, q) => p = q
    BY DEF Consistent
  <2>. QED
    BY <2>1, <2>2 DEF Injection, IsInjective
<1>2. IsFiniteSet(DOMAIN m.objects)
  <2>1. \A n \in Nat : IsFiniteSet(1 .. n)
    BY FS_Interval
  <2>. QED
    BY <2>1, StaticFacts
<1>3. IsFiniteSet(Places(m)) /\ Cardinality(Places(m)) \in Nat
  BY <1>1, <1>2, FS_Injection, FS_CardinalityType
<1>4. PassedPlaces \in SUBSET Places(m)
  BY DEF PassedPlaces
<1>5. /\ IsFiniteSet(PassedPlaces) /\ Cardinality(PassedPlaces) \in Nat
      /\ Cardinality(PassedPlaces) <= Cardinality(Places(m))
      /\ Cardinality(PassedPlaces) = Cardinality(Places(m)) => PassedPlaces = Places(m)
  BY <1>3, <1>4, FS_Subset, FS_CardinalityType
<1>6. \A p \in Places(m) : ~Passed(p) => PassedPlaces # Places(m)
  BY DEF PassedPlaces
<1>. QED
  BY <1>3, <1>5, <1>6

LEMMA InitLoading ==
    ASSUME Init
    PROVE  LoadingInv
<1>. SUFFICES ASSUME Loadable(m) PROVE EntriesUsed /\ SlotsCounted /\ EntriesApart /\ NeverRefused
  BY DEF LoadingInv
<1>1. /\ m \in Models /\ pc = "slots" /\ bi_start = 1 /\ ut_index = 1 /\ child = 1
      /\ free_slot_index = 0 /\ free_slot_start = Len(m.untypeds) + 1 /\ asid_high = 1
      /\ orig = [i \in DOMAIN m.objects |-> 0] /\ caps = BootCaps
  BY DEF Init, Start
<1>2. EntriesUsed
  BY <1>1, StaticFacts DEF EntriesUsed
<1>3. SlotsCounted
  <2>1. PassedPlaces = {}
    BY <1>1, NothingPassed DEF PassedPlaces
  <2>2. \A s \in Slots : s >= FreeSlot => caps[s] = NullCap
    BY <1>1, StaticFacts DEF FreeSlot, BootCaps
  <2>. QED
    BY <1>1, <2>1, <2>2, FS_EmptySet DEF SlotsCounted
<1>4. EntriesApart
  <2>1. Made = {}
    BY <1>1 DEF Made
  <2>2. \A s \in Slots : caps[s].ut = 0
    BY <1>1 DEF BootCaps, NullCap
  <2>3. 0 < FreeSlot
    BY <1>1, StaticFacts DEF FreeSlot
  <2>. QED
    BY <2>1, <2>2, <2>3 DEF EntriesApart
<1>. QED
  BY <1>1, <1>2, <1>3, <1>4 DEF NeverRefused

(* The entry of the derivation at hand is found. *)
LEMMA WantedFound ==
    ASSUME Loading, pc = "match", Len(untyped_cptrs) < Len(m.untyped)
    PROVE  \E i \in Matches : Matches = {i} /\ m.untypeds[i].size = Wanted.size
<1>. DEFINE e == Len(untyped_cptrs) + 1
<1>1. /\ m \in Models /\ untyped_cptrs \in Seq(DOMAIN m.untypeds) /\ bi_start \in Nat \ {0}
      /\ DOMAIN untyped_cptrs = 1 .. Len(untyped_cptrs) /\ Len(untyped_cptrs) \in Nat
  BY DEF Loading, TypeAndPhase, StaticTypeOK
<1>2. e \in DOMAIN m.untyped /\ e \notin DOMAIN untyped_cptrs /\ Wanted = UntypedOf(e)
      /\ DOMAIN untyped_cptrs \subseteq DOMAIN m.untyped
  BY <1>1, StaticFacts DEF Wanted, derivation, UntypedOf
<1>3. PICK i \in DOMAIN m.untypeds :
        m.untypeds[i].paddr = Wanted.paddr /\ m.untypeds[i].size = Wanted.size
  BY <1>2 DEF Loading, Loadable, Booted, UntypedOf
<1>4. i >= bi_start
  <2>1. SUFFICES ASSUME i < bi_start PROVE FALSE
    BY <1>1, StaticFacts
  <2>2. PICK d \in DOMAIN untyped_cptrs : untyped_cptrs[d] = i
    BY <2>1 DEF Loading, EntriesUsed
  <2>3. UntypedOf(d).paddr = UntypedOf(e).paddr
    BY <1>2, <1>3, <2>2 DEF Loading, Followed, MatchedUntypeds
  <2>4. d = e
    BY <1>2, <2>3 DEF Loading, Loadable, Consistent, UntypedOf
  <2>. QED
    BY <1>2, <2>4
<1>5. i \in Matches
  BY <1>1, <1>3, <1>4, StaticFacts DEF Matches
<1>6. \A k \in Matches : k = i
  <2>1. \A k \in Matches : k \in DOMAIN m.untypeds /\ m.untypeds[k].paddr = m.untypeds[i].paddr
    BY <1>1, <1>3, StaticFacts DEF Matches
  <2>. QED
    BY <1>1, <2>1, EntriesDiffer
<1>. QED
  BY <1>3, <1>5, <1>6

(* There is a slot for every child and every pool. *)
LEMMA SlotLeft ==
    ASSUME Loading, pc \in {"create", "asid"},
           (InLoop /\ child <= Len(Kids)) \/ (pc = "asid" /\ asid_high <= Len(m.asid))
    PROVE  SlotReady(FreeSlot) /\ FreeSlot \in Nat
<1>1. /\ m \in Models /\ Consistent(m) /\ TypeAndPhase /\ free_slot_index \in Nat
      /\ asid_high \in Nat \ {0} /\ free_slot_start = Len(m.untypeds) + 1
      /\ free_slot_index = Cardinality(PassedPlaces) + (asid_high - 1)
      /\ m.slots >= Cardinality(Places(m)) + Len(m.asid)
  <2>1. m \in Models /\ Consistent(m) /\ TypeAndPhase
    BY DEF Loading, Loadable, TypeAndPhase
  <2>2. /\ free_slot_index \in Nat /\ asid_high \in 1 .. Len(m.asid) + 1
        /\ free_slot_start = Len(m.untypeds) + 1
    BY <2>1 DEF TypeAndPhase, StaticTypeOK, LoopsInPhase
  <2>3. /\ free_slot_index = Cardinality(PassedPlaces) + (asid_high - 1)
        /\ m.slots >= Cardinality(Places(m)) + Len(m.asid)
    BY DEF Loading, Loadable, SlotsCounted, Creatable
  <2>4. asid_high \in Nat \ {0}
    BY <2>1, <2>2, StaticFacts
  <2>. QED
    BY <2>1, <2>2, <2>3, <2>4
<1>2. free_slot_index < m.slots
  <2>1. CASE InLoop /\ child <= Len(Kids)
    <3>1. <<ut_index, child>> \in Places(m) /\ ut_index \in Nat /\ child \in Nat
      <4>1. <<ut_index, child>> \in Places(m)
        BY <1>1, <2>1, ChildFacts
      <4>2. ut_index \in 1 .. Len(m.untyped) + 1 /\ child \in Nat /\ Len(m.untyped) \in Nat
        BY <1>1, StaticFacts DEF TypeAndPhase, StaticTypeOK
      <4>. QED
        BY <4>1, <4>2
    <3>2. ~Passed(<<ut_index, child>>)
      BY <3>1 DEF Passed
    <3>3. asid_high = 1
      BY <2>1 DEF InLoop, Loading, TypeAndPhase, LoopsInPhase
    <3>4. Cardinality(PassedPlaces) < Cardinality(Places(m))
      BY <1>1, <3>1, <3>2, PlacesFinite
    <3>. QED
      BY <1>1, <3>3, <3>4, PlacesFinite, StaticFacts
  <2>2. CASE pc = "asid" /\ asid_high <= Len(m.asid)
    BY <1>1, <2>2, PlacesFinite, StaticFacts
  <2>. QED
    BY <2>1, <2>2
<1>3. FreeSlot \in Slots /\ FreeSlot \in Nat
  <2>1. LastSlot = Len(m.untypeds) + m.slots /\ Slots = 1 .. LastSlot
        /\ Len(m.untypeds) \in Nat /\ m.slots \in Nat
    BY <1>1, StaticFacts DEF LastSlot
  <2>. QED
    BY <1>1, <1>2, <2>1, SMTT(30) DEF FreeSlot
<1>. QED
  BY <1>3 DEF SlotReady, Loading, SlotsCounted

(* No retype fails. *)
LEMMA ChildRetypable ==
    ASSUME Loading, InLoop, child <= Len(Kids)
    PROVE  Retypable
<1>. DEFINE q == <<ut_index, child>>
            u == untyped_cptr
<1>1. /\ m \in Models /\ Consistent(m) /\ TypeAndPhase /\ Followed /\ pc = "create"
  BY DEF Loading, Loadable, TypeAndPhase, InLoop
<1>2. /\ q \in Places(m) /\ ChildId = IdAt(m, q) /\ ut_index \in DOMAIN m.untyped
      /\ ut_index \in DOMAIN untyped_cptrs /\ u \in DOMAIN m.untypeds
      /\ KernelSize(Obj) = Obj.size /\ Obj.size \in Nat
  BY <1>1, ChildFacts
<1>3. Obj.type \in MemoryTypes /\ ~InvalidType(Obj)
  BY <1>2 DEF Loading, Loadable, Creatable, Obj
<1>4. SlotReady(FreeSlot)
  BY <1>1, SlotLeft
<1>5. m.untypeds[u].paddr = UntypedOf(ut_index).paddr /\ m.untypeds[u].size = UntypedOf(ut_index).size
  BY <1>1, <1>2 DEF Followed, MatchedUntypeds, untyped_cptr
<1>6. ~DeviceRefused(u, Obj.type)
  <2>1. PICK i \in DOMAIN m.untypeds :
          /\ m.untypeds[i].paddr = UntypedOf(ut_index).paddr
          /\ \A c \in DOMAIN m.untyped[ut_index].children :
                ~DeviceRefused(i, m.objects[m.untyped[ut_index].children[c]].type)
    BY <1>2 DEF Loading, Loadable, Booted, UntypedOf
  <2>2. i = u
    BY <1>1, <1>2, <1>5, <2>1, EntriesDiffer
  <2>3. child \in DOMAIN m.untyped[ut_index].children
    BY <1>1, <1>2, PlaceFacts
  <2>. QED
    BY <2>1, <2>2, <2>3 DEF Obj, ChildId, Kids
<1>7. Fits(u, Obj.size)
  <2>1. /\ NextBase(u, Obj.size) = m.addr[ut_index][child]
    BY <1>1, ChildPlace
  <2>2. caps[u].base = m.untypeds[u].paddr /\ caps[u].size = m.untypeds[u].size
    BY <1>1, <1>2 DEF Followed, BootCapsStay
  <2>3. m.addr[ut_index][child] + Obj.size <= UntypedOf(ut_index).paddr + UntypedOf(ut_index).size
    BY <1>1, <1>2, ConsistentChild DEF Obj
  <2>. QED
    BY <1>5, <2>1, <2>2, <2>3 DEF Fits
<1>. QED
  BY <1>2, <1>3, <1>4, <1>6, <1>7 DEF Retypable, RequiresCreation, MemoryTypes

(* No pool fails. *)
LEMMA PoolPossible ==
    ASSUME Loading, pc = "asid", asid_high <= Len(m.asid)
    PROVE  PoolMemory(orig[PoolObject]) /\ SlotReady(FreeSlot)
<1>1. m \in Models /\ TypeAndPhase /\ Followed
  BY DEF Loading, TypeAndPhase
<1>2. /\ asid_high \in DOMAIN m.asid /\ PoolObject \in DOMAIN m.objects
      /\ m.objects[PoolObject].type = "ASIDPool" /\ m.objects[PoolObject].size = ASIDPoolSize
  BY <1>1, PoolFacts
<1>3. PICK p \in Places(m) : IdAt(m, p) = PoolObject
  BY <1>2 DEF Loading, Loadable, Creatable, PoolObject
<1>4. Passed(p)
  <2>1. p[1] \in DOMAIN m.untyped
    BY <1>1, PlaceFacts
  <2>. QED
    BY <1>1, <2>1, StaticFacts DEF TypeAndPhase, LoopsInPhase, Passed
<1>5. orig[PoolObject] # 0 /\ AsComputed(p)
  BY <1>1, <1>3, <1>4 DEF Followed, MadeInOrder
<1>6. ~PooledBy(PoolObject)
  <2>1. \A h, k \in DOMAIN m.asid : m.asid[h] = m.asid[k] => h = k
    BY <1>1, StaticModelsAssumption, Zenon
  <2>2. \A h \in 1 .. asid_high - 1 : h \in DOMAIN m.asid /\ h # asid_high
    BY <1>1, <1>2, StaticFacts
  <2>. QED
    BY <1>2, <2>1, <2>2 DEF PooledBy, PoolObject
<1>7. caps[orig[PoolObject]].type = "Untyped" /\ caps[orig[PoolObject]].size = ASIDPoolSize
  BY <1>2, <1>3, <1>5, <1>6 DEF AsComputed, KernelType
<1>8. Children(orig[PoolObject]) = {}
  <2>1. PoolObject \in Made
    BY <1>2, <1>5 DEF Made
  <2>. QED
    BY <2>1 DEF Children, Loading, EntriesApart
<1>. QED
  BY <1>5, <1>7, <1>8, SlotLeft DEF PoolMemory

(* Steps that make nothing. *)
LEMMA NothingMadeLoading ==
    ASSUME Loading, pc' # "fatal", pc' # "done" => pc # "done",
           UNCHANGED <<m, free_slot_index, asid_high, orig, caps>>,
           pc' # "done" => free_slot_start' = free_slot_start,
           \A p \in Places(m) : Passed(p)' <=> Passed(p),
           EntriesUsed'
    PROVE  LoadingInv'
<1>1. Slots' = Slots /\ Made' = Made /\ PassedPlaces' = PassedPlaces
      /\ (pc' # "done" => FreeSlot' = FreeSlot)
  BY DEF Slots, LastSlot, Made, PassedPlaces, FreeSlot
<1>2. SlotsCounted' /\ EntriesApart'
  BY <1>1 DEF Loading, SlotsCounted, EntriesApart
<1>. QED
  BY <1>2 DEF LoadingInv, NeverRefused

LEMMA MatchLoading ==
    ASSUME Loading, MatchUntyped
    PROVE  LoadingInv'
<1>1. pc = "match" /\ Len(untyped_cptrs) < Len(m.untyped)
  BY DEF MatchUntyped
<1>2. PICK i \in Matches : Matches = {i} /\ m.untypeds[i].size = Wanted.size
  BY <1>1, WantedFound
<1>3. /\ untyped_cptrs' = Append(untyped_cptrs, i)
      /\ bi_start' = IF bi_start \in Matches THEN bi_start + 1 ELSE bi_start
      /\ UNCHANGED <<m, pc, ut_index, child, free_slot_index, free_slot_start,
                     asid_high, orig, kernelVars>>
  BY <1>2 DEF MatchUntyped
<1>4. EntriesUsed'
  <2>1. /\ untyped_cptrs \in Seq(DOMAIN m.untypeds) /\ bi_start \in Nat \ {0}
        /\ \A k \in DOMAIN m.untypeds : k \in Nat
    BY StaticFacts DEF Loading, TypeAndPhase, StaticTypeOK
  <2>2. i \in DOMAIN m.untypeds
    BY <2>1, StaticFacts DEF Matches, Loading, TypeAndPhase
  <2>3. /\ DOMAIN untyped_cptrs' = DOMAIN untyped_cptrs \cup {Len(untyped_cptrs) + 1}
        /\ untyped_cptrs'[Len(untyped_cptrs) + 1] = i
        /\ \A d \in DOMAIN untyped_cptrs : untyped_cptrs'[d] = untyped_cptrs[d]
    BY <1>3, <2>1, <2>2
  <2>4. SUFFICES ASSUME NEW k \in DOMAIN m.untypeds, k < bi_start'
                 PROVE  \E d \in DOMAIN untyped_cptrs' : untyped_cptrs'[d] = k
    BY <1>3 DEF EntriesUsed
  <2>5. k < bi_start \/ k = i
    BY <1>2, <1>3, <2>1, <2>4
  <2>. QED
    BY <2>3, <2>5 DEF Loading, EntriesUsed
<1>5. \A p \in Places(m) : Passed(p)' <=> Passed(p)
  BY <1>3 DEF Passed
<1>. QED
  BY <1>1, <1>3, <1>4, <1>5, NothingMadeLoading DEF kernelVars

(* A new cap in the free slot, made from a slot that is no object's own    *)
(* afterwards, for an object.                                              *)
LEMMA ObjectMadeLoading ==
    ASSUME Loading, pc # "done", pc # "fatal", UNCHANGED <<m, pc, untyped_cptrs, bi_start, free_slot_start>>,
           FreeSlot \in Slots, FreeSlot \in Nat,
           free_slot_index' = free_slot_index + 1,
           Cardinality(PassedPlaces') + (asid_high' - 1) = Cardinality(PassedPlaces) + (asid_high - 1) + 1,
           NEW x \in DOMAIN m.objects, orig'[x] = FreeSlot,
           \A i \in DOMAIN m.objects : i # x => orig'[i] = orig[i],
           \A s \in Slots : s # FreeSlot => caps'[s] = caps[s],
           caps'[FreeSlot].ut \in Nat, caps'[FreeSlot].ut < FreeSlot,
           \A i \in Made : i # x => caps'[FreeSlot].ut # orig[i]
    PROVE  LoadingInv'
<1>1. Slots' = Slots /\ FreeSlot' = FreeSlot + 1
  <2>1. free_slot_start \in Nat /\ free_slot_index \in Nat
    BY DEF Loading, TypeAndPhase, StaticTypeOK
  <2>. QED
    BY <2>1 DEF Slots, LastSlot, FreeSlot
<1>2. FreeSlot # 0 /\ \A s \in Slots : s \in Nat
  BY StaticFacts DEF Loading, TypeAndPhase
<1>3. Made' = Made \cup {x}
  BY <1>2 DEF Made
<1>4. SlotsCounted'
  <2>1. free_slot_index' = Cardinality(PassedPlaces') + (asid_high' - 1)
    BY DEF Loading, SlotsCounted
  <2>2. \A s \in Slots : s >= FreeSlot + 1 => caps'[s] = NullCap
    BY <1>2 DEF Loading, SlotsCounted
  <2>. QED
    BY <1>1, <2>1, <2>2 DEF SlotsCounted
<1>5. EntriesApart'
  <2>1. /\ \A i, j \in Made : orig[i] = orig[j] => i = j
        /\ \A i \in Made : orig[i] < FreeSlot
        /\ \A s \in Slots : caps[s].ut < FreeSlot /\ \A i \in Made : caps[s].ut # orig[i]
    BY DEF Loading, EntriesApart
  <2>2. \A i \in Made : orig[i] \in Nat
    BY <1>2 DEF Loading, TypeAndPhase, StaticTypeOK, Made
  <2>3. \A s \in Slots : caps[s].ut \in Nat
    BY DEF Loading, TypeAndPhase, StaticTypeOK, Cap
  <2>4. /\ \A i \in Made' : orig'[i] = IF i = x THEN FreeSlot ELSE orig[i]
        /\ \A i \in Made' : i # x => i \in Made
    BY <1>3 DEF Made
  <2>5. \A i, j \in Made' : orig'[i] = orig'[j] => i = j
    BY <2>1, <2>2, <2>4
  <2>6. \A i \in Made' : orig'[i] < FreeSlot + 1
    BY <2>1, <2>2, <2>4
  <2>7. ASSUME NEW s \in Slots
        PROVE  caps'[s].ut < FreeSlot + 1 /\ \A i \in Made' : caps'[s].ut # orig'[i]
    <3>1. CASE s = FreeSlot
      BY <2>2, <2>4, <3>1
    <3>2. CASE s # FreeSlot
      <4>1. caps'[s].ut = caps[s].ut
        BY <3>2
      <4>. QED
        BY <2>1, <2>2, <2>3, <2>4, <4>1
    <3>. QED
      BY <3>1, <3>2
  <2>. QED
    BY <1>1, <2>5, <2>6, <2>7 DEF EntriesApart
<1>6. EntriesUsed'
  BY DEF Loading, EntriesUsed
<1>. QED
  BY <1>4, <1>5, <1>6 DEF LoadingInv, NeverRefused

LEMMA CreateChildLoading ==
    ASSUME Loading, CreateChild
    PROVE  LoadingInv'
<1>. DEFINE q == <<ut_index, child>>
<1>1. TypeAndPhase /\ Followed /\ Consistent(m) /\ m \in Models
  BY DEF Loading, Loadable, TypeAndPhase
<1>2. /\ pc = "create" /\ InLoop /\ child <= Len(Kids)
      /\ UNCHANGED <<m, pc, untyped_cptrs, bi_start, free_slot_start, asid_high>>
      /\ free_slot_index' = free_slot_index + 1
  BY <1>1, ChildMade DEF CreateChild
<1>3. /\ q \in Places(m) /\ ChildId \in DOMAIN m.objects /\ untyped_cptr \in DOMAIN m.untypeds
  BY <1>1, <1>2, ChildFacts
<1>4. Cardinality(PassedPlaces') = Cardinality(PassedPlaces) + 1
  <2>1. PassedPlaces' = PassedPlaces \cup {q} /\ q \notin PassedPlaces
    BY <1>1, <1>2, <1>3, ChildMade DEF PassedPlaces
  <2>. QED
    BY <1>1, <2>1, PlacesFinite, FS_AddElement
<1>5. Cardinality(PassedPlaces) \in Nat /\ asid_high = 1
  BY <1>1, <1>2, PlacesFinite DEF TypeAndPhase, LoopsInPhase
<1>6. /\ caps'[FreeSlot].ut = untyped_cptr /\ untyped_cptr \in Nat /\ untyped_cptr < FreeSlot
      /\ untyped_cptr <= Len(m.untypeds)
  BY <1>1, <1>3, ChildMade, StaticFacts
<1>7. \A i \in Made : orig[i] > Len(m.untypeds)
  BY <1>1 DEF Made, Followed, MadeInOrder, AsComputed
<1>8. \A i \in Made : orig[i] # untyped_cptr
  <2>1. \A i \in Made : orig[i] \in Nat
    BY <1>1, StaticFacts DEF Made, TypeAndPhase, StaticTypeOK
  <2>. QED
    BY <1>1, <1>6, <1>7, <2>1, StaticFacts
<1>. QED
  BY <1>1, <1>2, <1>3, <1>4, <1>5, <1>6, <1>8, ChildMade, ObjectMadeLoading

LEMMA PoolMadeLoading ==
    ASSUME Loading, PoolMade
    PROVE  LoadingInv'
<1>. DEFINE u == orig[PoolObject]
<1>1. TypeAndPhase /\ Followed /\ Consistent(m) /\ m \in Models
  BY DEF Loading, Loadable, TypeAndPhase
<1>2. /\ pc = "asid" /\ asid_high' = asid_high + 1 /\ free_slot_index' = free_slot_index + 1
      /\ UNCHANGED <<m, pc, untyped_cptrs, bi_start, free_slot_start, ut_index, child>>
      /\ caps[FreeSlot] = NullCap /\ FreeSlot \in Slots /\ FreeSlot \in Nat
      /\ caps' = [caps EXCEPT ![FreeSlot] =
                     [type |-> "ASIDPool", base |-> caps[u].base, size |-> ASIDPoolSize, ut |-> u]]
      /\ PoolObject \in DOMAIN m.objects /\ u # 0 /\ orig'[PoolObject] = FreeSlot
      /\ \A i \in DOMAIN m.objects : i # PoolObject => orig'[i] = orig[i]
  BY <1>1, PoolReplaces DEF PoolMade, SlotReady
<1>3. PassedPlaces' = PassedPlaces
  BY <1>2 DEF PassedPlaces, Passed
<1>4. Cardinality(PassedPlaces) \in Nat /\ asid_high \in Nat
  BY <1>1, PlacesFinite, StaticFacts DEF TypeAndPhase, StaticTypeOK
<1>5. caps'[FreeSlot].ut = u /\ \A s \in Slots : s # FreeSlot => caps'[s] = caps[s]
  BY <1>1, <1>2 DEF TypeAndPhase, StaticTypeOK
<1>6. PoolObject \in Made /\ u \in Nat
  <2>1. u \in Slots
    BY <1>1, <1>2 DEF TypeAndPhase, StaticTypeOK
  <2>. QED
    BY <1>1, <1>2, <2>1, StaticFacts DEF Made
<1>7. u < FreeSlot /\ \A i \in Made : i # PoolObject => u # orig[i]
  BY <1>2, <1>6 DEF Loading, EntriesApart
<1>. HIDE DEF u
<1>. QED
  BY <1>2, <1>3, <1>4, <1>5, <1>6, <1>7, ObjectMadeLoading

LEMMA StepLoading == StaticInv /\ LoadingInv /\ [Next]_vars => LoadingInv'
<1>. SUFFICES ASSUME StaticInv, LoadingInv, [Next]_vars PROVE LoadingInv'
  OBVIOUS
<1>1. m' = m
  BY DEF Next, Step, CheckSlots, MatchUntyped, EndMatch, NextDerivation, CreateChild, CreateFails,
         EndCreate, MakePool, Finish, Abort, vars
<1>2. CASE ~Loadable(m)
  <2>1. Booted(m)' <=> Booted(m)
    BY <1>1 DEF Booted, DeviceRefused
  <2>. QED
    BY <1>1, <1>2, <2>1 DEF LoadingInv, Loadable
<1>3. CASE Loadable(m)
  <2>1. Loading /\ pc # "fatal"
    BY <1>3 DEF Loading, LoadingInv, NeverRefused, StaticInv, TypeAndPhase, CoversFollowed, Followed,
                Loadable
  <2>2. m.slots >= m.max_objects /\ m.slots \in Nat /\ m.max_objects \in Nat
    BY <1>3, StaticFacts DEF Loadable, Creatable, StaticInv
  <2>3. CASE CheckSlots
    BY <2>1, <2>2, <2>3, NothingMadeLoading
       DEF CheckSlots, kernelVars, Passed, Loading, EntriesUsed
  <2>4. CASE MatchUntyped
    BY <2>1, <2>4, MatchLoading
  <2>5. CASE EndMatch \/ EndCreate \/ Finish
    BY <2>1, <2>5, NothingMadeLoading
       DEF EndMatch, EndCreate, Finish, kernelVars, Passed, Loading, EntriesUsed
  <2>6. CASE NextDerivation
    <3>1. \A p \in Places(m) : Passed(p)' <=> Passed(p)
      BY <2>1, <2>6, NextDerivationPassed DEF Loading
    <3>2. EntriesUsed'
      BY <2>1, <2>6 DEF NextDerivation, Loading, EntriesUsed
    <3>. QED
      BY <2>1, <2>6, <3>1, <3>2, NothingMadeLoading DEF NextDerivation, InLoop, kernelVars
  <2>7. CASE CreateChild
    BY <2>1, <2>7, CreateChildLoading
  <2>8. CASE CreateFails
    BY <2>1, <2>8, ChildRetypable DEF CreateFails
  <2>9. CASE MakePool
    <3>1. PoolMade
      BY <2>1, <2>9, PoolPossible DEF MakePool, PoolMade
    <3>. QED
      BY <2>1, <3>1, PoolMadeLoading
  <2>10. CASE UNCHANGED vars
    BY <2>1, <2>10, NothingMadeLoading DEF vars, kernelVars, Passed, Loading, EntriesUsed
  <2>. QED
    BY <2>3, <2>4, <2>5, <2>6, <2>7, <2>8, <2>9, <2>10 DEF Next, Step
<1>. QED
  BY <1>2, <1>3

(* A consistent model whose untypeds the machine has is never refused: the *)
(* search with bi_start misses no untyped, whatever the orders of the      *)
(* derivations and of the boot information, every child fits, and slots    *)
(* and pool memory suffice.                                                *)
THEOREM LoadableNeverRefused == Spec => []NeverRefused
<1>1. Init => LoadingInv
  BY InitLoading
<1>2. LoadingInv => NeverRefused
  BY DEF LoadingInv, NeverRefused
<1>. QED
  BY <1>1, <1>2, StepLoading, StaticCreation, PTL DEF Spec
-----------------------------------------------------------------------------
(* The allocator.  BestFitProofs is about the definitions of BestFit; the  *)
(* two instances say the same.                                             *)
FP == INSTANCE BestFitProofs WITH Inputs <- Systems

LEMMA SameStep == Fit!Step => FP!Step
BY DEF FP!Uts, Fit!Uts, FP!Objs, Fit!Objs, FP!Unfun, Fit!Unfun, FP!Fun, Fit!Fun, FP!Of, Fit!Of,
       FP!BelowMin, Fit!BelowMin, FP!NextUnfun, Fit!NextUnfun, FP!DuplicatePaddr,
       Fit!DuplicatePaddr, FP!SizeOf, Fit!SizeOf, FP!Watermark, Fit!Watermark, FP!End, Fit!End,
       FP!Remaining, Fit!Remaining, FP!LowBit, Fit!LowBit, FP!Piece, Fit!Piece, FP!ut, Fit!ut,
       FP!IsDevice, Fit!IsDevice, FP!AddChild, Fit!AddChild, FP!AddPlaceholder,
       Fit!AddPlaceholder, FP!AddNothing, Fit!AddNothing, FP!None, Fit!None, FP!Call, Fit!Call,
       FP!piece, Fit!piece, FP!SkipPiece, Fit!SkipPiece, FP!FillPiece, Fit!FillPiece, FP!top,
       Fit!top, FP!Running, Fit!Running, FP!NothingFits, Fit!NothingFits, FP!ObjectFits,
       Fit!ObjectFits, FP!TryHalves, Fit!TryHalves, FP!caller, Fit!caller, FP!SecondHalf,
       Fit!SecondHalf, FP!BothHalves, Fit!BothHalves, FP!PieceDone, Fit!PieceDone, FP!Using,
       Fit!Using, FP!Raise, Fit!Raise, FP!Before, Fit!Before, FP!Overlap, Fit!Overlap,
       FP!AddUntyped, Fit!AddUntyped, FP!Allocate, Fit!Allocate, FP!Use, Fit!Use, FP!NextUt,
       Fit!NextUt, FP!InUnfun, Fit!InUnfun, FP!ChildAddr, Fit!ChildAddr, FP!RetireUt,
       Fit!RetireUt, FP!Goal, Fit!Goal, FP!AtUnfun, Fit!AtUnfun, FP!GoalBehind, Fit!GoalBehind,
       FP!GoalInside, Fit!GoalInside, FP!MissUnfun, Fit!MissUnfun, FP!FillGap, Fit!FillGap,
       FP!PlaceUnfun, Fit!PlaceUnfun, FP!FillUt, Fit!FillUt, FP!SkipUt, Fit!SkipUt,
       FP!RecordUt, Fit!RecordUt, FP!AfterUnfun, Fit!AfterUnfun, FP!AfterTail, Fit!AfterTail,
       FP!NextRest, Fit!NextRest, FP!RestFilled, Fit!RestFilled, FP!Finish, Fit!Finish,
       FP!Step, Fit!Step, FP!IsPow2, Fit!IsPow2, FP!Pow2, Fit!Pow2, FP!fillVars, Fit!fillVars,
       FP!Min, Fit!Min, FP!Front, Fit!Front, FP!Cardinality, Fit!Cardinality, FP!InsertAt,
       Fit!InsertAt

LEMMA NoSystemGood == Fit!GoodInput(NoSystem)
<1>1. NoSystem.uts = <<>> /\ NoSystem.objs = <<>>
  BY DEF NoSystem
<1>. QED
  BY <1>1 DEF Fit!GoodInput

LEMMA FitInit == SystemInit => FP!Inv
<1>. SUFFICES ASSUME SystemInit PROVE FP!Inv
  OBVIOUS
<1>1. Fit!GoodInput(in)
  BY NoSystemGood, SystemsAssumption DEF SystemInit
<1>2. FP!GoodInput(in)
  BY <1>1 DEF FP!GoodInput, Fit!GoodInput, FP!IsPow2, Fit!IsPow2, FP!Pow2, Fit!Pow2
<1>3. FP!Start
  BY DEF SystemInit, FP!Start, Fit!Start, FP!None, Fit!None, FP!Uts, Fit!Uts
<1>. QED
  BY <1>2, <1>3, FP!StartInv

LEMMA FitNext == FP!Inv /\ [SystemNext]_systemVars => FP!Inv'
<1>. SUFFICES ASSUME FP!Inv, [SystemNext]_systemVars PROVE FP!Inv'
  OBVIOUS
<1>1. CASE AllocateUntyped
  <2>1. FP!Step
    BY <1>1, SameStep DEF AllocateUntyped
  <2>. QED
    BY <2>1, FP!StepInv
<1>2. CASE UNCHANGED fitVars
  BY <1>2, FP!StutterInv DEF fitVars, FP!vars
<1>3. \/ AllocateUntyped \/ UNCHANGED fitVars
  BY DEF SystemNext, SystemStep, AssignASIDs, Link, Boot, systemVars
<1>. QED
  BY <1>1, <1>2, <1>3

(* Through the whole build and the boot, for every spec and every list of  *)
(* untypeds, the covers are what the tool and the kernel demand: children  *)
(* aligned, inside their untyped, one after the other, at their address if *)
(* they have one, device memory used for those only, placeholders kept     *)
(* just for untypeds in the spec, untypeds disjoint (BestFitAllocator).    *)
THEOREM CoversAlwaysAcceptable == SystemSpec => []CoversAcceptable
<1>1. FP!Inv => CoversAcceptable
  BY FP!InvCovers DEF CoversAcceptable, FP!CoversAcceptable, Fit!CoversAcceptable,
     FP!UntypedsDisjoint, Fit!UntypedsDisjoint, FP!ChildFits, Fit!ChildFits,
     FP!DeviceOnlyPinned, Fit!DeviceOnlyPinned, FP!PlaceholderKnown, Fit!PlaceholderKnown,
     FP!ChildAddr, Fit!ChildAddr, FP!SizeOf, Fit!SizeOf, FP!End, Fit!End, FP!Uts, Fit!Uts
<1>. QED
  BY <1>1, FitInit, FitNext, PTL DEF SystemSpec

(* Every object that takes memory is in the queue or has exactly one place *)
(* in the untypeds, and the queue is empty when the allocator is done.     *)
THEOREM ObjectsAllocatedOnce == SystemSpec => []AllocatedOnce
<1>1. FP!Inv => AllocatedOnce
  BY FP!InvAllocated DEF AllocatedOnce, FP!AllocatedOnce, Fit!AllocatedOnce, FP!ChildPlaces,
     Fit!ChildPlaces, FP!Uts, Fit!Uts, FP!Objs, Fit!Objs, FP!Cardinality, Fit!Cardinality
<1>. QED
  BY <1>1, FitInit, FitNext, PTL DEF SystemSpec
=============================================================================
