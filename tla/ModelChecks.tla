---------------------------- MODULE ModelChecks ----------------------------
(***************************************************************************)
(* capDL-tool: checkModel, which a model has to pass before the tool       *)
(* prints it, together with the loader that gets it (InitSystem).          *)
(*                                                                         *)
(* Of the checks those are modelled that are about what InitSystem has:    *)
(* the caps in the slots of objects, mappings, interrupts and mapped frame *)
(* caps.  A cap of type "Obj" has the type of its object, so that          *)
(* checkTypAt holds for it.  The checks of the covers of untypeds, of ASID *)
(* pools and of the objects an architecture has are left out.              *)
(***************************************************************************)
EXTENDS InitSystem

CapType(c) == IF c.type = "Obj" THEN m.objects[c.obj].type ELSE c.type
SlotsOf(o) == {o} \X DOMAIN m.objects[o].slots
AllSlots == UNION {SlotsOf(o) : o \in Objects}

(* checkTypAt: the cap refers to an object of its type. *)
CheckTypAt(c) == c.type \in {"EP", "Frame", "PT"} => m.objects[c.obj].type = c.type

(* validTCBSlotCap *)
ValidTCBSlotCap(slot, c) ==
    CASE slot = "cspace"    -> CapType(c) = "CNode"
      [] slot = "vspace"    -> CapType(c) = IF RiscV THEN "PT" ELSE "PD"
      [] slot = "ipcbuffer" -> CapType(c) = "Frame"
      [] slot = "sc"        -> CapType(c) = "SC"
      [] slot \in {"fault_ep", "temp_fault_ep"} -> CapType(c) = "EP"

(* validObjCap *)
ValidObjCap(o, slot, c) ==
    CASE m.objects[o].type = "TCB"   -> ValidTCBSlotCap(slot, c)
      [] m.objects[o].type = "IRQ"   -> slot = 0 /\ CapType(c) = "EP"
      [] m.objects[o].type = "CNode" -> TRUE
      [] m.objects[o].type = "PT"    -> CapType(c) \in {"Frame"} \cup (IF RiscV THEN {"PT"} ELSE {})
      [] m.objects[o].type = "PD"    -> CapType(c) \in {"Frame", "PT"}
      [] OTHER                       -> FALSE

CheckObjs == \A e \in AllSlots : CheckTypAt(SpecCap(e)) /\ ValidObjCap(e[1], SpecSlot(e), SpecCap(e))

(* checkMappings: the objects, not the slots, that a PT is mapped in. *)
UniquePD(pt) ==
    Cardinality({o \in Objects : /\ m.objects[o].type = "PD"
                                 /\ \E e \in SlotsOf(o) : SpecCap(e).obj = pt}) <= 1
CheckMappings == \A o \in Objects : m.objects[o].type = "PT" => UniquePD(o)

CheckIRQNode == \A n \in DOMAIN m.irqs : m.irqs[n] # 0 => m.objects[m.irqs[n]].type = "IRQ"

(* The slots of the frame caps with a mapping that are in CNodes. *)
IsCNode(o) == m.objects[o].type = "CNode"
MappedCaps == {e \in AllSlots : IsCNode(e[1]) /\ IsMapped(SpecCap(e))}
MappingOf(e) == <<SpecCap(e).cont, SpecCap(e).cslot>>

(* Mutant of NoDuplicates: only the duplicates within one CNode. *)
NoDuplicatesInCNode == \A d, e \in MappedCaps : d # e /\ d[1] = e[1] => MappingOf(d) # MappingOf(e)

(* checkDuplicateMappedFrameCaps *)
NoDuplicates == \A d, e \in MappedCaps : d # e => MappingOf(d) # MappingOf(e)

(* checkMappingSanity: the mapping is a frame cap in a slot of a table. *)
MappingSane(e) ==
    LET c == SpecCap(e)
    IN  /\ m.objects[c.cont].type \in {"PT", "PD"}
        /\ HasCap(c.cont, c.cslot) /\ CapAt(c.cont, c.cslot).type = "Frame"

(* checkMappedFrameCapsOnlyInCNodes *)
OnlyInCNodes == \A e \in AllSlots : IsMapped(SpecCap(e)) => IsCNode(e[1])

CheckMappedFrameCaps == NoDuplicates /\ (\A e \in MappedCaps : MappingSane(e)) /\ OnlyInCNodes

CheckModel == CheckObjs /\ CheckMappings /\ CheckIRQNode /\ CheckMappedFrameCaps
-----------------------------------------------------------------------------
(* What the loader needs and the tool does not check: a mapped cap is to   *)
(* the frame that is mapped, in a table that is mapped, once; there is one *)
(* IRQ control cap, and what interrupt handlers, cores, ASIDs, scheduling  *)
(* contexts, stacks and fills need.  (The slots of an object are a map in  *)
(* the tool, a list in the loader.)                                        *)
MappedFrame(e) == CapAt(SpecCap(e).cont, SpecCap(e).cslot).obj
SameFrames == \A e \in MappedCaps : MappingSane(e) => MappedFrame(e) = SpecCap(e).obj

Unchecked ==
    LET held(t) == {e \in AllSlots : IsCNode(e[1]) /\ SpecCap(e).type = t}
        pts     == EntriesOf(Directories, {"PT"})
        tables_ == Directories \cup {SpecCap(x).obj : x \in pts}
    IN  /\ \A d, e \in AllSlots : d[1] = e[1] /\ SpecSlot(d) = SpecSlot(e) => d = e
        /\ SameFrames
        /\ \A e \in MappedCaps : SpecCap(e).cont \in tables_
        /\ \A e \in held("PT") : SpecCap(e).obj \in tables_
        /\ \A d \in Directories : \A o \in Objects :
              AtMostOne({e \in pts : e[1] = d /\ SpecCap(e).obj = o})
        /\ AtMostOne(held("IRQControl"))
        /\ \A n \in DOMAIN m.irqs : m.irqs[n] # 0 => m.objects[m.irqs[n]].valid
        /\ \A e \in held("IRQHandler") : m.irqs[SpecCap(e).obj] # 0
        /\ \A e \in held("SchedControl") : MCS /\ SpecCap(e).obj < NumNodes
        /\ Cardinality(Directories) <= PoolEntries
        /\ \A o \in Objects : \A n \in DOMAIN m.objects[o].fills : m.objects[o].fills[n]
        /\ MCS => \A o \in Objects : m.objects[o].type = "SC" => m.objects[o].valid
        /\ \A t \in Tcbs : m.objects[t].valid /\ (HasSc(t) => m.objects[t].core < NumNodes)
        /\ \A t, u \in Tcbs : HasSc(t) /\ HasSc(u) /\ u # t => CapAt(t, "sc").obj # CapAt(u, "sc").obj
        /\ SlotDemand < m.slots

(* The tool and the loader together: a model that passes checkModel, with  *)
(* what the tool does not check, is loaded and started.  The loader moves  *)
(* the cap of every mapping once and follows the caps in tables and        *)
(* interrupts without looking at them again.  On RISC-V, where tables are  *)
(* in tables, checkMappings looks at none of them.                         *)
CheckedModelsStart ==
    ~RiscV /\ CheckModel /\ Unchecked => <>(pc = "done" /\ running = {t \in Tcbs : m.objects[t].resume})
=============================================================================
