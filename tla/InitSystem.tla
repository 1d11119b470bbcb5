----------------------------- MODULE InitSystem -----------------------------
(***************************************************************************)
(* capdl-loader-app: init_system after create_objects.  The loader makes   *)
(* interrupt handler caps, duplicates the caps of CNodes and TCBs, binds   *)
(* interrupts, gives address spaces an ASID, fills frames, maps the        *)
(* address spaces, configures scheduling contexts and threads, puts the    *)
(* caps of the model into the CNodes (copies first, then moves), and       *)
(* starts the threads.                                                     *)
(*                                                                         *)
(* Slot o of the loader's CNode holds the original cap of object o, as     *)
(* CreateObjects leaves it; the boot caps follow, then the free slots.     *)
(* Address spaces have two levels, PD and PT; what init_level_0 and        *)
(* init_level_1 do for further levels is what is modelled for one level.   *)
(* The kernel is modelled from how the loader uses it.  Of a thread, its   *)
(* priorities, affinity, VCPU and name are left out; its registers are in  *)
(* StackArgs.                                                              *)
(***************************************************************************)
EXTENDS Naturals, Sequences, FiniteSets, SequencesExt, Ordered

CONSTANTS
    Specs,         \* the capDL models, each with a build of the loader
    MaxNumNodes,   \* CONFIG_MAX_NUM_NODES
    NumNodes,      \* the sched control caps in the boot information
    PoolEntries    \* the ASIDs of the initial thread's ASID pool

ASSUME NodesAssumption ==
    /\ NumNodes \in Nat /\ MaxNumNodes \in Nat /\ NumNodes <= MaxNumNodes
    /\ PoolEntries \in Nat

AllRights == {"R", "W", "G"}
IsMapped(c) == c.type = "Frame" /\ c.cont # 0

(* What the tool's types and checks leave of the models it prints: a cap   *)
(* is to an object, an interrupt or a core of the model; the slots of a    *)
(* table are different; an interrupt and a thread have caps that can be    *)
(* bound to them; RISC-V has page tables only; and the recursive           *)
(* init_vspace takes every cap in a directory that is not a frame for a    *)
(* page table.                                                             *)
IsList(s) == Len(s) \in Nat /\ DOMAIN s = 1 .. Len(s)
NoObjectTypes == {"IRQHandler", "IRQControl", "SchedControl", "Control"}
GoodCap(x, c) ==
    /\ c.rights \subseteq AllRights
    /\ c.type \notin NoObjectTypes => c.obj \in DOMAIN x.objects
    /\ c.type \in {"EP", "Frame"} => x.objects[c.obj].type \in {"EP", "Frame"}
    /\ c.type = "PT" => x.objects[c.obj].type = "PT"
    /\ IsMapped(c) => c.cont \in DOMAIN x.objects /\ c.data = 0
    /\ c.type = "IRQHandler" => c.obj \in DOMAIN x.irqs
    /\ c.type = "SchedControl" => c.obj \in Nat
    /\ c.type \in {"IRQControl", "Control"} => c.obj = 0 /\ c.data = 0
GoodObject(x, b) ==
    /\ IsList(b.slots) /\ IsList(b.fills) /\ b.core \in Nat
    /\ \A k \in DOMAIN b.slots :
          LET c == b.slots[k].cap
          IN  /\ GoodCap(x, c)
              /\ b.type = "IRQ" => c.type \in {"EP", "Frame"} /\ ~IsMapped(c)
              /\ b.type = "TCB" =>
                    /\ b.slots[k].slot \in {"fault_ep", "temp_fault_ep"} => c.type = "EP"
                    /\ b.slots[k].slot = "cspace" =>
                          c.type = "Obj" /\ x.objects[c.obj].type = "CNode"
                    /\ b.slots[k].slot = "sc" => c.obj \in DOMAIN x.objects
                    /\ b.slots[k].slot = "vspace" =>
                          c.obj \in DOMAIN x.objects /\ x.objects[c.obj].type \in {"PD", "PT"}
              /\ b.type \in {"PD", "PT"} =>
                    /\ \A l \in DOMAIN b.slots : b.slots[l].slot = b.slots[k].slot => l = k
                    /\ x.build.recursive => c.type \in {"Frame", "PT"}
    /\ x.build.riscv => b.type # "PD"
ASSUME SpecsAssumption ==
    \A x \in Specs :
        /\ IsList(x.objects) /\ IsList(x.irqs) /\ x.slots \in Nat
        /\ \A o \in DOMAIN x.objects : GoodObject(x, x.objects[o])
        /\ \A n \in DOMAIN x.irqs : x.irqs[n] # 0 =>
              x.irqs[n] \in DOMAIN x.objects /\ x.objects[x.irqs[n]].type = "IRQ"

VARIABLES
    m,             \* the model: objects, irqs, the number of free slots, the build
    pc, i,         \* the phase of init_system and the position in its loop
    free_slot_start,
    roots,         \* the page tables marked by mark_vspace_roots
    irq_caps, dup, sched_ctrl,   \* the loader's tables, 0 where empty
    oob,           \* indices written outside capdl_to_sched_ctrl
    mapped,        \* mapped_frame_cap of the entries of page tables
    root,          \* the kernel: the cap in every slot of the loader's CNode
    cnode,         \* the kernel: the caps in the CNodes of the model
    asids,         \* the kernel: the address spaces that have an ASID
    pt_at, vspace, \* the kernel: where page tables are, and the page mappings
    irq_ntfn,      \* the kernel: the notification of every interrupt
    sc_core,       \* the kernel: the core of every configured scheduling context
    tcb,           \* the kernel: the configuration of every configured TCB
    filled,        \* the fills that have been written to frames
    running        \* the threads that have been resumed

tables == <<roots, irq_caps, dup, sched_ctrl, oob, mapped>>
kernel == <<cnode, asids, pt_at, vspace, irq_ntfn, sc_core, tcb, filled, running>>
vars == <<m, pc, i, free_slot_start, tables, root, kernel>>
-----------------------------------------------------------------------------
(* Slots and caps. *)

MCS       == m.build.mcs         \* CONFIG_KERNEL_MCS
Recursive == m.build.recursive   \* init_vspace is the recursive version (64 bit, RISC-V)
RiscV     == m.build.riscv       \* CONFIG_ARCH_RISCV
Writeable == m.build.writeable   \* CONFIG_CAPDL_LOADER_WRITEABLE_PAGES

Objects == DOMAIN m.objects
NumObj  == Len(m.objects)

Cap(t, o, r, b) == [type |-> t, obj |-> o, rights |-> r, badge |-> b, map |-> <<>>]
NullCap == Cap("null", 0, {}, 0)

(* The boot caps: IRQ control, the caps there is one of, the sched control *)
(* caps, and whatever cap comes after them.                                *)
IRQControlSlot == NumObj + 1
ControlSlot    == NumObj + 2
SchedStart     == NumObj + 3
FirstFree      == SchedStart + NumNodes + 1
SlotEnd        == FirstFree + m.slots

Type(o) == IF o \in roots THEN "PD" ELSE m.objects[o].type
Created(o) == m.objects[o].type # "IRQ"

BootCap(s) ==
    CASE s \in Objects        -> IF Created(s) THEN Cap("obj", s, AllRights, 0) ELSE NullCap
      [] s = IRQControlSlot   -> Cap("irqcontrol", 0, AllRights, 0)
      [] s = ControlSlot      -> Cap("control", 0, AllRights, 0)
      [] s \in SchedStart .. SchedStart + NumNodes - 1
                              -> Cap("schedcontrol", s - SchedStart, AllRights, 0)
      [] s = SchedStart + NumNodes -> Cap("foreign", 0, AllRights, 0)
      [] OTHER                -> NullCap

OrigSlot(o) == IF Created(o) THEN o ELSE 0
SlotReady(s) == s \in DOMAIN root /\ root[s] = NullCap
Holds(s) == s \in DOMAIN root /\ root[s] # NullCap

(* The kernel derives a copy of the cap in slot s: not of an IRQ control   *)
(* cap, and of a table only when it is mapped or has an ASID.              *)
Derivable(s) ==
    /\ Holds(s)
    /\ root[s].type # "irqcontrol"
    /\ root[s].type = "obj" =>
          /\ Type(root[s].obj) = "PT" => pt_at[root[s].obj] # <<>>
          /\ Type(root[s].obj) = "PD" => root[s].obj \in asids
(* Only caps of endpoints (notifications) and frames have rights. *)
HasRights(c) == c.type = "obj" /\ Type(c.obj) \in {"EP", "Frame"}
Derived(s, r, b) ==
    [root[s] EXCEPT !.rights = IF HasRights(root[s]) THEN @ \cap r ELSE @,
                    !.badge = IF b = 0 THEN @ ELSE b,
                    !.map = <<>>]
-----------------------------------------------------------------------------
(* get_cap_at: the index of the entry of object o at a slot, 0 for NULL. *)
EntryAt(o, slot) ==
    SelectInSeq(m.objects[o].slots, LAMBDA e : e.slot = slot)
CapAt(o, slot) == m.objects[o].slots[EntryAt(o, slot)].cap
HasCap(o, slot) == EntryAt(o, slot) # 0

OfType(T) == InOrder({o \in Objects : Type(o) \in T})
Irqs == InOrder({n \in DOMAIN m.irqs : m.irqs[n] # 0})
Entries(o) == [k \in DOMAIN m.objects[o].slots |-> <<o, k>>]

(* init_vspace.  A step maps entry k of the table or directory cont into   *)
(* the address space pd at va.                                             *)
MapStep(p, c, k, v) == [pd |-> p, cont |-> c, k |-> k, va |-> v]
PDSteps(p) == [k \in DOMAIN m.objects[p].slots |->
                  <<MapStep(p, p, k, <<m.objects[p].slots[k].slot>>)>>]
(* Mutant of PTSteps: the loop stops before the last entry. *)
PTStepsButLast(p) ==
    [k \in DOMAIN m.objects[p].slots |->
        LET e == m.objects[p].slots[k]
        IN  IF e.cap.type # "PT" THEN <<>>
            ELSE [l \in 1 .. Len(m.objects[e.cap.obj].slots) - 1 |->
                    MapStep(p, e.cap.obj, l, <<e.slot, m.objects[e.cap.obj].slots[l].slot>>)]]

PTSteps(p) == [k \in DOMAIN m.objects[p].slots |->
                  LET e == m.objects[p].slots[k]
                  IN  IF e.cap.type # "PT" THEN <<>>
                      ELSE [l \in DOMAIN m.objects[e.cap.obj].slots |->
                              MapStep(p, e.cap.obj, l,
                                      <<e.slot, m.objects[e.cap.obj].slots[l].slot>>)]]

(* map_page_directory for every PD, then map_page_directory_page_tables; *)
(* or init_level_2, which maps a page table and goes into it at once.      *)
BothSteps(p) == [k \in DOMAIN PDSteps(p) |-> PDSteps(p)[k] \o PTSteps(p)[k]]
MapSteps ==
    LET pds == OfType({"PD"})
        dirs == {o \in Objects : Type(o) = "PD"}
        walk(f) == FlattenSeq([n \in DOMAIN pds |-> f[pds[n]]])
    IN  IF Recursive THEN walk([p \in dirs |-> FlattenSeq(BothSteps(p))])
        ELSE walk([p \in dirs |-> FlattenSeq(PDSteps(p))])
             \o walk([p \in dirs |-> FlattenSeq(PTSteps(p))])

(* The iterations of every phase. *)
Work(phase) ==
    CASE phase = "mark_roots"     -> IF RiscV THEN OfType({"TCB"}) ELSE <<>>
      [] phase \in {"irq_caps", "irqs"} -> Irqs
      [] phase = "sched_ctrl"     -> IF MCS THEN [n \in 1 .. NumNodes + 1 |-> n - 1] ELSE <<>>
      [] phase = "duplicate_caps" -> OfType({"CNode", "TCB"})
      [] phase = "asids"          -> OfType({"PD"})
      [] phase = "frames"         -> FlattenSeq([o \in Objects |->
                                        [n \in DOMAIN m.objects[o].fills |-> <<o, n>>]])
      [] phase = "vspace"         -> MapSteps
      [] phase = "scs"            -> IF MCS THEN OfType({"SC"}) ELSE <<>>
      [] phase = "tcbs"           -> OfType({"TCB"})
      [] phase \in {"copy", "move"} ->
            LET cs == OfType({"CNode"})
            IN  FlattenSeq([n \in DOMAIN cs |-> Entries(cs[n])])
      [] phase = "start"          -> InOrder({t \in Objects : Type(t) = "TCB" /\ m.objects[t].resume})

(* Mutants of Phases: threads configured before their scheduling contexts, *)
(* threads started before the caps are distributed, address spaces filled  *)
(* before they have an ASID.                                               *)
PhasesTcbsFirst == <<"mark_roots", "irq_caps", "sched_ctrl", "duplicate_caps", "irqs", "asids",
            "frames", "vspace", "tcbs", "scs", "copy", "move", "start", "done">>
PhasesStartFirst == <<"mark_roots", "irq_caps", "sched_ctrl", "duplicate_caps", "irqs", "asids",
            "frames", "vspace", "scs", "tcbs", "copy", "start", "move", "done">>
PhasesVSpaceFirst == <<"mark_roots", "irq_caps", "sched_ctrl", "duplicate_caps", "irqs", "vspace",
            "asids", "frames", "scs", "tcbs", "copy", "move", "start", "done">>

(* init_system: the phases in order. *)
Phases == <<"mark_roots", "irq_caps", "sched_ctrl", "duplicate_caps", "irqs", "asids",
            "frames", "vspace", "scs", "tcbs", "copy", "move", "start", "done">>
After(phase) == Phases[1 + CHOOSE n \in DOMAIN Phases : Phases[n] = phase]

(* What the loop of the phase is at: nothing once the loop is over. *)
Running == pc \in {Phases[n] : n \in 1 .. Len(Phases) - 1}
Current == LET w == IF Running THEN Work(pc) ELSE <<>>
           IN  IF i <= Len(w) THEN {w[i]} ELSE {}
-----------------------------------------------------------------------------
Init ==
    /\ m \in Specs
    /\ pc = "mark_roots" /\ i = 1
    /\ free_slot_start = FirstFree
    /\ roots = {}
    /\ irq_caps = [n \in DOMAIN m.irqs |-> 0]
    /\ dup = [o \in Objects |-> 0]
    /\ sched_ctrl = [n \in 0 .. MaxNumNodes - 1 |-> 0]
    /\ oob = {}
    /\ mapped = [o \in Objects |-> [k \in DOMAIN m.objects[o].slots |-> 0]]
    /\ root = [s \in 1 .. SlotEnd - 1 |-> BootCap(s)]
    /\ cnode = [o \in Objects |-> <<>>]
    /\ asids = {} /\ vspace = {}
    /\ pt_at = [o \in Objects |-> <<>>]
    /\ irq_ntfn = [n \in DOMAIN m.irqs |-> NullCap]
    /\ sc_core = [o \in Objects |-> MaxNumNodes]
    /\ tcb = [o \in Objects |-> <<>>]
    /\ filled = {} /\ running = {}

(* ZF_LOGF, assert and a NULL dereference: the loader stops. *)
Stop(how) ==
    /\ pc' = how
    /\ UNCHANGED <<m, i, free_slot_start, tables, root, kernel>>
Abort == Stop("fatal")

Continue ==
    /\ i' = i + 1
    /\ UNCHANGED <<m, pc>>

(* The cap c goes to the free slot, then next_free_slot. *)
TakeSlot(c) ==
    /\ root' = [root EXCEPT ![free_slot_start] = c]
    /\ free_slot_start' = free_slot_start + 1
    /\ pc' = IF free_slot_start + 1 >= SlotEnd THEN "fatal" ELSE pc
    /\ i' = i + 1
    /\ UNCHANGED m

NextPhase ==
    /\ Running /\ Current = {}
    /\ pc' = After(pc)
    /\ i' = 1
    /\ UNCHANGED <<m, free_slot_start, tables, root, kernel>>
-----------------------------------------------------------------------------
(* mark_vspace_roots does not look whether the TCB has an address space. *)
MarkRoot(t) ==
    /\ pc = "mark_roots"
    /\ \/ /\ HasCap(t, "vspace")
          /\ roots' = roots \cup {CapAt(t, "vspace").obj}
          /\ Continue
          /\ UNCHANGED <<free_slot_start, irq_caps, dup, sched_ctrl, oob, mapped, root, kernel>>
       \/ /\ ~HasCap(t, "vspace")
          /\ Stop("fault")

CreateIrqCap(n) ==
    /\ pc = "irq_caps"
    /\ \/ /\ SlotReady(free_slot_start)
          /\ TakeSlot(Cap("irqhandler", n, AllRights, 0))
          /\ irq_caps' = [irq_caps EXCEPT ![n] = free_slot_start]
          /\ UNCHANGED <<roots, dup, sched_ctrl, oob, mapped, kernel>>
       \/ ~SlotReady(free_slot_start) /\ Abort

(* create_sched_ctrl_caps: the loop also runs for end - start. *)
CreateSchedCtrlCap(id) ==
    /\ pc = "sched_ctrl"
    /\ IF id < MaxNumNodes
       THEN /\ sched_ctrl' = [sched_ctrl EXCEPT ![id] = SchedStart + id]
            /\ UNCHANGED oob
       ELSE /\ oob' = oob \cup {id}
            /\ UNCHANGED sched_ctrl
    /\ Continue
    /\ UNCHANGED <<free_slot_start, roots, irq_caps, dup, mapped, root, kernel>>

DuplicateCap(o) ==
    LET src == OrigSlot(o)
    IN  /\ pc = "duplicate_caps"
        /\ \/ /\ Derivable(src) /\ SlotReady(free_slot_start)
              /\ TakeSlot(Derived(src, AllRights, 0))
              /\ dup' = [dup EXCEPT ![o] = free_slot_start]
              /\ UNCHANGED <<roots, irq_caps, sched_ctrl, oob, mapped, kernel>>
           \/ ~(Derivable(src) /\ SlotReady(free_slot_start)) /\ Abort

(* Mutant of BoundNotification: the badge is lost. *)
UnbadgedNotification(c) == root[OrigSlot(c.obj)]

(* The notification cap given to the interrupt, badged by mint_cap. *)
BoundNotification(c) ==
    IF c.data = 0 THEN root[OrigSlot(c.obj)] ELSE Derived(OrigSlot(c.obj), AllRights, c.data)

(* mint_cap and seL4_IRQHandler_SetNotification succeed. *)
Bindable(c) ==
    /\ Derivable(OrigSlot(c.obj)) /\ Type(c.obj) = "EP"
    /\ c.data # 0 => SlotReady(free_slot_start)

(* init_irq.  valid: the size of the interrupt object is 0. *)
InitIrq(n) ==
    LET o == m.irqs[n]
        es == m.objects[o].slots
        c == es[1].cap
        ok == m.objects[o].valid /\ Len(es) <= 1 /\ (Len(es) = 1 => Bindable(c))
    IN  /\ pc = "irqs"
        /\ \/ /\ ok /\ Len(es) = 0
              /\ Continue
              /\ UNCHANGED <<free_slot_start, tables, root, kernel>>
           \/ /\ ok /\ Len(es) = 1 /\ c.data = 0
              /\ irq_ntfn' = [irq_ntfn EXCEPT ![n] = BoundNotification(c)]
              /\ Continue
              /\ UNCHANGED <<free_slot_start, tables, root, cnode, asids, pt_at, vspace, sc_core,
                             tcb, filled, running>>
           \/ /\ ok /\ Len(es) = 1 /\ c.data # 0
              /\ TakeSlot(Derived(OrigSlot(c.obj), AllRights, c.data))
              /\ irq_ntfn' = [irq_ntfn EXCEPT ![n] = BoundNotification(c)]
              /\ UNCHANGED <<tables, cnode, asids, pt_at, vspace, sc_core, tcb, filled, running>>
           \/ ~ok /\ Abort

SetAsid(p) ==
    /\ pc = "asids"
    /\ \/ /\ Cardinality(asids) < PoolEntries
          /\ asids' = asids \cup {p}
          /\ Continue
          /\ UNCHANGED <<free_slot_start, tables, root, cnode, pt_at, vspace, irq_ntfn, sc_core,
                         tcb, filled, running>>
       \/ Cardinality(asids) >= PoolEntries /\ Abort

(* init_frame maps the original cap, fills the frame and unmaps it again;  *)
(* fills[n] says whether the n-th fill passes the checks, LoadFrames       *)
(* models what it writes.                                                  *)
InitFrame(f) ==
    /\ pc = "frames"
    /\ \/ /\ m.objects[f[1]].fills[f[2]]
          /\ filled' = filled \cup {f}
          /\ Continue
          /\ UNCHANGED <<free_slot_start, tables, root, cnode, asids, pt_at, vspace, irq_ntfn,
                         sc_core, tcb, running>>
       \/ ~m.objects[f[1]].fills[f[2]] /\ Abort
-----------------------------------------------------------------------------
(* init_vspace: one entry of a page directory or page table. *)

MapCap(w) == m.objects[w.cont].slots[w.k].cap
Occupied(p, v) == (\E x \in vspace : x.pd = p /\ x.va = v)
                  \/ (\E o \in Objects : pt_at[o] = <<p, v>>)

(* The kernel accepts a page table at a place of an address space unless   *)
(* it is mapped or has an ASID itself, a page only where its page table is *)
(* mapped.                                                                 *)
TableMappable(o, p, v) == p \in asids /\ pt_at[o] = <<>> /\ o \notin asids /\ ~Occupied(p, v)

PageMappable(p, v) ==
    /\ p \in asids /\ ~Occupied(p, v)
    /\ Len(v) = 2 => \E o \in Objects : pt_at[o] = <<p, <<v[1]>>>>

(* A page table.  init_level_2 ignores the kernel's answer. *)
MapTable(w) ==
    LET o == MapCap(w).obj
        ignored == Recursive /\ w.cont = w.pd
    IN  /\ pc = "vspace" /\ MapCap(w).type = "PT"
        /\ \/ /\ TableMappable(o, w.pd, w.va)
              /\ pt_at' = [pt_at EXCEPT ![o] = <<w.pd, w.va>>]
              /\ Continue
              /\ UNCHANGED <<free_slot_start, tables, root, cnode, asids, vspace, irq_ntfn,
                             sc_core, tcb, filled, running>>
           \/ /\ ~TableMappable(o, w.pd, w.va) /\ ignored
              /\ Continue
              /\ UNCHANGED <<free_slot_start, tables, root, kernel>>
           \/ /\ ~TableMappable(o, w.pd, w.va) /\ ~ignored
              /\ Abort

(* Instruction pages are made writeable for breakpoints if the build says  *)
(* so, and a write-only mapping is upgraded.                               *)
MapRights(r) ==
    LET w == IF Writeable /\ "G" \in r THEN r \cup {"W"} ELSE r
    IN  IF "W" \in w THEN w \cup {"R"} ELSE w

(* map_page for a frame: a new cap for the mapping, remembered in the entry. *)
MapFrame(w) ==
    LET o == MapCap(w).obj
        ok == Derivable(OrigSlot(o)) /\ SlotReady(free_slot_start)
              /\ PageMappable(w.pd, w.va)
    IN  /\ pc = "vspace" /\ MapCap(w).type = "Frame"
        /\ \/ /\ ok
              /\ TakeSlot([Derived(OrigSlot(o), AllRights, 0) EXCEPT
                              !.map = <<w.pd, w.va>>])
              /\ mapped' = [mapped EXCEPT ![w.cont][w.k] = free_slot_start]
              /\ vspace' = vspace \cup {[pd |-> w.pd, va |-> w.va, obj |-> o,
                                         rights |-> MapRights(MapCap(w).rights)]}
              /\ UNCHANGED <<roots, irq_caps, dup, sched_ctrl, oob, cnode, asids, pt_at,
                             irq_ntfn, sc_core, tcb, filled, running>>
           \/ ~ok /\ Abort

MapOther(w) == pc = "vspace" /\ MapCap(w).type \notin {"PT", "Frame"} /\ Abort
-----------------------------------------------------------------------------
(* init_sc for core 0, and init_tcb with configure_tcb.  valid: the kernel  *)
(* accepts the budget and the period of the SC, the loader the stack of    *)
(* the TCB (StackArgs models that part).                                   *)

SchedCtrlValid(core) == core < MaxNumNodes /\ Holds(sched_ctrl[core])
                        /\ root[sched_ctrl[core]].type = "schedcontrol"

InitSc(c) ==
    /\ pc = "scs"
    /\ \/ /\ SchedCtrlValid(0) /\ m.objects[c].valid
          /\ sc_core' = [sc_core EXCEPT ![c] = 0]
          /\ Continue
          /\ UNCHANGED <<free_slot_start, tables, root, cnode, asids, pt_at, vspace, irq_ntfn,
                         tcb, filled, running>>
       \/ ~(SchedCtrlValid(0) /\ m.objects[c].valid) /\ Abort

TcbObj(t, slot) == IF HasCap(t, slot) THEN CapAt(t, slot).obj ELSE 0
HasSc(t)   == MCS /\ HasCap(t, "sc")
Complete(t) == \A s \in {"cspace", "vspace", "ipcbuffer"} : HasCap(t, s)
BadgedFault(t) == MCS /\ HasCap(t, "fault_ep") /\ CapAt(t, "fault_ep").data # 0
FaultSlots(t) == {s \in {"fault_ep", "temp_fault_ep"} : MCS /\ HasCap(t, s)}

(* The kernel accepts the scheduling context, the roots and the fault      *)
(* endpoints of the thread.                                                *)
TcbAccepted(t) ==
    /\ HasSc(t) => /\ SchedCtrlValid(m.objects[t].core)
                   /\ m.objects[CapAt(t, "sc").obj].valid
                   /\ \A u \in Objects : tcb[u] # <<>> => tcb[u].sc # CapAt(t, "sc").obj
    /\ Complete(t) => CapAt(t, "vspace").obj \in asids
    /\ BadgedFault(t) => SlotReady(free_slot_start)
    /\ \A s \in FaultSlots(t) : Type(CapAt(t, s).obj) = "EP"
    /\ Holds(dup[t]) /\ m.objects[t].valid

(* seL4_TCB_Configure needs all three of CSpace, VSpace and IPC buffer; if *)
(* one is missing only the IPC buffer is set.  The CSpace root gets its    *)
(* guard; that of a VSpace root means nothing to the kernel.  The temporal *)
(* fault endpoint is the original cap: its badge is not looked at.         *)
(* Without MCS the fault endpoint is an address in the thread's own CSpace *)
(* and not a cap.                                                          *)
TcbConfig(t) ==
    [cspace |-> IF Complete(t)
                THEN Derived(OrigSlot(TcbObj(t, "cspace")), AllRights, CapAt(t, "cspace").data)
                ELSE NullCap,
     vspace |-> IF Complete(t) THEN TcbObj(t, "vspace") ELSE 0,
     ipcbuffer |-> TcbObj(t, "ipcbuffer"),
     sc |-> IF HasSc(t) THEN TcbObj(t, "sc") ELSE 0,
     fault_ep |-> IF ~MCS \/ ~HasCap(t, "fault_ep") THEN NullCap
                  ELSE IF BadgedFault(t)
                  THEN Derived(OrigSlot(TcbObj(t, "fault_ep")), AllRights, CapAt(t, "fault_ep").data)
                  ELSE root[OrigSlot(TcbObj(t, "fault_ep"))],
     temp_fault_ep |-> IF ~MCS \/ ~HasCap(t, "temp_fault_ep") THEN NullCap
                       ELSE root[OrigSlot(TcbObj(t, "temp_fault_ep"))]]

InitTcb(t) ==
    LET src == OrigSlot(TcbObj(t, "fault_ep"))
    IN  /\ pc = "tcbs"
        /\ \/ /\ TcbAccepted(t)
              /\ tcb' = [tcb EXCEPT ![t] = TcbConfig(t)]
              /\ sc_core' = IF HasSc(t)
                            THEN [sc_core EXCEPT ![CapAt(t, "sc").obj] = m.objects[t].core]
                            ELSE sc_core
              /\ IF BadgedFault(t)
                 THEN TakeSlot(Derived(src, AllRights, CapAt(t, "fault_ep").data))
                 ELSE Continue /\ UNCHANGED <<root, free_slot_start>>
              /\ UNCHANGED <<tables, cnode, asids, pt_at, vspace, irq_ntfn, filled, running>>
           \/ ~TcbAccepted(t) /\ Abort
-----------------------------------------------------------------------------
(* init_cspace: init_cnode_slot with mode COPY, then with mode MOVE. *)

SpecCap(e)  == m.objects[e[1]].slots[e[2]].cap
SpecSlot(e) == m.objects[e[1]].slots[e[2]].slot

MoveCap(c) == c.type = "IRQControl"

(* src_index: where the cap to be copied or moved is. *)
SrcSlot(c) ==
    CASE c.type = "IRQHandler"   -> irq_caps[c.obj]
      [] c.type = "IRQControl"   -> IRQControlSlot
      [] c.type = "SchedControl" -> IF c.obj < MaxNumNodes THEN sched_ctrl[c.obj] ELSE 0
      [] c.type = "Control"      -> ControlSlot
      [] OTHER                   -> OrigSlot(c.obj)

(* Mutant of MappedSlot: the first entry of the container. *)
MappedSlotOfFirst(c) == IF Len(m.objects[c.cont].slots) = 0 THEN 0 ELSE mapped[c.cont][1]

(* mapped_frame_cap of the entry the cap's mapping names, 0 if there is none. *)
MappedSlot(c) ==
    LET k == EntryAt(c.cont, c.cslot)
    IN  IF k # 0 /\ m.objects[c.cont].slots[k].cap.type = "Frame" THEN mapped[c.cont][k] ELSE 0

DestReady(e) == Holds(dup[e[1]]) /\ SpecSlot(e) \notin DOMAIN cnode[e[1]]
PutCap(e, c) ==
    cnode' = [cnode EXCEPT ![e[1]] =
                [s \in DOMAIN @ \cup {SpecSlot(e)} |-> IF s = SpecSlot(e) THEN c ELSE @[s]]]

CopyCap(e) ==
    LET src == SrcSlot(SpecCap(e))
    IN  /\ pc = "copy" /\ ~MoveCap(SpecCap(e)) /\ ~IsMapped(SpecCap(e))
        /\ \/ /\ Derivable(src) /\ DestReady(e)
              /\ PutCap(e, Derived(src, SpecCap(e).rights, SpecCap(e).data))
              /\ Continue
              /\ UNCHANGED <<free_slot_start, tables, root, asids, pt_at, vspace, irq_ntfn,
                             sc_core, tcb, filled, running>>
           \/ ~(Derivable(src) /\ DestReady(e)) /\ Abort

MoveFrom(e, src) ==
    \/ /\ Holds(src) /\ DestReady(e)
       /\ PutCap(e, root[src])
       /\ root' = [root EXCEPT ![src] = NullCap]
       /\ Continue
       /\ UNCHANGED <<free_slot_start, tables, asids, pt_at, vspace, irq_ntfn, sc_core, tcb,
                      filled, running>>
    \/ ~(Holds(src) /\ DestReady(e)) /\ Abort

MoveMappedCap(e) == pc = "copy" /\ IsMapped(SpecCap(e)) /\ MoveFrom(e, MappedSlot(SpecCap(e)))
MoveOrigCap(e)   == pc = "move" /\ MoveCap(SpecCap(e)) /\ MoveFrom(e, SrcSlot(SpecCap(e)))

SkipCap(e) ==
    /\ \/ pc = "copy" /\ MoveCap(SpecCap(e))
       \/ pc = "move" /\ ~MoveCap(SpecCap(e))
    /\ Continue
    /\ UNCHANGED <<free_slot_start, tables, root, kernel>>

StartThread(t) ==
    /\ pc = "start"
    /\ running' = running \cup {root[OrigSlot(t)].obj}
    /\ Continue
    /\ UNCHANGED <<free_slot_start, tables, root, cnode, asids, pt_at, vspace, irq_ntfn, sc_core,
                   tcb, filled>>
-----------------------------------------------------------------------------
Step ==
    \/ NextPhase
    \/ \E x \in Current :
          \/ MarkRoot(x) \/ CreateIrqCap(x) \/ CreateSchedCtrlCap(x) \/ DuplicateCap(x)
          \/ InitIrq(x) \/ SetAsid(x) \/ InitFrame(x)
          \/ MapTable(x) \/ MapFrame(x) \/ MapOther(x)
          \/ InitSc(x) \/ InitTcb(x)
          \/ CopyCap(x) \/ MoveMappedCap(x) \/ MoveOrigCap(x) \/ SkipCap(x)
          \/ StartThread(x)

Stopped == pc \in {"done", "fatal", "fault"}
Halt == Stopped /\ UNCHANGED vars
Next == Step \/ Halt

Spec == Init /\ [][Next]_vars

(* One thread, at the highest priority: it keeps running. *)
FairSpec == Spec /\ WF_vars(Step)
-----------------------------------------------------------------------------
(* What the model says, independently of the loader's phases. *)

CNodes == {o \in Objects : m.objects[o].type = "CNode"}
Tcbs   == {o \in Objects : m.objects[o].type = "TCB"}

(* The address spaces: on RISC-V the tables in a TCB's VSpace slot. *)
Directories ==
    IF RiscV THEN {CapAt(t, "vspace").obj : t \in {u \in Tcbs : HasCap(u, "vspace")}}
    ELSE {o \in Objects : m.objects[o].type = "PD"}

(* The entries of the objects of a set whose cap has one of the types T. *)
EntriesOf(S, T) ==
    {e \in UNION {{o} \X DOMAIN m.objects[o].slots : o \in S} :
        m.objects[e[1]].slots[e[2]].cap.type \in T}

(* The places of the entry e of a directory or of a page table. *)
Places(e) ==
    IF e[1] \in Directories THEN {<<e[1], <<SpecSlot(e)>>>>}
    ELSE {<<d[1], <<SpecSlot(d), SpecSlot(e)>>>> :
            d \in {x \in EntriesOf(Directories, {"PT"}) : SpecCap(x).obj = e[1]}}

(* A writable page is readable, and one that may be executed is writable   *)
(* in a build for breakpoints.                                             *)
PageRights(r) ==
    r \cup {x \in {"R", "W"} : "G" \in r /\ Writeable} \cup {x \in {"R"} : "W" \in r}

SpecPages ==
    UNION {{[pd |-> p[1], va |-> p[2], obj |-> SpecCap(e).obj,
             rights |-> PageRights(SpecCap(e).rights)] :
               p \in Places(e)} : e \in EntriesOf(Objects \ (CNodes \cup Tcbs), {"Frame"})}

(* The entry whose mapping the cap c says it is. *)
MappingEntry(c) == <<c.cont, EntryAt(c.cont, c.cslot)>>

(* The kernel's cap k is what the model's cap c asks for: for the right    *)
(* object, badge (or guard) and mapping.  In a CNode it has the rights of  *)
(* c, unless c is mapped: the loader moves the cap it has mapped the frame *)
(* with, and this one has all rights whatever c has.  What is bound to an  *)
(* interrupt or a thread has all rights too.                               *)
SameCap(c, k) ==
    /\ k.obj = c.obj
    /\ k.badge = c.data
    /\ IsMapped(c) => k.map \in Places(MappingEntry(c))
    /\ k.type = CASE c.type = "IRQHandler"   -> "irqhandler"
                  [] c.type = "IRQControl"   -> "irqcontrol"
                  [] c.type = "SchedControl" -> "schedcontrol"
                  [] c.type = "Control"      -> "control"
                  [] OTHER                   -> "obj"
CapConforms(c, k) ==
    /\ SameCap(c, k)
    /\ c.type \in {"EP", "Frame"} => k.rights = IF IsMapped(c) THEN AllRights ELSE c.rights
BoundConforms(c, k) == SameCap(c, k) /\ k.rights = AllRights
Unbadged(c) == [type |-> c.type, obj |-> c.obj, data |-> 0, cont |-> 0]

(* The models the loader can realise: what the tool checks (a mapped cap   *)
(* names an entry with the same frame) and what the kernel needs.          *)
AtMostOne(S) == \A x, y \in S : x = y
IrqsWellFormed ==
    \A n \in DOMAIN m.irqs : m.irqs[n] # 0 =>
        LET q == m.objects[m.irqs[n]]
        IN  /\ q.valid /\ Len(q.slots) <= 1
            /\ \A k \in DOMAIN q.slots : m.objects[q.slots[k].cap.obj].type = "EP"
ThreadsWellFormed ==
    \A t \in Tcbs :
        /\ m.objects[t].valid
        /\ HasSc(t) => m.objects[t].core < NumNodes
        /\ \A u \in Tcbs : HasSc(t) /\ HasSc(u) /\ u # t =>
              CapAt(t, "sc").obj # CapAt(u, "sc").obj
        /\ RiscV => HasCap(t, "vspace")
        /\ \A s \in FaultSlots(t) : m.objects[CapAt(t, s).obj].type = "EP"
WellFormed ==
    LET held  == EntriesOf(CNodes, {"Frame", "PT", "IRQControl", "IRQHandler", "SchedControl"})
        held1(t) == {e \in held : SpecCap(e).type = t}
        pts   == EntriesOf(Directories, {"PT"})
    IN  /\ \A e \in held1("Frame") : IsMapped(SpecCap(e)) =>
              LET f == MappingEntry(SpecCap(e))
              IN  /\ f[2] # 0
                  /\ SpecCap(f).type = "Frame" /\ SpecCap(f).obj = SpecCap(e).obj
                  /\ Places(f) # {}
                  /\ AtMostOne({d \in held1("Frame") :
                        IsMapped(SpecCap(d)) /\ MappingEntry(SpecCap(d)) = f})
        /\ AtMostOne(held1("IRQControl"))
        /\ \A e \in held1("IRQHandler") : m.irqs[SpecCap(e).obj] # 0
        /\ \A e \in held1("SchedControl") : MCS /\ SpecCap(e).obj < NumNodes
        /\ \A o \in Objects : AtMostOne({e \in pts : SpecCap(e).obj = o})
        /\ \A e \in held1("PT") : SpecCap(e).obj \in Directories \cup {SpecCap(x).obj : x \in pts}
        /\ \A x \in pts : SpecCap(x).obj \notin Directories
        /\ EntriesOf(Directories, {"EP"}) = {}
        /\ EntriesOf({SpecCap(x).obj : x \in pts}, {"EP", "PT"}) = {}
        /\ Cardinality(Directories) <= PoolEntries
        /\ IrqsWellFormed /\ ThreadsWellFormed
        /\ \A o \in Objects : \A n \in DOMAIN m.objects[o].fills : m.objects[o].fills[n]
        /\ MCS => \A o \in Objects : m.objects[o].type = "SC" => m.objects[o].valid

(* The slots the phases take. *)
SlotDemand ==
    LET irqs == {n \in DOMAIN m.irqs : m.irqs[n] # 0}
    IN  Cardinality(irqs) + Cardinality(CNodes) + Cardinality(Tcbs)
        + Cardinality({n \in irqs : \E k \in DOMAIN m.objects[m.irqs[n]].slots :
                            m.objects[m.irqs[n]].slots[k].cap.data # 0})
        + Cardinality(SpecPages)
        + Cardinality({t \in Tcbs : BadgedFault(t)})
-----------------------------------------------------------------------------
(* The new system has control: a thread may run, or the loader is done. *)
HandedOver == running # {} \/ pc = "done"

(* Before any thread runs every CNode holds exactly the caps the model     *)
(* gives it, each for the right object, badge and mapping, although caps   *)
(* are copied and moved in two passes over shared source slots.  Caps that *)
(* are copied have the rights of the model; a mapped frame cap, which is   *)
(* moved, has all rights, also if the model gives it fewer.                *)
CSpaceConforms ==
    HandedOver /\ WellFormed =>
        \A o \in CNodes :
            /\ DOMAIN cnode[o] = {SpecSlot(e) : e \in {o} \X DOMAIN m.objects[o].slots}
            /\ \A e \in {o} \X DOMAIN m.objects[o].slots :
                  CapConforms(SpecCap(e), cnode[o][SpecSlot(e)])

(* Before any thread runs the address spaces have exactly the pages of the *)
(* model, readable where writable (and writable where executable, if the   *)
(* build is one for breakpoints), whichever way init_vspace walks them.    *)
VSpaceConforms ==
    HandedOver =>
        /\ vspace = SpecPages
        /\ WellFormed => \A e \in EntriesOf(Directories, {"PT"}) :
                            pt_at[SpecCap(e).obj] = <<e[1], <<SpecSlot(e)>>>>

(* Before any thread runs every bound interrupt signals its notification   *)
(* with its badge, and its handler cap is where init_cnode_slot looks.     *)
IrqsConform ==
    HandedOver =>
        \A n \in DOMAIN m.irqs : m.irqs[n] # 0 =>
            /\ root[irq_caps[n]] = Cap("irqhandler", n, AllRights, 0)
            /\ \A k \in DOMAIN m.objects[m.irqs[n]].slots :
                  BoundConforms(m.objects[m.irqs[n]].slots[k].cap, irq_ntfn[n])

(* Before any thread runs every TCB has the roots of the model, the CSpace *)
(* with its guard, the fault endpoint with its badge and the temporal      *)
(* fault endpoint, the latter without the badge the model may give it; and *)
(* its scheduling context is on the thread's own core, after init_scs put  *)
(* all of them on core 0.                                                  *)
ThreadsConform ==
    HandedOver =>
        \A t \in Tcbs :
            /\ tcb[t] # <<>>
            /\ Complete(t) => /\ BoundConforms(CapAt(t, "cspace"), tcb[t].cspace)
                              /\ tcb[t].vspace = CapAt(t, "vspace").obj
            /\ HasCap(t, "ipcbuffer") => tcb[t].ipcbuffer = CapAt(t, "ipcbuffer").obj
            /\ HasSc(t) => /\ tcb[t].sc = CapAt(t, "sc").obj
                           /\ sc_core[tcb[t].sc] = m.objects[t].core
            /\ MCS /\ HasCap(t, "fault_ep") => BoundConforms(CapAt(t, "fault_ep"), tcb[t].fault_ep)
            /\ MCS /\ HasCap(t, "temp_fault_ep") =>
                  BoundConforms(Unbadged(CapAt(t, "temp_fault_ep")), tcb[t].temp_fault_ep)

(* Once a thread runs the loader changes nothing of the system any more    *)
(* but resuming further threads.                                           *)
QuietAfterStart ==
    [][running # {} => /\ UNCHANGED <<cnode, asids, pt_at, vspace, irq_ntfn, sc_core, tcb, filled>>
                       /\ UNCHANGED root]_vars

(* A well-formed model for which the CNode has slots enough is always      *)
(* started: no phase needs what a later one provides or an earlier one     *)
(* took, and all the threads that shall run get to run.                    *)
SystemStarts ==
    WellFormed /\ SlotDemand < m.slots
        => <>(pc = "done" /\ running = {t \in Tcbs : m.objects[t].resume})

(* sched_ctrl_caps asserts that a core is below CONFIG_MAX_NUM_NODES: the  *)
(* table is only written within these bounds.                              *)
SchedCtrlInBounds == oob = {}
=============================================================================
