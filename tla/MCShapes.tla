------------------------------ MODULE MCShapes ------------------------------
(***************************************************************************)
(* The models of MCInitSystem: a system of two CNodes, two threads, one or *)
(* two address spaces, two frames, a notification, a scheduling context    *)
(* and an interrupt.  One family of models varies what the CNodes hold,    *)
(* the other one the threads, the tables, the interrupt, the fills and the *)
(* number of free slots.                                                   *)
(***************************************************************************)
EXTENDS Naturals, Sequences

CONSTANTS Build   \* the build of the loader: mcs, recursive, riscv, writeable

AllRights == {"R", "W", "G"}
TableType == IF Build.riscv THEN "PT" ELSE "PD"   \* the type of a page directory

CNodeA == 1  CNodeB == 2  Tcb1 == 3  Tcb2 == 4  Dir == 5  Table == 6
Frame1 == 7  Frame2 == 8  Ntfn == 9  Sched == 10  Irq == 11  Dir2 == 12

C(t, o, r, d) == [type |-> t, obj |-> o, rights |-> r, data |-> d, cont |-> 0, cslot |-> 0]
Mapped(f, c, s) == [type |-> "Frame", obj |-> f, rights |-> {"R"}, data |-> 0,
                    cont |-> c, cslot |-> s]
Sl(s, c) == [slot |-> s, cap |-> c]
O(t, sl) == [type |-> t, slots |-> sl, core |-> 0, resume |-> FALSE, valid |-> TRUE,
             fills |-> <<>>]

DirCap(d) == C(IF TableType = "PT" THEN "PT" ELSE "Obj", d, AllRights, 0)
CSpace(c) == Sl("cspace", C("Obj", c, AllRights, c))   \* every CNode with another guard
VSpace(d) == Sl("vspace", DirCap(d))
Ipc(f)    == Sl("ipcbuffer", C("Frame", f, {"R", "W"}, 0))
Sc        == Sl("sc", C("Obj", Sched, AllRights, 0))
Fault(b)  == Sl("fault_ep", C("EP", Ntfn, AllRights, b))
TempFault(o, b) == Sl("temp_fault_ep", C("EP", o, AllRights, b))

(* The caps a CNode may hold. *)
CapKinds ==
    {Mapped(Frame1, Table, 1), Mapped(Frame2, Table, 3), Mapped(Frame2, Dir, 2),
      C("Frame", Frame1, {"R", "W"}, 0),
     C("PT", Table, AllRights, 0), DirCap(Dir), C("EP", Ntfn, {"W"}, 5),
     C("IRQHandler", 2, AllRights, 0), C("IRQControl", 0, AllRights, 0),
     C("Control", 0, AllRights, 0), C("Obj", CNodeB, AllRights, 3), C("Obj", Tcb2, AllRights, 0)}
    \cup (IF Build.mcs THEN {C("SchedControl", 1, AllRights, 0)} ELSE {})

(* The parts that vary. *)
Thread1   == <<CSpace(CNodeA), VSpace(Dir), Ipc(Frame1), Sc, Fault(7), TempFault(Ntfn, 8)>>
Thread2   == <<CSpace(CNodeB), VSpace(Dir2), Ipc(Frame2), Fault(0)>>
Thread2s  == {Thread2, <<CSpace(CNodeA), VSpace(Dir), Ipc(Frame2), Sc>>,
              <<CSpace(CNodeB), VSpace(Dir2), Ipc(Frame2), TempFault(Frame1, 0)>>}
TableCap  == C("PT", Table, AllRights, 0)
BaseDir   == <<Sl(1, TableCap), Sl(2, C("Frame", Frame2, {"R"}, 0))>>
Dirs      == {BaseDir, <<Sl(1, TableCap), Sl(3, TableCap)>>, <<Sl(2, C("Frame", Frame2, {"W"}, 0))>>}
             \cup (IF Build.recursive THEN {} ELSE {<<Sl(1, C("EP", Ntfn, AllRights, 0))>>})
Dirs2     == {<<>>, <<Sl(3, TableCap)>>, <<Sl(4, C("Frame", Frame1, {"R"}, 0))>>}
BaseTable == <<Sl(1, C("Frame", Frame1, {"W", "G"}, 0)), Sl(3, C("Frame", Frame2, {"R"}, 0))>>
Tables    == {BaseTable, <<>>, <<Sl(1, TableCap)>>}
BaseIrq   == <<Sl(0, C("EP", Ntfn, AllRights, 9))>>
IrqSlots  == {BaseIrq, <<>>, <<Sl(0, C("EP", Ntfn, AllRights, 0))>>, BaseIrq \o BaseIrq}
Fills     == {<<TRUE, TRUE>>, <<TRUE, FALSE>>}

System(a, b, t2, da, db, pt, q, fl, st, n) ==
    [objects |-> <<O("CNode", a), O("CNode", b),
                   [O("TCB", Thread1) EXCEPT !.core = 1, !.resume = TRUE],
                   [O("TCB", t2) EXCEPT !.resume = TRUE, !.valid = st],
                   O(TableType, da), O("PT", pt),
                   [O("Frame", <<>>) EXCEPT !.fills = fl], O("Frame", <<>>), O("EP", <<>>),
                   O("SC", <<>>), O("IRQ", q), O(TableType, db)>>,
     irqs |-> <<0, Irq>>, slots |-> n, build |-> Build]

CapSpecs ==
    {System(<<Sl(1, x), Sl(4, y)>>, <<Sl(0, z)>>, Thread2, BaseDir, <<>>, BaseTable, BaseIrq,
            <<TRUE>>, TRUE, 12) :
        x \in CapKinds, y \in CapKinds,
        z \in {C("IRQControl", 0, AllRights, 0), Mapped(Frame1, Table, 1)}}

ShapeSpecs ==
    LET a == <<Sl(1, C("IRQHandler", 2, AllRights, 0))>>
        b == <<Sl(1, TableCap)>>
    IN  {System(a, b, t, da, db, pt, BaseIrq, <<TRUE, TRUE>>, TRUE, n) :
            t \in Thread2s, da \in Dirs, db \in Dirs2, pt \in Tables, n \in {8, 9, 10}}
        \cup {System(a, b, Thread2, BaseDir, <<>>, BaseTable, q, fl, st, n) :
            q \in IrqSlots, fl \in Fills, st \in BOOLEAN, n \in {0, 3, 6, 9, 12}}

(* Systems without interrupts, with a bad scheduling context, or with one  *)
(* address space too many.                                                 *)
OddSpecs ==
    LET base(n) == System(<<>>, <<>>, Thread2, BaseDir, <<>>, BaseTable, <<>>, <<>>, TRUE, n)
    IN  {[base(n) EXCEPT !.irqs = <<0, 0>>] : n \in {0, 9, 12}}
        \cup {[base(12) EXCEPT !.objects[Sched].valid = FALSE],
              [base(12) EXCEPT !.objects[Irq].valid = FALSE],
              [base(12) EXCEPT !.objects[Table] = O(TableType, <<>>), !.objects[Dir].slots = <<>>]}

(* A thread without an address space. *)
NoVSpaceSpecs ==
    {System(<<>>, <<>>, <<Ipc(Frame2)>>, BaseDir, <<>>, BaseTable, q, <<>>, TRUE, 12) :
        q \in IrqSlots}

AllSpecs == CapSpecs \cup ShapeSpecs \cup OddSpecs \cup NoVSpaceSpecs

(* Mapped caps, tables, interrupts and threads that the tool's checks      *)
(* accept, and some that they refuse.                                      *)
MappedKinds ==
    {Mapped(Frame1, Table, 1), Mapped(Frame2, Table, 3), Mapped(Frame2, Table, 1),
     Mapped(Frame1, Table, 2), Mapped(Frame1, Dir, 1), Mapped(Frame1, CNodeB, 0),
     C("Frame", Frame1, {"R", "W"}, 0), C("Frame", Ntfn, {"R"}, 0),
     TableCap, C("IRQControl", 0, AllRights, 0)}
CheckedSpecs ==
    {System(<<Sl(1, x), Sl(4, y)>>, <<Sl(0, z)>>, Thread2, BaseDir, <<>>, BaseTable, BaseIrq,
            <<TRUE>>, TRUE, 12) :
        x \in MappedKinds, y \in {Mapped(Frame1, Table, 1), C("Frame", Frame1, {"R", "W"}, 0)},
        z \in {Mapped(Frame1, Table, 1), Mapped(Frame2, Dir, 2)}}
    \cup {System(<<Sl(1, Mapped(Frame2, Table, 3))>>, <<>>, t, BaseDir, d, pt, q, <<TRUE>>, TRUE, 12) :
        t \in {Thread2, <<CSpace(CNodeB), VSpace(Table)>>, <<Sl("ipcbuffer", Mapped(Frame1, Table, 1))>>},
        d \in {<<>>, <<Sl(3, TableCap)>>},
        pt \in {BaseTable, <<Sl(1, TableCap)>>, <<Sl(1, C("EP", Ntfn, {"R"}, 0))>>},
        q \in {BaseIrq, BaseIrq \o <<Sl(1, C("EP", Ntfn, AllRights, 9))>>,
               <<Sl(0, C("Frame", Frame1, AllRights, 0))>>}}
=============================================================================
