---------------------------- MODULE StaticSystem ----------------------------
(***************************************************************************)
(* Static allocation from end to end.  capdl_linker runs                   *)
(* ASIDTableAllocator and BestFitAllocator on a spec and writes it out;    *)
(* the capDL-tool collects the untyped covers and prints them in the order *)
(* of the untypeds' names; the loader meets them at boot.                  *)
(*                                                                         *)
(* A spec has objects, in the order of their names, with a type, a size,   *)
(* an address and an asid_high; the untypeds given to capdl_linker, whose  *)
(* names order them differently than their addresses do; and the boot      *)
(* information of the machine.                                             *)
(***************************************************************************)
EXTENDS StaticObjects, SequencesExt

CONSTANTS Systems,    \* specs with their untypeds and boot informations
          NumHighs    \* the slots of the ASID table

VARIABLES in, alloc, untyped, ut_iter, todo, calls, left, queue, children, recorded, holders
VARIABLES claims, phase, pool, free_asid_highs, highs

Fit    == INSTANCE BestFit WITH Inputs <- Systems
ASSUME SystemsAssumption == \A x \in Systems : Fit!GoodInput(x)

Asids  == INSTANCE ASIDTable WITH asid_high <- highs
Tool   == INSTANCE PrintC

fitVars == <<in, alloc, untyped, ut_iter, todo, calls, left, queue, children, recorded, holders>>
asidVars == <<claims, phase, pool, free_asid_highs, highs>>
systemVars == <<vars, fitVars, asidVars>>

PoolsOf(objs) == SetToSortSeq({o \in DOMAIN objs : objs[o].type = "ASIDPool"}, <)

(* The linker starts with a spec; a model with covers may also be written  *)
(* by hand, and then there is nothing to allocate.                         *)
NoSystem == [objs |-> <<>>, uts |-> <<>>, boot |-> <<>>, slots |-> 0]
NoModel(x) == [objects |-> <<>>, untyped |-> <<>>, addr |-> <<>>, asid |-> <<>>,
               untypeds |-> x.boot, slots |-> x.slots, max_objects |-> 0]

SystemInit ==
    /\ \/ in \in Systems /\ m = NoModel(in) /\ Start("build")
       \/ in = NoSystem /\ Init
    /\ Fit!Start
    /\ Asids!Start([p \in DOMAIN PoolsOf(in.objs) |-> in.objs[PoolsOf(in.objs)[p]].asid_high])
-----------------------------------------------------------------------------
(* The capDL-tool.  The objects of the model are those of the spec, then   *)
(* the untypeds, then the placeholders by address.                         *)

HolderRank(a) == Cardinality({b \in holders : b <= a})
Holder(k) == CHOOSE a \in holders : HolderRank(a) = k
IdOfUt(u) == Len(in.objs) + u
IdOfHolder(a) == Len(in.objs) + Len(in.uts) + HolderRank(a)

HolderSize(a) ==
    LET at == CHOOSE p \in UNION {{u} \X DOMAIN children[u] : u \in Fit!Uts} :
                  children[p[1]][p[2]].obj = 0 /\ Fit!ChildAddr(p[1], p[2]) = a
    IN  children[at[1]][at[2]].size

Plain(o) == [type |-> o.type, size |-> o.size, paddr |-> o.paddr]
UntypedAt(a, s) == [type |-> "Untyped", size |-> s, paddr |-> a]

ModelObjects ==
    [o \in DOMAIN in.objs |-> Plain(in.objs[o])]
    \o [u \in DOMAIN in.uts |-> UntypedAt(in.uts[u].paddr, in.uts[u].size)]
    \o [k \in 1 .. Cardinality(holders) |-> UntypedAt(Holder(k), HolderSize(Holder(k)))]

(* Mutant of Cover: the children by name. *)
CoverByName(u) ==
    SetToSortSeq({IF children[u][k].obj # 0 THEN children[u][k].obj
                  ELSE IdOfHolder(Fit!ChildAddr(u, k)) : k \in DOMAIN children[u]}, <)

(* addUTDecls: the children in the order in which the spec lists them. *)
Cover(u) ==
    [k \in DOMAIN children[u] |->
        IF children[u][k].obj # 0 THEN children[u][k].obj ELSE IdOfHolder(Fit!ChildAddr(u, k))]

(* CoverMap and showUntypedDerivations: the untypeds that have children,   *)
(* in the order of their names.                                            *)
Covered == SetToSortSeq({u \in recorded : children[u] # <<>>},
                        LAMBDA u, v : in.uts[u].name < in.uts[v].name)

Numbered ==
    [p \in DOMAIN claims |-> [type |-> "ASIDPool", asid_high |-> highs[p]]]

Link ==
    LET objs   == ModelObjects
        covers == [d \in DOMAIN Covered |->
                     [untyped |-> IdOfUt(Covered[d]), children |-> Cover(Covered[d])]]
        addrs  == [d \in DOMAIN covers |->
                     LET ch    == covers[d].children
                         sizes == [k \in DOMAIN ch |-> objs[ch[k]].size]
                     IN  Tool!PhysAddrs(objs[covers[d].untyped].paddr, sizes)]
    IN  /\ pc = "build" /\ phase = "assigned" /\ alloc = "done"
        /\ Tool!ASIDHighsValid(Numbered)
        /\ m' = [m EXCEPT
                   !.objects = objs, !.max_objects = Len(objs),
                   !.untyped = covers,
                   !.addr = addrs,
                   !.asid = [h \in DOMAIN claims |->
                               PoolsOf(in.objs)[Tool!ASIDPoolDerivations(Numbered)[h]]]]
        /\ orig' = [i \in DOMAIN objs |-> 0]
        /\ pc' = "slots"
        /\ UNCHANGED <<untyped_cptrs, bi_start, ut_index, child, free_slot_index, free_slot_start,
                       asid_high, kernelVars, fitVars, asidVars>>

AssignASIDs ==
    /\ pc = "build" /\ Asids!AllocateASIDs
    /\ UNCHANGED <<vars, fitVars>>

AllocateUntyped ==
    /\ pc = "build" /\ phase = "assigned" /\ Fit!Step
    /\ UNCHANGED <<vars, asidVars>>

Boot ==
    /\ pc # "build" /\ Step
    /\ UNCHANGED <<fitVars, asidVars>>

SystemStep == AssignASIDs \/ AllocateUntyped \/ Link \/ Boot

(* The build has failed, or the loader has stopped. *)
Ended ==
    \/ pc = "build" /\ phase = "raised"
    \/ pc = "build" /\ alloc \in {"refused", "memory"}
    \/ Stopped

SystemNext == SystemStep \/ (Ended /\ UNCHANGED systemVars)

SystemSpec == SystemInit /\ [][SystemNext]_systemVars /\ WF_systemVars(SystemStep)
-----------------------------------------------------------------------------
(* The properties of the allocator, stated in BestFit. *)

(* Children are aligned, inside their untyped and at their address; device *)
(* memory is used for objects with an address only; placeholders are in    *)
(* the spec; and untypeds, of which add_untyped compares neighbours only,  *)
(* are disjoint.                                                           *)
CoversAcceptable == Fit!CoversAcceptable

(* No object is lost or placed twice. *)
AllocatedOnce == Fit!AllocatedOnce

(* The docstring of allocate: used untypeds are added to the spec. *)
UsedUntypedsRecorded == Fit!UsedUntypedsRecorded

(* Every round of allocate takes an object off the queue or memory off an  *)
(* untyped, or goes on to the next one: the allocator ends.                *)
AllocationEnds == (pc = "build" /\ phase = "assigned") ~> Fit!Stopped
-----------------------------------------------------------------------------
(* Whatever the loader has made is where the allocator meant it to be,     *)
(* although the printed model carries no addresses and the covers come in  *)
(* another order than the allocator used; and at the end the kernel's ASID *)
(* table has the pools in the slots the linker assigned.                   *)
KernelFollowsAllocator ==
    /\ pc \notin {"build", "fatal"} =>
          \A u \in recorded : \A k \in DOMAIN children[u] :
              orig[Cover(u)[k]] # 0 => caps[orig[Cover(u)[k]]].base = Fit!ChildAddr(u, k)
    /\ pc = "done" /\ alloc = "done" =>
          /\ Len(asid_table) = Len(claims)
          /\ \A p \in DOMAIN claims : asid_table[highs[p]] = orig[PoolsOf(in.objs)[p]]

(* The machine has the untypeds that capdl_linker was given.               *)
SameMachine == \A u \in DOMAIN in.uts : \E i \in DOMAIN in.boot :
    /\ in.boot[i].paddr = in.uts[u].paddr /\ in.boot[i].size = in.uts[u].size
    /\ in.boot[i].device = in.uts[u].device

(* A spec that was built loads: if the allocator has recorded the untypeds *)
(* it used and the machine is the one it was told of, every derivation     *)
(* finds its untyped and no retype and no pool fails.                      *)
BuiltSpecLoads ==
    (pc = "slots" /\ alloc = "done" /\ SameMachine /\ UsedUntypedsRecorded) ~> (pc = "done")
=============================================================================
