-------------------------- MODULE MCCreateObjects --------------------------
(***************************************************************************)
(* Instances of CreateObjects: models of N objects in normal memory, and   *)
(* of N objects some of which have an address, put in order by the tool,   *)
(* each with several boot informations.                                    *)
(***************************************************************************)
EXTENDS CreateObjects, Functions

CONSTANTS N   \* the number of objects of a model

Tool == INSTANCE PrintC

Kind(t, s, p, a) == [type |-> t, size |-> s, paddr |-> p, asid_high |-> a]

(* Objects in normal memory, of three sizes, a frame of a size that is not *)
(* supported, and objects that get no memory.                              *)
PlainKinds == {Kind("Obj", 1, 0, 0), Kind("Obj", 2, 0, 0), Kind("Frame", 4, 0, 0),
               Kind("Frame", 1, 0, 0), Kind("ASIDPool", 2, 0, 1),
               Kind("ASIDPool", 2, 0, 2),
               Kind("Interrupt", 0, 0, 0), Kind("SID", 0, 0, 0), Kind("CB", 0, 0, 0),
               Kind("IOPorts", 0, 0, 0)}

(* Objects at addresses in the device untyped at 8..15 or in memory at 16. *)
DeviceKinds == {Kind("Obj", 1, 0, 0), Kind("Obj", 2, 0, 0), Kind("ASIDPool", 2, 0, 1),
                Kind("Frame", 2, 8, 0), Kind("Frame", 2, 12, 0), Kind("Frame", 4, 12, 0),
                Kind("Frame", 2, 14, 0), Kind("Frame", 2, 18, 0),
                Kind("Untyped", 2, 12, 0), Kind("Untyped", 1, 9, 0), Kind("Frame", 2, 40, 0)}

Ut(p, s, d) == [paddr |-> p, size |-> s, device |-> d]
Device == Ut(8, 8, TRUE)

PlainBoots == {[untypeds |-> us, slots |-> n] :
                 us \in {<<Ut(16, 4, FALSE), Ut(20, 2, FALSE)>>,
                         <<Ut(22, 1, FALSE), Ut(20, 2, FALSE), Ut(16, 4, FALSE)>>,
                         <<Ut(20, 2, FALSE), Device, Ut(22, 2, FALSE), Ut(24, 8, FALSE)>>,
                         <<Ut(16, 4, FALSE), Ut(24, 4, FALSE)>>},
                 n \in {3, 4, 6}}
DeviceBoots == {[untypeds |-> us, slots |-> n] :
                 us \in {<<Device, Ut(16, 4, FALSE)>>,
                         <<Ut(16, 4, FALSE), Ut(20, 2, FALSE), Device>>},
                 n \in {4, 5, 7}}

(* A choice of N kinds is a tool model: object n has the name n. *)
ToolModel(f) == {[name |-> n, type |-> f[n].type, size |-> f[n].size,
                  paddr |-> f[n].paddr, asid_high |-> f[n].asid_high] : n \in DOMAIN f}

ModelsOf(kinds, boots) ==
    LET choices == {f \in [1 .. N -> kinds] : Tool!ASIDHighsValid(Tool!SortObjects(ToolModel(f)))}
        printed == {Tool!PrintedModel(ToolModel(f)) : f \in choices}
    IN  {[objects |-> p.objects, asid |-> p.asid, untypeds |-> b.untypeds, slots |-> b.slots] :
            p \in printed, b \in boots}

MCModels == ModelsOf(PlainKinds, PlainBoots) \cup ModelsOf(DeviceKinds, DeviceBoots)

(* Bytes of the normal untypeds, and of the objects to be put in them,     *)
(* that are s or larger.                                                   *)
UntypedBytes(s) ==
    SumFunctionOnSet([u \in DOMAIN m.untypeds |-> m.untypeds[u].size],
                     {u \in Normal : m.untypeds[u].size >= s})
ObjectBytes(s) ==
    SumFunctionOnSet([i \in DOMAIN m.objects |-> m.objects[i].size],
                     {i \in DOMAIN m.objects : /\ m.objects[i].type \in MemoryTypes
                                               /\ ~IsDeviceObject(m.objects[i])
                                               /\ m.objects[i].size >= s})

(* Every object with an address lies in device memory. *)
DevicesApart ==
    \A i \in DOMAIN m.objects : IsDeviceObject(m.objects[i]) =>
        \A u \in Normal : Abstract!Apart(m.objects[i].paddr, m.objects[i].size,
                                         m.untypeds[u].paddr, m.untypeds[u].size)

(* sort_untypeds "ensures that fragmentation is eliminated if the objects  *)
(* themselves are also sorted": with the order of sortObjects the loader   *)
(* runs out of untyped memory only when no allocation exists, because for  *)
(* some size s the objects of at least that size need more bytes than the  *)
(* untypeds of at least that size have.                                    *)
NoFragmentation ==
    pc = "nomem" /\ DevicesApart => \E s \in 1 .. 8 : ObjectBytes(s) > UntypedBytes(s)
=============================================================================
