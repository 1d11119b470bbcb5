------------------------------ MODULE PrintC ------------------------------
(***************************************************************************)
(* capDL-tool: the part of PrintC.hs and PrintUtils.hs that decides the    *)
(* order in which the loader meets the objects of a model: sortObjects for *)
(* dynamic allocation, and the ASID pool derivations; with the addresses   *)
(* that PrintIsabelle.hs gives to covered objects.  Text is left out.      *)
(* A tool object has a name (its place in Map.toList), a type, a size, an  *)
(* address (0 for Nothing) and an asid_high (0 for Nothing).               *)
(***************************************************************************)
EXTENDS Naturals, Sequences, SequencesExt, FiniteSetsExt

(* The comparison of sortObjects: address first, then descending size,     *)
(* then name; objects without an address come after those that have one.   *)
SortsBefore(a, b) ==
    LET ka == <<a.paddr = 0, a.paddr, a.size, a.name>>
        kb == <<b.paddr = 0, b.paddr, b.size, b.name>>
    IN  \/ ~ka[1] /\ kb[1]
        \/ ka[1] = kb[1] /\ ka[2] < kb[2]
        \/ ka[1] = kb[1] /\ ka[2] = kb[2] /\ ka[3] > kb[3]
        \/ ka[1] = kb[1] /\ ka[2] = kb[2] /\ ka[3] = kb[3] /\ ka[4] < kb[4]

SortObjects(objs) == SetToSortSeq(objs, SortsBefore)

(* getASIDPoolDerivations: the numbers of the pools, by asid_high.  The    *)
(* tool refuses a model whose asid_highs are not exactly 1..n.             *)
Pools(list) == {i \in DOMAIN list : list[i].type = "ASIDPool"}

ASIDHighsValid(list) ==
    /\ \A i, j \in Pools(list) : list[i].asid_high = list[j].asid_high => i = j
    /\ {list[i].asid_high : i \in Pools(list)} = 1 .. Cardinality(Pools(list))

ASIDPoolDerivations(list) ==
    SetToSortSeq(Pools(list), LAMBDA i, j : list[i].asid_high < list[j].asid_high)

(* untypedCoverToPaddrs of PrintIsabelle.hs: the addresses of the children *)
(* of an untyped at base, given their sizes.                               *)
PhysAddrs(base, sizes) ==
    LET addr[k \in DOMAIN sizes] == IF k = 1 THEN base ELSE addr[k - 1] + sizes[k - 1]
    IN  addr

(* printC for dynamic allocation: the objects as the loader numbers them,  *)
(* and its asid_slots.                                                     *)
PrintObjects(list) ==
    [i \in DOMAIN list |->
        [type |-> list[i].type, size |-> list[i].size, paddr |-> list[i].paddr]]

PrintedModel(objs) ==
    LET list == SortObjects(objs)
    IN  [objects |-> PrintObjects(list), asid |-> ASIDPoolDerivations(list)]
=============================================================================
