--------------------------- MODULE MCStaticSystem ---------------------------
(***************************************************************************)
(* Instances of StaticSystem.  Specs for the linker: N objects of the      *)
(* kinds below on three machines, with boot informations that list the     *)
(* untypeds in another order, with others between them, or without one of  *)
(* them; up to F objects without and up to P objects with addresses on     *)
(* many machines; untypeds that do not fit together.  Models written by    *)
(* hand: two untypeds, normal memory at 8 and device memory at 16, with up *)
(* to three and one children, derivations in both orders, and boot         *)
(* informations that fit, have another order, miss one, or give one        *)
(* another size.                                                           *)
(***************************************************************************)
EXTENDS StaticSystem

CONSTANTS N, F, P

Lists(K, n) == UNION {[1 .. k -> K] : k \in 0 .. n}

Obj4(t, s, p, a) == [type |-> t, size |-> s, paddr |-> p, asid_high |-> a]
NoHigh == -1
Mem(s) == Obj4("Obj", s, 0, NoHigh)
Pinned(t, s, p) == Obj4(t, s, p, NoHigh)
Pool(a) == Obj4("ASIDPool", 2, 0, a)
NoMemory == Obj4("Interrupt", 0, 0, NoHigh)

BuildKinds == {Mem(1), Mem(4), Pinned("Frame", 2, 18), Pinned("Frame", 2, 26), NoMemory, Pool(NoHigh)}

(* Objects without an address, and one that takes no memory. *)
FreeKinds == {Mem(1), Mem(2), Mem(4), NoMemory}

(* Objects at addresses: at the start, the middle and the end of an        *)
(* untyped, one that is not aligned, one outside, two that overlap, and    *)
(* objects to fill gaps with.                                              *)
PinnedKinds == {Mem(1), Mem(2), Pinned("Untyped", 1, 17), Pinned("Frame", 2, 22),
                Pinned("Frame", 4, 20), Pinned("Frame", 2, 25), Pinned("Untyped", 1, 26),
                Pinned("Frame", 2, 30), Pinned("Untyped", 1, 40)}

Ut(n, p, s, d) == [name |-> n, paddr |-> p, size |-> s, device |-> d]
Uts(us) == [n \in DOMAIN us |-> Ut(Len(us) - n, us[n][1], us[n][2], us[n][3])]
Dev == Ut(3, 16, 4, TRUE)
Ram == Ut(2, 20, 4, FALSE)
Big == Ut(1, 24, 8, FALSE)
Machines == {<<Dev, Ram, Big>>, <<Big, Ram>>, <<Big, Dev>>}
BootsOf(us) == {us, Reverse(us), <<Big, Dev>>}

FreeMemory == {<<>>, <<<<16, 4, FALSE>>>>, <<<<0, 4, FALSE>>, <<8, 2, FALSE>>>>,
               <<<<8, 2, FALSE>>, <<2, 2, TRUE>>, <<4, 4, FALSE>>>>,
               <<<<4, 1, FALSE>>, <<6, 2, FALSE>>, <<8, 8, FALSE>>>>}
PinnedMemory == {<<<<16, 16, FALSE>>>>, <<<<24, 8, FALSE>>, <<16, 8, TRUE>>>>,
                 <<<<16, 4, FALSE>>, <<20, 4, TRUE>>, <<24, 2, TRUE>>, <<26, 2, FALSE>>,
                   <<28, 4, FALSE>>>>,
                 <<<<16, 2, FALSE>>, <<18, 1, FALSE>>, <<20, 4, FALSE>>, <<24, 4, TRUE>>,
                   <<28, 4, TRUE>>>>}

(* Untypeds that overlap, in every order, or that are not aligned. *)
BadMemory == {<<a, b, c>> : a, b, c \in {<<16, 4, FALSE>>, <<16, 8, FALSE>>, <<20, 4, FALSE>>,
                                         <<22, 2, TRUE>>, <<24, 8, FALSE>>, <<18, 4, FALSE>>}}

(* Two pools with every asid_high, possible or not, and one pool too many. *)
Claiming == {<<Pool(a), Pool(b)>> : a, b \in {NoHigh, 0, 1, 2, 9}}
Exhausting == {<<Pool(NoHigh), Pool(NoHigh), Pool(NoHigh)>>}

Sys(o, us, boot) == [objs |-> o, uts |-> us, boot |-> boot, slots |-> 20]
On(objs, memory) == {Sys(o, Uts(us), Uts(us)) : o \in objs, us \in memory}

MCSystems ==
    {Sys(o, ub[1], ub[2]) : o \in [1 .. N -> BuildKinds] \cup Claiming \cup Exhausting,
                            ub \in UNION {{us} \X BootsOf(us) : us \in Machines}}
    \cup On(Lists(FreeKinds, F), FreeMemory) \cup On(Lists(PinnedKinds, P), PinnedMemory)
    \cup On({<<Mem(1), Mem(2)>>}, BadMemory)

(* The last untyped is filled exactly by an object with an address. *)
FilledExactly == On({<<Pinned("Frame", 4, 20)>>}, {<<<<20, 4, FALSE>>>>})
-----------------------------------------------------------------------------
Kind(t, s, p) == [type |-> t, size |-> s, paddr |-> p]
Kinds == {Kind("Obj", 1, 0), Kind("Obj", 2, 0), Kind("Frame", 2, 12), Kind("ASIDPool", 2, 0),
          Kind("Untyped", 4, 0), Kind("Interrupt", 1, 0)}
DeviceKinds == {Kind("Frame", 2, 16), Kind("Frame", 2, 18), Kind("Untyped", 2, 0),
                Kind("Frame", 1, 16), Kind("Obj", 2, 0)}

BootUt(p, s, d) == [paddr |-> p, size |-> s, device |-> d]
Boots == {<<BootUt(8, 8, FALSE), BootUt(16, 4, TRUE)>>,
          <<BootUt(16, 4, TRUE), BootUt(0, 4, FALSE), BootUt(8, 8, FALSE)>>,
          <<BootUt(8, 8, FALSE), BootUt(20, 4, FALSE)>>,
          <<BootUt(16, 4, TRUE), BootUt(8, 4, FALSE)>>}

Derivation(u, first, kids) ==
    [untyped |-> u, children |-> [k \in DOMAIN kids |-> first + k]]
Sizes(kids) == [k \in DOMAIN kids |-> kids[k].size]

(* Objects 1 and 2 are the untypeds; flip changes the order of derivations *)
(* and pools; the slots are one too few, or one more than needed.          *)
ModelOf(ka, kb, flip, boot, more) ==
    LET objs == <<Kind("Untyped", 8, 8), Kind("Untyped", 4, 16)>> \o ka \o kb
        uts  == <<Derivation(1, 2, ka), Derivation(2, 2 + Len(ka), kb)>>
        addr == <<Tool!PhysAddrs(8, Sizes(ka)), Tool!PhysAddrs(16, Sizes(kb))>>
    IN  [objects  |-> objs,
         untyped  |-> IF flip THEN Reverse(uts) ELSE uts,
         addr     |-> IF flip THEN Reverse(addr) ELSE addr,
         asid     |-> SetToSortSeq({i \in DOMAIN objs : objs[i].type = "ASIDPool"},
                                   LAMBDA i, j : IF flip THEN i > j ELSE i < j),
         untypeds |-> boot, slots |-> Len(objs) + more - 1, max_objects |-> Len(objs)]

MCModels == {ModelOf(ka, kb, flip, b, n) :
               ka \in Lists(Kinds, 3), kb \in Lists(DeviceKinds, 1), flip \in BOOLEAN,
               b \in Boots, n \in {0, 2}}
-----------------------------------------------------------------------------
Apart(a, s, b, t) == a + s <= b \/ b + t <= a

(* There is a placement of all objects: aligned, apart, inside one of the  *)
(* untypeds, with device memory and addresses respected.                   *)
Sized == {o \in Fit!Objs : in.objs[o].size # 0}
Homes(o) ==
    {b \in UNION {in.uts[u].paddr .. Fit!End(u) - 1 : u \in Fit!Uts} :
        /\ b % in.objs[o].size = 0
        /\ in.objs[o].paddr # 0 => b = in.objs[o].paddr
        /\ \E u \in Fit!Uts : /\ in.uts[u].paddr <= b /\ b + in.objs[o].size <= Fit!End(u)
                              /\ in.objs[o].paddr = 0 => ~in.uts[u].device}
RECURSIVE CanPlace(_, _)
CanPlace(os, taken) ==
    os # {} =>
        LET o == Min(os)
        IN  \E b \in Homes(o) :
                /\ \A t \in taken : Apart(b, in.objs[o].size, t[1], t[2])
                /\ CanPlace(os \ {o}, taken \cup {<<b, in.objs[o].size>>})
Placeable == CanPlace(Sized, {})

(* Filling blocks by halves wastes nothing that matters: without addresses *)
(* to respect, "Out of untyped memory" means that no placement exists,     *)
(* unless there is no untyped at all.                                      *)
NoAddresses == \A o \in Fit!Objs : in.objs[o].paddr = 0
OutOfMemoryJustified == alloc = "memory" /\ NoAddresses /\ Fit!Uts # {} => ~Placeable
=============================================================================
